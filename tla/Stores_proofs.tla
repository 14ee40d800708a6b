--------------------------- MODULE Stores_proofs ---------------------------
(***************************************************************************)
(* What the stores of long-lived work promise, for every value of their    *)
(* constants: rollbacks that were carried out were approved as their risk  *)
(* demands, and once while executors take turns; skills stay within the    *)
(* authority, the call tree and the budget they were given; checkpoints    *)
(* carry an investigation on whoever crashed, forked or failed to save;    *)
(* memories keep one line of versions, and what is forgotten comes back    *)
(* only if a job writes it again.                                          *)
(***************************************************************************)
EXTENDS ApprovedRollback, SkillRuntime, CheckpointRuntime, AgentMemory, FiniteSetTheorems,
        SequenceTheorems, TLAPS

(***************************************************************************)
(* Approved rollback (intermediate/03).                                  *)
(***************************************************************************)

Risks == {"LOW", "MEDIUM", "HIGH", "CRITICAL"}
Statuses == {"NONE", "EXECUTED", "UNKNOWN_OUTCOME", "FAILED_BEFORE_COMMIT"}
Working == {"executing", "EXECUTED", "UNKNOWN_OUTCOME", "FAILED_BEFORE_COMMIT"}

\* What a command shows for itself.
IsApproved(command) ==
    LET payload == command.approval
        demand == Demands[payload.risk] IN
    /\ command.proposal = payload.proposal
    /\ \A r \in command.reviewers :
          /\ [by |-> r, payload |-> payload, says |-> "APPROVE"] \in decided
          /\ Roster[r].trusted /\ Roster[r].roles \cap demand.roles # {}
    /\ \E r \in command.reviewers : TRUE
    /\ demand.separation => Proposer \notin command.reviewers
    /\ demand.approvals > 1 =>
          /\ \E r, s \in command.reviewers : r # s
          /\ demand.roles \subseteq UNION {Roster[r].roles : r \in command.reviewers}

ReviewsHold ==
    /\ \A q \in payloads : q.proposal \in RollbackProposals /\ q.risk \in Risks
    /\ decided \subseteq [by : People, payload : payloads, says : Answers]
    /\ \A c \in commands : IsApproved(c) /\ c.proposal \in RollbackProposals

ExecutionsTyped ==
    /\ records \in [RollbackProposals -> Statuses]
    /\ executors \in [Executors -> [pc : {"idle"}] \cup [pc : Working, command : commands]]
    /\ rolledBack \in Seq(commands)

Done(p) == \E i \in DOMAIN rolledBack : Key(rolledBack[i]) = p
Once(p) == \A i, j \in DOMAIN rolledBack :
              Key(rolledBack[i]) = p /\ Key(rolledBack[j]) = p => i = j

\* An action nobody is unsure about has one executor at most, who found it
\* startable, and where it stands says whether it was carried out.
Orderly(p) ==
    /\ \A x, y \in Executors : On(x, p) /\ On(y, p) => x = y
    /\ \A x \in Executors : On(x, p) =>
          /\ records[p] \in Startable
          /\ executors[x].pc \in {"executing", "FAILED_BEFORE_COMMIT"} => ~Done(p)
          /\ executors[x].pc = "EXECUTED" => Done(p)
    /\ Once(p)
    /\ Done(p) =>
          \/ records[p] \in {"EXECUTED", "UNKNOWN_OUTCOME"}
          \/ \E x \in Executors : On(x, p) /\ executors[x].pc \in {"EXECUTED", "UNKNOWN_OUTCOME"}
    /\ records[p] = "EXECUTED" => Done(p)

TurnsHold == \A p \in RollbackProposals \ unsure : Orderly(p)

RollbackInvariant == ReviewsHold /\ ExecutionsTyped /\ TurnsHold

(* ------------------------------- reviews ------------------------------- *)

\* Every demand asks for one approval or for two, and two are separate.
LEMMA DemandShape ==
    ASSUME NEW risk \in Risks
    PROVE  /\ Demands[risk].approvals \in {1, 2}
           /\ Demands[risk].approvals > 1 => Demands[risk].separation
<1>1. CASE risk = "LOW" BY <1>1 DEF Demands, Demand
<1>2. CASE risk = "MEDIUM" BY <1>2 DEF Demands, Demand
<1>3. CASE risk = "HIGH" BY <1>3 DEF Demands, Demand
<1>4. CASE risk = "CRITICAL" BY <1>4 DEF Demands, Demand
<1> QED BY <1>1, <1>2, <1>3, <1>4 DEF Risks

\* A list a caller can hand in holds decisions on record, and is a sequence.
LEMMA ListsAreOnRecord ==
    ASSUME NEW ds \in Lists
    PROVE  /\ Len(ds) \in Nat /\ DOMAIN ds = 1..Len(ds)
           /\ \A i \in DOMAIN ds : ds[i] \in decided
BY DEF Lists

\* The command an accepted list yields is approved.
LEMMA AcceptedListsApprove ==
    ASSUME ReviewsHold, NEW payload \in payloads, NEW ds \in Lists,
           Verdict(payload, ds) = "APPROVED"
    PROVE  IsApproved(Command(payload, ds))
<1> DEFINE demand == Demands[payload.risk]
           command == Command(payload, ds)
           people == {ds[i].by : i \in DOMAIN ds}
<1>1. /\ \A i \in DOMAIN ds : ds[i] \in decided
      /\ Len(ds) \in Nat /\ DOMAIN ds = 1..Len(ds)
  BY ListsAreOnRecord
<1>2. /\ ~Said(ds, "REJECT") /\ ~Said(ds, "ESCALATE") /\ ~Said(ds, "MODIFY")
      /\ Validated(payload, ds)
  BY DEF Verdict
<1>3. /\ \A i \in DOMAIN ds : Counts(ds[i], payload)
      /\ Len(ds) >= demand.approvals
      /\ demand.separation => SeparateDuties(ds)
      /\ demand.approvals > 1 =>
            demand.roles \subseteq UNION {Roster[ds[i].by].roles : i \in DOMAIN ds}
  BY <1>2 DEF Validated
<1>4. ASSUME NEW i \in DOMAIN ds
      PROVE  /\ ds[i] = [by |-> ds[i].by, payload |-> payload, says |-> "APPROVE"]
             /\ Roster[ds[i].by].trusted
             /\ Roster[ds[i].by].roles \cap demand.roles # {}
  <2>1. ds[i] \in [by : People, payload : payloads, says : Answers]
    BY <1>1 DEF ReviewsHold
  <2>2. ds[i].says = "APPROVE"
    BY <2>1, <1>2 DEF Said, Answers
  <2>3. ds[i].payload = payload
    BY <1>3 DEF Counts
  <2>4. Roster[ds[i].by].trusted /\ Roster[ds[i].by].roles \cap demand.roles # {}
    BY <1>3 DEF Counts
  <2> QED BY <2>1, <2>2, <2>3, <2>4
<1>5. demand.approvals \in {1, 2} /\ (demand.approvals > 1 => demand.separation)
  BY DemandShape DEF ReviewsHold
<1>6. 1 \in DOMAIN ds
  BY <1>1, <1>3, <1>5
<1>7. demand.separation => Proposer \notin people
  BY <1>3 DEF SeparateDuties
<1>8. ASSUME demand.approvals > 1
      PROVE  /\ \E r, s \in people : r # s
             /\ demand.roles \subseteq UNION {Roster[r].roles : r \in people}
  <2>1. 2 \in DOMAIN ds
    BY <1>8, <1>1, <1>3, <1>5
  <2>2. ds[1].by # ds[2].by
    BY <2>1, <1>6, <1>8, <1>5, <1>3 DEF SeparateDuties
  <2>3. ds[1].by \in people /\ ds[2].by \in people
    BY <2>1, <1>6
  <2>4. \E r, s \in people : r # s
    BY <2>2, <2>3
  <2>5. UNION {Roster[ds[i].by].roles : i \in DOMAIN ds}
          \subseteq UNION {Roster[r].roles : r \in people}
    OBVIOUS
  <2>6. demand.roles \subseteq UNION {Roster[r].roles : r \in people}
    BY <2>5, <1>8, <1>3
  <2> QED BY <2>4, <2>6
<1>9. \A r \in people :
         /\ [by |-> r, payload |-> payload, says |-> "APPROVE"] \in decided
         /\ Roster[r].trusted /\ Roster[r].roles \cap demand.roles # {}
  <2> SUFFICES ASSUME NEW i \in DOMAIN ds
               PROVE  /\ [by |-> ds[i].by, payload |-> payload, says |-> "APPROVE"] \in decided
                      /\ Roster[ds[i].by].trusted
                      /\ Roster[ds[i].by].roles \cap demand.roles # {}
    OBVIOUS
  <2> QED BY <1>4, <1>1
<1>10. /\ command.proposal = payload.proposal /\ command.approval = payload
       /\ command.reviewers = people
  BY DEF Command
<1>11. \E r \in people : TRUE
  BY <1>6
<1> HIDE DEF demand, people, command
<1>12. /\ command.proposal = command.approval.proposal
       /\ demand = Demands[command.approval.risk]
  BY <1>10 DEF demand
<1> QED
  BY <1>12, <1>7, <1>8, <1>9, <1>10, <1>11, Zenon DEF IsApproved, command

\* Reviews keep what they have: decisions and commands are only added to.
LEMMA ReviewsStay ==
    ASSUME ReviewsHold, [RollbackNext]_rollbackVars
    PROVE  ReviewsHold'
<1>1. ASSUME NEW c, IsApproved(c), decided \subseteq decided'
      PROVE  IsApproved(c)'
  BY <1>1, Zenon DEF IsApproved
<1>2. CASE \E p \in RollbackProposals, e \in Environments : Propose(p, e)
  <2> PICK p \in RollbackProposals, e \in Environments : Propose(p, e) BY <1>2
  <2> DEFINE q == Payload(p, e)
  <2>1. q.proposal = p /\ q.risk \in Risks
    BY DEF Payload, Risk, Risks
  <2> HIDE DEF q
  <2>2. payloads' = payloads \cup {q} /\ UNCHANGED <<decided, commands>>
    BY DEF Propose, q
  <2>3. \A c \in commands' : IsApproved(c)' /\ c.proposal \in RollbackProposals
    BY <2>2, <1>1 DEF ReviewsHold
  <2>4. \A r \in payloads' : r.proposal \in RollbackProposals /\ r.risk \in Risks
    BY <2>1, <2>2 DEF ReviewsHold
  <2>5. decided' \subseteq [by : People, payload : payloads', says : Answers]
    BY <2>2 DEF ReviewsHold
  <2> QED BY <2>3, <2>4, <2>5, Zenon DEF ReviewsHold
<1>3. CASE \E person \in People, payload \in payloads, says \in Answers :
              RecordDecision(person, payload, says)
  <2> PICK person \in People, payload \in payloads, says \in Answers :
              RecordDecision(person, payload, says) BY <1>3
  <2>1. /\ decided' = decided \cup {[by |-> person, payload |-> payload, says |-> says]}
        /\ UNCHANGED <<payloads, commands>>
    BY DEF RecordDecision
  <2>2. \A c \in commands' : IsApproved(c)' /\ c.proposal \in RollbackProposals
    BY <2>1, <1>1 DEF ReviewsHold
  <2>3. decided' \subseteq [by : People, payload : payloads', says : Answers]
    BY <2>1 DEF ReviewsHold
  <2> QED BY <2>1, <2>2, <2>3 DEF ReviewsHold
<1>4. CASE \E payload \in payloads, ds \in Lists : Process(payload, ds)
  <2> PICK payload \in payloads, ds \in Lists : Process(payload, ds) BY <1>4
  <2>1. UNCHANGED <<payloads, decided>>
    BY DEF Process
  <2>2. \A c \in commands' : IsApproved(c) /\ c.proposal \in RollbackProposals
    <3>1. CASE Verdict(payload, ds) = "APPROVED"
      <4>1. IsApproved(Command(payload, ds)) BY <3>1, AcceptedListsApprove
      <4>2. Command(payload, ds).proposal = payload.proposal BY DEF Command
      <4>3. commands' = commands \cup {Command(payload, ds)} BY <3>1 DEF Process
      <4> QED BY <4>1, <4>2, <4>3 DEF ReviewsHold
    <3>2. CASE Verdict(payload, ds) # "APPROVED"
      BY <3>2 DEF Process, ReviewsHold
    <3> QED BY <3>1, <3>2
  <2>3. \A c \in commands' : IsApproved(c)' /\ c.proposal \in RollbackProposals
    BY <2>1, <2>2, <1>1
  <2> QED BY <2>1, <2>3, Zenon DEF ReviewsHold
<1>5. CASE UNCHANGED reviewVars
  <2>1. UNCHANGED <<payloads, decided, commands>> BY <1>5 DEF reviewVars
  <2>2. \A c \in commands' : IsApproved(c)' /\ c.proposal \in RollbackProposals
    BY <2>1, <1>1 DEF ReviewsHold
  <2> QED BY <2>1, <2>2, Zenon DEF ReviewsHold
<1>6. CASE \E x \in Executors :
          \/ \E command \in commands : Begin(x, command)
          \/ \E heard \in BOOLEAN : CarryOut(x, heard) \/ FailToCarryOut(x, heard)
          \/ RecordExecution(x) \/ Die(x)
  BY <1>6, <1>5 DEF Begin, CarryOut, FailToCarryOut, RecordExecution, Die
<1>7. CASE \/ ChangePolicy \/ HourGoesBy
           \/ \E version \in {evidence.version, evidence.version + 1} : ReadEvidence(version)
           \/ UNCHANGED rollbackVars
  BY <1>7, <1>5 DEF ChangePolicy, HourGoesBy, ReadEvidence, rollbackVars
<1> QED BY <1>2, <1>3, <1>4, <1>6, <1>7 DEF RollbackNext

(* ------------------------------ executions ----------------------------- *)

\* A command on record stays on record.
LEMMA CommandsStay ==
    ASSUME [RollbackNext]_rollbackVars
    PROVE  commands \subseteq commands'
BY DEF RollbackNext, Propose, RecordDecision, Process, Begin, CarryOut, FailToCarryOut,
       RecordExecution, Die, ChangePolicy, HourGoesBy, ReadEvidence, rollbackVars, reviewVars

\* What executors do keeps to the statuses, and to commands on record.
LEMMA ExecutionsStay ==
    ASSUME ReviewsHold, ExecutionsTyped, [RollbackNext]_rollbackVars
    PROVE  ExecutionsTyped'
<1> DEFINE Holding(cs) == [pc : {"idle"}] \cup [pc : Working, command : cs]
<1>0. commands \subseteq commands'
  BY CommandsStay
<1>1. Holding(commands) \subseteq Holding(commands')
  BY <1>0
<1>2. rolledBack \in Seq(commands')
  BY <1>0 DEF ExecutionsTyped
<1>3. ASSUME NEW x \in Executors, NEW e \in Holding(commands'),
             executors' = [executors EXCEPT ![x] = e]
      PROVE  executors' \in [Executors -> Holding(commands')]
  BY <1>3, <1>1 DEF ExecutionsTyped
<1>4. CASE UNCHANGED executionVars
  BY <1>4, <1>1, <1>2 DEF executionVars, ExecutionsTyped
<1>5. ASSUME NEW x \in Executors, NEW c \in commands, Begin(x, c) PROVE ExecutionsTyped'
  <2>1. [pc |-> "executing", command |-> c] \in Holding(commands')
    BY <1>0 DEF Working
  <2>2. executors' \in [Executors -> Holding(commands')]
    BY <2>1, <1>3, <1>5 DEF Begin
  <2> QED BY <2>2, <1>2, <1>5 DEF Begin, ExecutionsTyped
<1>6. ASSUME NEW x \in Executors, executors[x].pc \in Working, NEW pc \in Working,
             Reaches(x, pc)
      PROVE  executors' \in [Executors -> Holding(commands')]
  <2>1. executors[x] \in [pc : Working, command : commands]
    BY <1>6 DEF ExecutionsTyped, Working
  <2>2. [executors[x] EXCEPT !.pc = pc] \in Holding(commands')
    BY <2>1, <1>0
  <2>3. executors' = [executors EXCEPT ![x] = [executors[x] EXCEPT !.pc = pc]]
    BY <1>6 DEF Reaches
  <2> QED BY <2>2, <2>3, <1>3
<1>7. ASSUME NEW x \in Executors, NEW heard \in BOOLEAN, CarryOut(x, heard)
      PROVE  ExecutionsTyped'
  <2>1. executors[x].pc = "executing" BY <1>7 DEF CarryOut
  <2>2. executors[x].command \in commands
    BY <2>1 DEF ExecutionsTyped
  <2>3. rolledBack' \in Seq(commands')
    BY <2>2, <1>0, <1>2, <1>7 DEF CarryOut
  <2>4. executors' \in [Executors -> Holding(commands')]
    BY <2>1, <1>6, <1>7 DEF CarryOut, Working
  <2> QED BY <2>3, <2>4, <1>7 DEF CarryOut, ExecutionsTyped
<1>8. ASSUME NEW x \in Executors, NEW heard \in BOOLEAN, FailToCarryOut(x, heard)
      PROVE  ExecutionsTyped'
  <2>1. executors' \in [Executors -> Holding(commands')]
    BY <1>6, <1>8 DEF FailToCarryOut, Working
  <2> QED BY <2>1, <1>2, <1>8 DEF FailToCarryOut, ExecutionsTyped
<1>9. ASSUME NEW x \in Executors, RecordExecution(x) PROVE ExecutionsTyped'
  <2>1. /\ executors[x].pc \in Statuses
        /\ executors[x].command \in commands
    BY <1>9 DEF RecordExecution, ExecutionsTyped, Working, Statuses
  <2>2. Key(executors[x].command) \in RollbackProposals
    BY <2>1 DEF ReviewsHold, Key
  <2>3. records' \in [RollbackProposals -> Statuses]
    BY <2>1, <2>2, <1>9 DEF RecordExecution, ExecutionsTyped
  <2>4. [pc |-> "idle"] \in Holding(commands')
    OBVIOUS
  <2>5. executors' \in [Executors -> Holding(commands')]
    BY <2>4, <1>3, <1>9 DEF RecordExecution
  <2> QED BY <2>3, <2>5, <1>2, <1>9 DEF RecordExecution, ExecutionsTyped
<1>10. ASSUME NEW x \in Executors, Die(x) PROVE ExecutionsTyped'
  <2>1. [pc |-> "idle"] \in Holding(commands')
    OBVIOUS
  <2>2. executors' \in [Executors -> Holding(commands')]
    BY <2>1, <1>3, <1>10 DEF Die
  <2> QED BY <2>2, <1>2, <1>10 DEF Die, ExecutionsTyped
<1> QED
  BY <1>4, <1>5, <1>7, <1>8, <1>9, <1>10
     DEF RollbackNext, Propose, RecordDecision, Process, ChangePolicy, HourGoesBy,
         ReadEvidence, rollbackVars, worldVars

(* --------------------------------- turns ------------------------------- *)

\* Appending a command to what was done adds its action, and no other.
LEMMA DoneOnceMore ==
    ASSUME ExecutionsTyped, NEW c, NEW p, rolledBack' = Append(rolledBack, c)
    PROVE  /\ Done(p)' <=> Done(p) \/ Key(c) = p
           /\ Once(p) /\ (Key(c) = p => ~Done(p)) => Once(p)'
<1>1. /\ Len(rolledBack) \in Nat /\ DOMAIN rolledBack = 1..Len(rolledBack)
      /\ DOMAIN rolledBack' = 1..(Len(rolledBack) + 1)
      /\ \A i \in 1..Len(rolledBack) : rolledBack'[i] = rolledBack[i]
      /\ rolledBack'[Len(rolledBack) + 1] = c
  BY DEF ExecutionsTyped
<1>2. \A i \in DOMAIN rolledBack' : i \in DOMAIN rolledBack \/ i = Len(rolledBack) + 1
  BY <1>1
<1>3. DOMAIN rolledBack \subseteq DOMAIN rolledBack' /\ Len(rolledBack) + 1 \in DOMAIN rolledBack'
  BY <1>1
<1>4. \A i \in DOMAIN rolledBack : rolledBack'[i] = rolledBack[i]
  BY <1>1
<1>5. Done(p)' <=> Done(p) \/ Key(c) = p
  BY <1>1, <1>2, <1>3, <1>4, Zenon DEF Done, Key
<1>6. ASSUME Once(p), Key(c) = p => ~Done(p) PROVE Once(p)'
  <2> SUFFICES ASSUME NEW i \in DOMAIN rolledBack', NEW j \in DOMAIN rolledBack',
                      Key(rolledBack'[i]) = p, Key(rolledBack'[j]) = p
               PROVE  i = j
    BY Zenon DEF Once, Key
  <2>1. CASE i \in DOMAIN rolledBack /\ j \in DOMAIN rolledBack
    BY <2>1, <1>4, <1>6 DEF Once
  <2>2. CASE i = Len(rolledBack) + 1 /\ j = Len(rolledBack) + 1
    BY <2>2
  <2>3. CASE i \in DOMAIN rolledBack /\ j = Len(rolledBack) + 1
    BY <2>3, <1>1, <1>4, <1>6 DEF Done
  <2>4. CASE i = Len(rolledBack) + 1 /\ j \in DOMAIN rolledBack
    BY <2>4, <1>1, <1>4, <1>6 DEF Done
  <2> QED BY <2>1, <2>2, <2>3, <2>4, <1>2
<1> QED BY <1>5, <1>6

\* The action of another command is as orderly as it was.
LEMMA OthersStayOrderly ==
    ASSUME ExecutionsTyped, NEW p, Orderly(p),
           NEW x \in Executors, ~On(x, p), ~On(x, p)',
           \A y \in Executors \ {x} : executors'[y] = executors[y],
           records'[p] = records[p], Done(p)' <=> Done(p), Once(p)'
    PROVE  Orderly(p)'
<1>1. \A y \in Executors \ {x} : On(y, p)' <=> On(y, p)
  BY DEF On, Busy
<1>2. \A y \in Executors : On(y, p)' => On(y, p) /\ executors'[y] = executors[y]
  BY <1>1
<1>3. \A y \in Executors : On(y, p) => On(y, p)' /\ executors'[y] = executors[y]
  BY <1>1
<1>4. /\ \A y, z \in Executors : On(y, p)' /\ On(z, p)' => y = z
      /\ \A y \in Executors : On(y, p)' =>
            /\ records'[p] \in Startable
            /\ executors'[y].pc \in {"executing", "FAILED_BEFORE_COMMIT"} => ~Done(p)'
            /\ executors'[y].pc = "EXECUTED" => Done(p)'
  BY <1>2, Zenon DEF Orderly
<1>5. Done(p)' =>
          \/ records'[p] \in {"EXECUTED", "UNKNOWN_OUTCOME"}
          \/ \E y \in Executors : On(y, p)' /\ executors'[y].pc \in {"EXECUTED", "UNKNOWN_OUTCOME"}
  BY <1>3, Zenon DEF Orderly
<1>6. records'[p] = "EXECUTED" => Done(p)'
  BY Zenon DEF Orderly
<1> QED BY <1>4, <1>5, <1>6, Zenon DEF Orderly, Startable

\* The turns of the executors stay orderly, step by step.
LEMMA TurnsStay ==
    ASSUME RollbackInvariant, [RollbackNext]_rollbackVars
    PROVE  TurnsHold'
<1> USE DEF RollbackInvariant
<1>1. CASE UNCHANGED executionVars
  <2>1. UNCHANGED <<records, executors, rolledBack, unsure>> BY <1>1 DEF executionVars
  <2>2. \A p : Done(p)' <=> Done(p) BY <2>1, Zenon DEF Done, Key
  <2>3. \A p : Once(p)' <=> Once(p) BY <2>1, Zenon DEF Once, Key
  <2>4. \A p, x : On(x, p)' <=> On(x, p) BY <2>1, Zenon DEF On, Busy, Key
  <2>5. \A p : Orderly(p)' <=> Orderly(p)
    BY <2>1, <2>2, <2>3, <2>4, Zenon DEF Orderly, Startable
  <2> QED BY <2>1, <2>5, Zenon DEF TurnsHold
<1>2. ASSUME NEW x \in Executors, NEW c \in commands, Begin(x, c) PROVE TurnsHold'
  <2> SUFFICES ASSUME NEW p \in RollbackProposals \ unsure' PROVE Orderly(p)'
    BY Zenon DEF TurnsHold
  <2>1. /\ ~Busy(x) /\ records[Key(c)] \in Startable
        /\ UNCHANGED <<records, rolledBack>>
        /\ p \notin unsure
        /\ (\E y \in Executors : On(y, Key(c))) => p # Key(c)
    BY <1>2 DEF Begin
  <2>2. /\ executors'[x] = [pc |-> "executing", command |-> c]
        /\ \A y \in Executors \ {x} : executors'[y] = executors[y]
    BY <1>2 DEF Begin, ExecutionsTyped
  <2>3. Orderly(p) BY <2>1 DEF TurnsHold
  <2>4. (Done(p)' <=> Done(p)) /\ Once(p)'
    BY <2>1, <2>3, Zenon DEF Done, Once, Orderly, Key
  <2>5. On(x, p)' <=> Key(c) = p
    BY <2>2 DEF On, Busy, Key
  <2>6. ~On(x, p) BY <2>1 DEF On
  <2>7. CASE Key(c) # p
    BY <2>1, <2>2, <2>3, <2>4, <2>5, <2>6, <2>7, OthersStayOrderly
  <2>8. CASE Key(c) = p
    <3>1. \A y \in Executors : ~On(y, p)
      BY <2>1, <2>8
    <3>2. \A y \in Executors \ {x} : ~On(y, p)'
      BY <3>1, <2>2 DEF On, Busy
    <3>3. ~Done(p)
      BY <2>1, <2>3, <2>8, <3>1 DEF Orderly, Startable
    <3>4. On(x, p)' /\ executors'[x].pc = "executing"
      BY <2>2, <2>5, <2>8
    <3>5. records'[p] \in Startable /\ records'[p] # "EXECUTED"
      BY <2>1, <2>8 DEF Startable
    <3> QED
      BY <3>2, <3>3, <3>4, <3>5, <2>4, <2>1, Zenon DEF Orderly, Startable
  <2> QED BY <2>7, <2>8
<1>3. ASSUME NEW x \in Executors, NEW heard \in BOOLEAN, CarryOut(x, heard) PROVE TurnsHold'
  <2> SUFFICES ASSUME NEW p \in RollbackProposals \ unsure' PROVE Orderly(p)'
    BY Zenon DEF TurnsHold
  <2> DEFINE c == executors[x].command
  <2>1. /\ executors[x].pc = "executing"
        /\ UNCHANGED <<records, unsure>>
        /\ rolledBack' = Append(rolledBack, c)
    BY <1>3 DEF CarryOut
  <2>2. /\ executors'[x].pc \in {"EXECUTED", "UNKNOWN_OUTCOME"}
        /\ executors'[x].command = c
        /\ \A y \in Executors \ {x} : executors'[y] = executors[y]
    BY <1>3, <2>1 DEF CarryOut, Reaches, ExecutionsTyped
  <2>3. Orderly(p) BY <2>1 DEF TurnsHold
  <2>4. /\ Done(p)' <=> Done(p) \/ Key(c) = p
        /\ Once(p) /\ (Key(c) = p => ~Done(p)) => Once(p)'
    BY <2>1, DoneOnceMore
  <2>5. (On(x, p)' <=> Key(c) = p) /\ (On(x, p) <=> Key(c) = p)
    BY <2>1, <2>2 DEF On, Busy, Key
  <2>6. CASE Key(c) # p
    <3>1. Once(p)' /\ (Done(p)' <=> Done(p)) BY <2>3, <2>4, <2>6 DEF Orderly
    <3> QED BY <3>1, <2>1, <2>2, <2>3, <2>5, <2>6, OthersStayOrderly
  <2>7. CASE Key(c) = p
    <3>1. ~Done(p) /\ Once(p) /\ records[p] \in Startable
      BY <2>1, <2>3, <2>5, <2>7 DEF Orderly
    <3>2. Done(p)' /\ Once(p)' BY <3>1, <2>4, <2>7
    <3>3. \A y \in Executors \ {x} : ~On(y, p)
      BY <2>3, <2>5, <2>7 DEF Orderly
    <3>4. \A y \in Executors \ {x} : ~On(y, p)'
      BY <3>3, <2>2 DEF On, Busy
    <3>5. records' = records BY <2>1
    <3>6. executors'[x].pc \notin {"executing", "FAILED_BEFORE_COMMIT"} BY <2>2
    <3>7. On(x, p)' BY <2>5, <2>7
    <3>8. records'[p] \in Startable BY <3>1, <3>5
    <3> QED BY <3>2, <3>4, <3>6, <3>7, <3>8, <2>2, Zenon DEF Orderly, Startable
  <2> QED BY <2>6, <2>7
<1>4. ASSUME NEW x \in Executors, NEW heard \in BOOLEAN, FailToCarryOut(x, heard)
      PROVE  TurnsHold'
  <2> SUFFICES ASSUME NEW p \in RollbackProposals \ unsure' PROVE Orderly(p)'
    BY Zenon DEF TurnsHold
  <2> DEFINE c == executors[x].command
  <2>1. /\ executors[x].pc = "executing"
        /\ UNCHANGED <<records, rolledBack, unsure>>
    BY <1>4 DEF FailToCarryOut
  <2>2. /\ executors'[x].pc \in {"FAILED_BEFORE_COMMIT", "UNKNOWN_OUTCOME"}
        /\ executors'[x].command = c
        /\ \A y \in Executors \ {x} : executors'[y] = executors[y]
    BY <1>4, <2>1 DEF FailToCarryOut, Reaches, ExecutionsTyped
  <2>3. Orderly(p) BY <2>1 DEF TurnsHold
  <2>4. (Done(p)' <=> Done(p)) /\ Once(p)'
    BY <2>1, <2>3, Zenon DEF Done, Once, Orderly, Key
  <2>5. (On(x, p)' <=> Key(c) = p) /\ (On(x, p) <=> Key(c) = p)
    BY <2>1, <2>2 DEF On, Busy, Key
  <2>6. CASE Key(c) # p
    BY <2>1, <2>2, <2>3, <2>4, <2>5, <2>6, OthersStayOrderly
  <2>7. CASE Key(c) = p
    <3>1. ~Done(p) /\ records[p] \in Startable
      BY <2>1, <2>3, <2>5, <2>7 DEF Orderly
    <3>2. \A y \in Executors \ {x} : ~On(y, p)
      BY <2>3, <2>5, <2>7 DEF Orderly
    <3>3. \A y \in Executors \ {x} : ~On(y, p)'
      BY <3>2, <2>2 DEF On, Busy
    <3>4. executors'[x].pc # "EXECUTED" BY <2>2
    <3>5. records'[p] \in Startable /\ records'[p] # "EXECUTED"
      BY <3>1, <2>1 DEF Startable
    <3>6. ~Done(p)' BY <3>1, <2>4
    <3> QED BY <3>3, <3>4, <3>5, <3>6, <2>4, Zenon DEF Orderly, Startable
  <2> QED BY <2>6, <2>7
<1>5. ASSUME NEW x \in Executors, RecordExecution(x) PROVE TurnsHold'
  <2> SUFFICES ASSUME NEW p \in RollbackProposals \ unsure' PROVE Orderly(p)'
    BY Zenon DEF TurnsHold
  <2> DEFINE c == executors[x].command
  <2>1. /\ executors[x] \in [pc : Statuses \ {"NONE"}, command : commands]
        /\ UNCHANGED <<rolledBack, unsure>>
        /\ records' = [records EXCEPT ![Key(c)] = executors[x].pc]
    BY <1>5 DEF RecordExecution, ExecutionsTyped, Working, Statuses
  <2>2. /\ executors'[x].pc = "idle"
        /\ \A y \in Executors \ {x} : executors'[y] = executors[y]
    BY <1>5 DEF RecordExecution, ExecutionsTyped
  <2>3. Orderly(p) BY <2>1 DEF TurnsHold
  <2>4. (Done(p)' <=> Done(p)) /\ Once(p)'
    BY <2>1, <2>3, Zenon DEF Done, Once, Orderly, Key
  <2>5. ~On(x, p)' /\ (On(x, p) <=> Key(c) = p)
    BY <2>1, <2>2 DEF On, Busy, Key, Statuses
  <2>6. CASE Key(c) # p
    <3>1. records'[p] = records[p] BY <2>1, <2>6 DEF ExecutionsTyped
    <3> QED BY <3>1, <2>2, <2>3, <2>4, <2>5, <2>6, OthersStayOrderly
  <2>7. CASE Key(c) = p
    <3>1. records'[p] = executors[x].pc
      BY <2>1, <2>7 DEF ExecutionsTyped
    <3>2. \A y \in Executors \ {x} : ~On(y, p)
      BY <2>3, <2>5, <2>7 DEF Orderly
    <3>3. \A y \in Executors : ~On(y, p)'
      BY <3>2, <2>2, <2>5 DEF On, Busy
    <3>4. /\ executors[x].pc \in {"executing", "FAILED_BEFORE_COMMIT"} => ~Done(p)
          /\ executors[x].pc = "EXECUTED" => Done(p)
      BY <2>3, <2>5, <2>7 DEF Orderly
    <3>5. Done(p)' => records'[p] \in {"EXECUTED", "UNKNOWN_OUTCOME"}
      BY <3>1, <3>4, <2>1, <2>4 DEF Statuses
    <3>6. records'[p] = "EXECUTED" => Done(p)'
      BY <3>1, <3>4, <2>4
    <3> QED BY <3>3, <3>5, <3>6, <2>4, Zenon DEF Orderly, Startable
  <2> QED BY <2>6, <2>7
<1>6. ASSUME NEW x \in Executors, Die(x) PROVE TurnsHold'
  <2> SUFFICES ASSUME NEW p \in RollbackProposals \ unsure' PROVE Orderly(p)'
    BY Zenon DEF TurnsHold
  <2>1. /\ p \notin unsure /\ p # Key(executors[x].command)
        /\ UNCHANGED <<records, rolledBack>>
    BY <1>6 DEF Die
  <2>2. /\ executors'[x].pc = "idle"
        /\ \A y \in Executors \ {x} : executors'[y] = executors[y]
    BY <1>6 DEF Die, ExecutionsTyped
  <2>3. Orderly(p) BY <2>1 DEF TurnsHold
  <2>4. (Done(p)' <=> Done(p)) /\ Once(p)'
    BY <2>1, <2>3, Zenon DEF Done, Once, Orderly, Key
  <2>5. ~On(x, p) /\ ~On(x, p)'
    BY <2>1, <2>2 DEF On, Busy, Key
  <2> QED BY <2>1, <2>2, <2>3, <2>4, <2>5, OthersStayOrderly
<1> QED
  BY <1>1, <1>2, <1>3, <1>4, <1>5, <1>6
     DEF RollbackNext, Propose, RecordDecision, Process, ChangePolicy, HourGoesBy,
         ReadEvidence, rollbackVars, worldVars

(* ------------------------------- theorems ------------------------------ *)

\* The invariant holds at the start, when nothing was proposed.
LEMMA RollbackStarts == RollbackInit => RollbackInvariant
<1> SUFFICES ASSUME RollbackInit PROVE RollbackInvariant
  OBVIOUS
<1>1. ReviewsHold BY DEF RollbackInit, ReviewsHold
<1>2. ExecutionsTyped BY DEF RollbackInit, ExecutionsTyped, Statuses
<1>0. DOMAIN rolledBack = {} BY DEF RollbackInit
<1>3. \A p : ~Done(p) /\ Once(p) BY <1>0 DEF Done, Once
<1>4. \A x \in Executors, p \in RollbackProposals : ~On(x, p)
  BY DEF RollbackInit, On, Busy
<1>5. \A p \in RollbackProposals : records[p] = "NONE" BY DEF RollbackInit
<1>6. TurnsHold BY <1>3, <1>4, <1>5 DEF TurnsHold, Orderly
<1> QED BY <1>1, <1>2, <1>6 DEF RollbackInvariant

\* What reviewers, callers and executors keep true together.
LEMMA RollbackInvariantHolds == RollbackSpec => []RollbackInvariant
<1>1. RollbackInvariant /\ [RollbackNext]_rollbackVars => RollbackInvariant'
  BY ReviewsStay, ExecutionsStay, TurnsStay DEF RollbackInvariant
<1> QED BY <1>1, RollbackStarts, PTL DEF RollbackSpec

\* Every rollback that was carried out was approved as its risk demands; and
\* while executors take turns and none dies, it was carried out once and its
\* record says so (process_decision, check_idempotency, record_execution).
THEOREM RollbacksArePromised == RollbackSpec => []RollbacksKeepTheirPromise
<1>1. RollbackInvariant => RollbacksAreApproved
  <2> SUFFICES ASSUME RollbackInvariant, NEW i \in DOMAIN rolledBack
               PROVE  IsApproved(rolledBack[i])
    BY Zenon DEF RollbacksAreApproved, IsApproved
  <2>1. rolledBack[i] \in commands BY DEF RollbackInvariant, ExecutionsTyped
  <2> QED BY <2>1 DEF RollbackInvariant, ReviewsHold
<1>2. RollbackInvariant => RecordsTellTheTruth
  BY Zenon DEF RollbackInvariant, TurnsHold, Orderly, Once, Done, RecordsTellTheTruth
<1> QED
  BY <1>1, <1>2, RollbackInvariantHolds, PTL DEF RollbacksKeepTheirPromise

(***************************************************************************)
(* The skill runtime (advanced/14).                                        *)
(***************************************************************************)

\* What each call holds; an execution asks for one model call and no activation.
CallsFit ==
    /\ thread = [t \in Threads |-> thread[t]]
    /\ \A t \in Threads :
          \/ thread[t] = IdleCall
          \/ \E at \in {"routed", "checked", "charged"}, r \in DOMAIN Requests, s \in Skills :
                thread[t] = [at |-> at, request |-> r, skill |-> s]
          \/ \E at \in {"authorised", "paid"}, a \in activations : \E n :
                thread[t] = [at |-> at, activation |-> a,
                             cost |-> [activations |-> 0, tools |-> n, models |-> 1]]

\* An activation has at most what every skill from its root down asked for.
AuthorityNarrows ==
    /\ handed \subseteq activations
    /\ \A a \in activations :
          a.caps \subseteq Permissions /\ \A i \in DOMAIN a.path : a.caps \subseteq Request(a.path[i])

\* Trees are numbered, each is of one request, and only a tree has an artifact.
TreesApart ==
    /\ IsFiniteSet(Roots) /\ \A n \in Roots : n \in Nat /\ n <= Cardinality(Roots)
    /\ artifacts \subseteq Roots
    /\ \A a \in activations : a.request \in DOMAIN Requests
    /\ \A a, b \in activations : a.root = b.root => a.request = b.request

\* What a request has to show for its budget, and what it has paid for and not had yet.
Activated(r) == {<<a.root, Last(a.path)>> : a \in {x \in activations : x.request = r}}
ToActivate(r) ==
    {p \in Threads \X Skills :
       /\ thread[p[1]].at = "charged" /\ thread[p[1]].request = r
       /\ p[2] \in Closure[thread[p[1]].skill]}
Finished(r) == {a.root : a \in {x \in activations : x.request = r /\ x.root \in artifacts}}
ToFinish(r) == {t \in Threads : thread[t].at = "paid" /\ thread[t].activation.request = r}

Covered(had, coming, spent) ==
    /\ IsFiniteSet(had) /\ IsFiniteSet(coming) /\ spent \in Nat
    /\ Cardinality(had) + Cardinality(coming) <= spent

UsageFits ==
    /\ usage = [r \in DOMAIN Requests |-> usage[r]]
    /\ \A r \in DOMAIN Requests :
          /\ usage[r] = [kind \in DOMAIN Budget |-> usage[r][kind]]
          /\ \A kind \in DOMAIN Budget : usage[r][kind] <= Budget[kind]
          /\ Covered(Activated(r), ToActivate(r), usage[r].activations)
          /\ Covered(Finished(r), ToFinish(r), usage[r].models)

SkillInvariant ==
    CallsFit /\ AuthorityNarrows /\ TreesApart /\ UsesStayWithinAuthority /\ UsageFits

(* ------------------------------- counting ------------------------------ *)

LEMMA CoveredMeans ==
    ASSUME NEW had, NEW coming, NEW spent, Covered(had, coming, spent)
    PROVE  Cardinality(had) <= spent
<1>1. Cardinality(had) \in Nat /\ Cardinality(coming) \in Nat
  BY FS_CardinalityType DEF Covered
<1> QED BY <1>1 DEF Covered

\* What is paid for comes first ...
LEMMA CoveringMore ==
    ASSUME NEW had, NEW coming, NEW spent, NEW new, IsFiniteSet(new),
           Covered(had, coming, spent)
    PROVE  Covered(had, coming \cup new, spent + Cardinality(new))
<1>1. IsFiniteSet(had) /\ IsFiniteSet(coming) /\ spent \in Nat
      /\ Cardinality(had) + Cardinality(coming) <= spent
  BY DEF Covered
<1>2. /\ Cardinality(had) \in Nat /\ Cardinality(coming) \in Nat /\ Cardinality(new) \in Nat
      /\ Cardinality(coming \cap new) \in Nat /\ IsFiniteSet(coming \cup new)
  BY <1>1, FS_CardinalityType, FS_Union, FS_Intersection
<1>3. Cardinality(coming \cup new)
        = Cardinality(coming) + Cardinality(new) - Cardinality(coming \cap new)
  BY <1>1, FS_Union
<1>4. Cardinality(had) + Cardinality(coming \cup new) <= spent + Cardinality(new)
  BY <1>1, <1>2, <1>3
<1> QED BY <1>1, <1>2, <1>4 DEF Covered

\* ... and is there, or is not, afterwards.
LEMMA CoveringHad ==
    ASSUME NEW had, NEW coming, NEW spent, NEW gone, NEW came, gone \subseteq coming,
           IsFiniteSet(came), Cardinality(came) <= Cardinality(gone),
           Covered(had, coming, spent)
    PROVE  Covered(had \cup came, coming \ gone, spent)
<1>1. IsFiniteSet(had) /\ IsFiniteSet(coming) /\ spent \in Nat
      /\ Cardinality(had) + Cardinality(coming) <= spent
  BY DEF Covered
<1>2. IsFiniteSet(gone) /\ IsFiniteSet(coming \ gone) /\ gone \cap coming = gone /\ coming \cap gone = gone
  BY <1>1, FS_Subset, FS_Difference
<1>3. /\ Cardinality(had) \in Nat /\ Cardinality(coming) \in Nat /\ Cardinality(came) \in Nat
      /\ Cardinality(gone) \in Nat /\ Cardinality(had \cap came) \in Nat
      /\ IsFiniteSet(had \cup came)
  BY <1>1, <1>2, FS_CardinalityType, FS_Union, FS_Intersection
<1>4. Cardinality(had \cup came)
        = Cardinality(had) + Cardinality(came) - Cardinality(had \cap came)
  BY <1>1, FS_Union
<1>5. Cardinality(coming \ gone) = Cardinality(coming) - Cardinality(gone)
  BY <1>1, <1>2, FS_Difference
<1>6. Cardinality(had \cup came) + Cardinality(coming \ gone) <= spent
  BY <1>1, <1>3, <1>4, <1>5
<1> QED BY <1>1, <1>2, <1>3, <1>6 DEF Covered

LEMMA CoveringLess ==
    ASSUME NEW had, NEW coming, NEW spent, NEW gone, gone \subseteq coming,
           Covered(had, coming, spent)
    PROVE  Covered(had, coming \ gone, spent)
<1>1. IsFiniteSet({}) /\ Cardinality({}) = 0 BY FS_EmptySet
<1>2. IsFiniteSet(gone) BY FS_Subset DEF Covered
<1>3. Cardinality({}) <= Cardinality(gone) BY <1>1, <1>2, FS_CardinalityType
<1>4. Covered(had \cup {}, coming \ gone, spent) BY <1>1, <1>3, CoveringHad
<1>5. had \cup {} = had OBVIOUS
<1> QED BY <1>4, <1>5

LEMMA CoveringRest ==
    ASSUME NEW had, NEW coming, NEW spent, NEW others, Covered(had, coming, spent)
    PROVE  Covered(had, coming \ others, spent)
<1>1. Covered(had, coming \ (coming \cap others), spent) BY CoveringLess
<1>2. coming \ (coming \cap others) = coming \ others OBVIOUS
<1> QED BY <1>1, <1>2

\* The skills a skill depends on, with itself.
LEMMA ClosureFinite ==
    ASSUME NEW skill \in Skills
    PROVE  /\ Closure[skill] = {Last(c) : c \in Chains[skill]}
           /\ Closure[skill] \subseteq Skills /\ IsFiniteSet(Closure[skill])
<1>1. Closure[skill] = {Last(c) : c \in Chains[skill]} BY DEF Closure
<1>2. ASSUME NEW c \in Chains[skill] PROVE Last(c) \in Skills
  <2>1. PICK n \in 1 .. MaxDepth : c \in [1 .. n -> Skills] BY <1>2 DEF Chains
  <2>2. n \in Nat /\ n >= 1 BY <2>1 DEF MaxDepth
  <2>3. c \in Seq(Skills) /\ Len(c) = n BY <2>1, <2>2, SeqDef, LenProperties
  <2> QED BY <2>1, <2>2, <2>3 DEF Last
<1>3. Closure[skill] \subseteq Skills BY <1>1, <1>2
<1> QED BY <1>1, <1>3, SkillAssumption, FS_Subset DEF Skills

LEMMA Tagged ==
    ASSUME NEW x, NEW S, IsFiniteSet(S)
    PROVE  IsFiniteSet({x} \X S) /\ Cardinality({x} \X S) = Cardinality(S)
<1>1. IsFiniteSet({x}) /\ Cardinality({x}) = 1 BY FS_Singleton
<1>2. IsFiniteSet({x} \X S) /\ Cardinality({x} \X S) = 1 * Cardinality(S) BY <1>1, FS_Product
<1>3. Cardinality(S) \in Nat BY FS_CardinalityType
<1> QED BY <1>2, <1>3

(* --------------------------- calls of threads -------------------------- *)

LEMMA CallShapes ==
    ASSUME CallsFit, NEW t \in Threads
    PROVE  /\ thread[t].at \in {"idle", "routed", "checked", "charged", "authorised", "paid"}
           /\ thread[t].at = "idle" => thread[t] = IdleCall
           /\ thread[t].at \in {"routed", "checked", "charged"} =>
                /\ thread[t].request \in DOMAIN Requests /\ thread[t].skill \in Skills
                /\ thread[t] = [at |-> thread[t].at, request |-> thread[t].request,
                                skill |-> thread[t].skill]
           /\ thread[t].at \in {"authorised", "paid"} =>
                /\ thread[t].activation \in activations
                /\ thread[t].cost.activations = 0 /\ thread[t].cost.models = 1
                /\ \E n : thread[t] = [at |-> thread[t].at, activation |-> thread[t].activation,
                                       cost |-> [activations |-> 0, tools |-> n, models |-> 1]]
<1>1. CASE thread[t] = IdleCall BY <1>1 DEF IdleCall
<1>2. CASE \E at \in {"routed", "checked", "charged"}, r \in DOMAIN Requests, s \in Skills :
              thread[t] = [at |-> at, request |-> r, skill |-> s]
  BY <1>2
<1>3. CASE \E at \in {"authorised", "paid"}, a \in activations : \E n :
              thread[t] = [at |-> at, activation |-> a,
                           cost |-> [activations |-> 0, tools |-> n, models |-> 1]]
  <2> PICK at \in {"authorised", "paid"}, a \in activations :
         \E n : thread[t] = [at |-> at, activation |-> a,
                            cost |-> [activations |-> 0, tools |-> n, models |-> 1]]
    BY <1>3
  <2>1. PICK n :
          thread[t] = [at |-> at, activation |-> a,
                       cost |-> [activations |-> 0, tools |-> n, models |-> 1]]
    OBVIOUS
  <2>2. /\ thread[t].at = at /\ thread[t].activation = a
        /\ thread[t].cost = [activations |-> 0, tools |-> n, models |-> 1]
    BY <2>1
  <2>3. thread[t].cost.activations = 0 /\ thread[t].cost.models = 1 BY <2>2
  <2>4. thread[t] = [at |-> thread[t].at, activation |-> thread[t].activation,
                     cost |-> [activations |-> 0, tools |-> n, models |-> 1]]
    BY <2>1, <2>2
  <2> QED BY <2>2, <2>3, <2>4
<1> QED BY <1>1, <1>2, <1>3 DEF CallsFit

\* What a call may hold.
Fitting(call, trees) ==
    \/ call = IdleCall
    \/ \E at \in {"routed", "checked", "charged"}, r \in DOMAIN Requests, s \in Skills :
          call = [at |-> at, request |-> r, skill |-> s]
    \/ \E at \in {"authorised", "paid"}, a \in trees : \E n :
          call = [at |-> at, activation |-> a,
                  cost |-> [activations |-> 0, tools |-> n, models |-> 1]]

LEMMA CallsGoOn ==
    ASSUME CallsFit, NEW t \in Threads, NEW new, thread' = [thread EXCEPT ![t] = new],
           activations \subseteq activations', Fitting(new, activations')
    PROVE  /\ CallsFit' /\ thread'[t] = new
           /\ \A other \in Threads \ {t} : thread'[other] = thread[other]
<1>1. /\ thread'[t] = new /\ \A other \in Threads \ {t} : thread'[other] = thread[other]
      /\ thread' = [other \in Threads |-> thread'[other]]
  BY DEF CallsFit
<1>2. ASSUME NEW other \in Threads PROVE Fitting(thread'[other], activations')
  <2>1. CASE other = t BY <1>1, <2>1
  <2>2. CASE other # t
    <3>1. Fitting(thread[other], activations) BY DEF CallsFit, Fitting
    <3>2. Fitting(thread[other], activations')
      <4>1. CASE thread[other] = IdleCall BY <4>1 DEF Fitting
      <4>2. CASE \E at \in {"routed", "checked", "charged"}, r \in DOMAIN Requests, s \in Skills :
                    thread[other] = [at |-> at, request |-> r, skill |-> s]
        BY <4>2 DEF Fitting
      <4>3. CASE \E at \in {"authorised", "paid"}, a \in activations : \E n :
                    thread[other] = [at |-> at, activation |-> a,
                                     cost |-> [activations |-> 0, tools |-> n, models |-> 1]]
        BY <4>3 DEF Fitting
      <4> QED BY <3>1, <4>1, <4>2, <4>3 DEF Fitting
    <3> QED BY <1>1, <2>2, <3>2
  <2> QED BY <2>1, <2>2
<1>3. CallsFit' BY <1>1, <1>2 DEF CallsFit, Fitting
<1> QED BY <1>1, <1>3

\* Only calls that are charged or paid count.
LEMMA NothingOwed ==
    ASSUME CallsFit, NEW t \in Threads, NEW new, thread' = [thread EXCEPT ![t] = new],
           activations' = activations, Fitting(new, activations),
           thread[t].at \notin {"charged", "paid"}, new.at \notin {"charged", "paid"}
    PROVE  CallsFit' /\ \A r : ToActivate(r)' = ToActivate(r) /\ ToFinish(r)' = ToFinish(r)
<1>1. /\ CallsFit' /\ thread'[t] = new
      /\ \A other \in Threads \ {t} : thread'[other] = thread[other]
  BY CallsGoOn
<1>2. ASSUME NEW r PROVE ToActivate(r)' = ToActivate(r)
  <2>1. ASSUME NEW p \in Threads \X Skills PROVE p \in ToActivate(r)' <=> p \in ToActivate(r)
    <3>1. CASE p[1] = t BY <1>1, <3>1 DEF ToActivate
    <3>2. CASE p[1] # t BY <1>1, <3>2 DEF ToActivate
    <3> QED BY <3>1, <3>2
  <2> QED BY <2>1 DEF ToActivate
<1>3. ASSUME NEW r PROVE ToFinish(r)' = ToFinish(r)
  <2>1. ASSUME NEW other \in Threads PROVE other \in ToFinish(r)' <=> other \in ToFinish(r)
    <3>1. CASE other = t BY <1>1, <3>1 DEF ToFinish
    <3>2. CASE other # t BY <1>1, <3>2 DEF ToFinish
    <3> QED BY <3>1, <3>2
  <2> QED BY <2>1 DEF ToFinish
<1> QED BY <1>1, <1>2, <1>3

(* -------------------------------- steps -------------------------------- *)

LEMMA SkillsStart == SkillInit => SkillInvariant
<1> SUFFICES ASSUME SkillInit PROVE SkillInvariant OBVIOUS
<1>1. IsFiniteSet({}) /\ Cardinality({}) = 0 BY FS_EmptySet
<1>2. CallsFit BY DEF SkillInit, CallsFit, IdleCall
<1>3. AuthorityNarrows /\ UsesStayWithinAuthority
  BY DEF SkillInit, AuthorityNarrows, UsesStayWithinAuthority
<1>4. TreesApart
  <2>1. Roots = {} BY DEF SkillInit, Roots
  <2> QED BY <1>1, <2>1 DEF SkillInit, TreesApart
<1>5. ASSUME NEW r \in DOMAIN Requests
      PROVE  /\ usage[r] = [kind \in DOMAIN Budget |-> 0]
             /\ Activated(r) = {} /\ Finished(r) = {} /\ ToActivate(r) = {} /\ ToFinish(r) = {}
  <2>1. usage[r] = [kind \in DOMAIN Budget |-> 0] BY DEF SkillInit
  <2>2. Activated(r) = {} /\ Finished(r) = {} BY DEF SkillInit, Activated, Finished
  <2>3. ToActivate(r) = {}
    <3>1. \A t \in Threads : thread[t].at # "charged" BY DEF SkillInit, IdleCall
    <3> QED BY <3>1 DEF ToActivate
  <2>4. ToFinish(r) = {} BY DEF SkillInit, IdleCall, ToFinish
  <2> QED BY <2>1, <2>2, <2>3, <2>4
<1>6. DOMAIN Budget = {"activations", "tools", "models"} BY SkillAssumption
<1>7. Covered({}, {}, 0) BY <1>1 DEF Covered
<1>8. ASSUME NEW r \in DOMAIN Requests
      PROVE  /\ usage[r] = [kind \in DOMAIN Budget |-> usage[r][kind]]
             /\ \A kind \in DOMAIN Budget : usage[r][kind] <= Budget[kind]
             /\ usage[r].activations = 0 /\ usage[r].models = 0
  BY <1>5, <1>6, SkillAssumption
<1>9. usage = [r \in DOMAIN Requests |-> usage[r]] BY DEF SkillInit
<1>10. UsageFits BY <1>5, <1>7, <1>8, <1>9 DEF UsageFits
<1> QED BY <1>2, <1>3, <1>4, <1>10 DEF SkillInvariant

\* A step that spends and builds nothing.
LEMMA SpendingRests ==
    ASSUME SkillInvariant, usage' = usage, activations' = activations, artifacts' = artifacts,
           handed' \subseteq activations, UsesStayWithinAuthority', CallsFit',
           \A r : ToActivate(r)' = ToActivate(r) /\ ToFinish(r)' = ToFinish(r)
    PROVE  SkillInvariant'
<1>1. AuthorityNarrows' BY DEF SkillInvariant, AuthorityNarrows
<1>2. Roots' = Roots BY DEF Roots
<1>3. TreesApart' BY <1>2 DEF SkillInvariant, TreesApart
<1>4. \A r : Activated(r)' = Activated(r) /\ Finished(r)' = Finished(r) BY DEF Activated, Finished
<1>5. UsageFits' BY <1>4 DEF SkillInvariant, UsageFits
<1> QED BY <1>1, <1>3, <1>5 DEF SkillInvariant

\* What is added by a request leaves the others' usage alone.
LEMMA SpendingTypes ==
    ASSUME UsageFits, NEW r \in DOMAIN Requests, NEW cost, Fits(r, cost), usage' = Spent(r, cost)
    PROVE  /\ usage' = [other \in DOMAIN Requests |-> usage'[other]]
           /\ usage'[r] = [kind \in DOMAIN Budget |-> usage[r][kind] + cost[kind]]
           /\ usage'[r].activations = usage[r].activations + cost.activations
           /\ usage'[r].models = usage[r].models + cost.models
           /\ \A other \in DOMAIN Requests \ {r} : usage'[other] = usage[other]
           /\ \A other \in DOMAIN Requests :
                 /\ usage'[other] = [kind \in DOMAIN Budget |-> usage'[other][kind]]
                 /\ \A kind \in DOMAIN Budget : usage'[other][kind] <= Budget[kind]
<1>1. /\ usage' = [other \in DOMAIN Requests |-> usage'[other]]
      /\ usage'[r] = [kind \in DOMAIN Budget |-> usage[r][kind] + cost[kind]]
      /\ \A other \in DOMAIN Requests \ {r} : usage'[other] = usage[other]
  BY DEF Spent, UsageFits
<1>2. DOMAIN Budget = {"activations", "tools", "models"} BY SkillAssumption
<1>3. /\ usage'[r].activations = usage[r].activations + cost.activations
      /\ usage'[r].models = usage[r].models + cost.models
  BY <1>1, <1>2
<1>4. ASSUME NEW other \in DOMAIN Requests
      PROVE  /\ usage'[other] = [kind \in DOMAIN Budget |-> usage'[other][kind]]
             /\ \A kind \in DOMAIN Budget : usage'[other][kind] <= Budget[kind]
  <2>1. CASE other = r
    <3>1. usage'[r] = [kind \in DOMAIN Budget |-> usage'[r][kind]] BY <1>1
    <3>2. ASSUME NEW kind \in DOMAIN Budget PROVE usage'[r][kind] <= Budget[kind]
      <4>1. usage'[r][kind] = usage[r][kind] + cost[kind] BY <1>1
      <4>2. usage[r][kind] + cost[kind] <= Budget[kind] BY DEF Fits
      <4> QED BY <4>1, <4>2
    <3> QED BY <2>1, <3>1, <3>2
  <2>2. CASE other # r BY <1>1, <2>2 DEF UsageFits
  <2> QED BY <2>1, <2>2
<1> QED BY <1>1, <1>3, <1>4

\* The closure of a skill is paid for before any of it is activated.
LEMMA ChargePays ==
    ASSUME SkillInvariant, NEW t \in Threads, Charge(t)
    PROVE  SkillInvariant'
<1> DEFINE r == thread[t].request
           skill == thread[t].skill
           cost == ActivationCost(skill)
<1>1. /\ CallsFit /\ UsageFits /\ thread[t].at = "checked"
      /\ UNCHANGED <<admin, activations, handed, uses, artifacts>>
  BY DEF Charge, SkillInvariant
<1>2. /\ r \in DOMAIN Requests /\ skill \in Skills
      /\ thread[t] = [at |-> "checked", request |-> r, skill |-> skill]
  BY <1>1, CallShapes
<1>3. UsesStayWithinAuthority' BY <1>1 DEF SkillInvariant, UsesStayWithinAuthority
<1>4. handed' \subseteq activations BY <1>1 DEF SkillInvariant, AuthorityNarrows
<1>5. CASE ~Fits(r, cost)
  <2>1. usage' = usage /\ thread' = [thread EXCEPT ![t] = IdleCall]
    BY <1>5 DEF Charge, Moves
  <2>2. Fitting(IdleCall, activations) /\ IdleCall.at = "idle" BY DEF Fitting, IdleCall
  <2>3. CallsFit' /\ \A q : ToActivate(q)' = ToActivate(q) /\ ToFinish(q)' = ToFinish(q)
    BY <1>1, <2>1, <2>2, NothingOwed
  <2> QED BY <1>1, <1>3, <1>4, <2>1, <2>3, SpendingRests
<1>6. CASE Fits(r, cost)
  <2> DEFINE charged == [at |-> "charged", request |-> r, skill |-> skill]
  <2>1. usage' = Spent(r, cost) /\ thread' = [thread EXCEPT ![t] = charged]
    <3>1. /\ usage' = Spent(r, cost)
          /\ thread' = [thread EXCEPT ![t] = [thread[t] EXCEPT !.at = "charged"]]
      BY <1>6 DEF Charge, Moves
    <3>2. [thread[t] EXCEPT !.at = "charged"] = charged BY <1>2
    <3> QED BY <3>1, <3>2
  <2>2. Fitting(charged, activations') BY <1>2 DEF Fitting
  <2>3. /\ CallsFit' /\ thread'[t] = charged
        /\ \A other \in Threads \ {t} : thread'[other] = thread[other]
    BY <1>1, <2>1, <2>2, CallsGoOn
  <2>4. ASSUME NEW q
        PROVE  /\ Activated(q)' = Activated(q) /\ Finished(q)' = Finished(q)
               /\ ToFinish(q)' = ToFinish(q)
               /\ ToActivate(q)' = IF q = r THEN ToActivate(q) \cup ({t} \X Closure[skill])
                                   ELSE ToActivate(q)
    <3>1. Activated(q)' = Activated(q) /\ Finished(q)' = Finished(q)
      BY <1>1 DEF Activated, Finished
    <3>2. ASSUME NEW other \in Threads PROVE other \in ToFinish(q)' <=> other \in ToFinish(q)
      <4>1. CASE other = t BY <1>1, <2>3, <4>1 DEF ToFinish
      <4>2. CASE other # t BY <2>3, <4>2 DEF ToFinish
      <4> QED BY <4>1, <4>2
    <3>3. ToFinish(q)' = ToFinish(q) BY <3>2 DEF ToFinish
    <3>4. Closure[skill] \subseteq Skills BY <1>2, ClosureFinite
    <3>5. ASSUME NEW other \in Threads, NEW s \in Skills
          PROVE  <<other, s>> \in ToActivate(q)'
                   <=> \/ <<other, s>> \in ToActivate(q)
                       \/ q = r /\ other = t /\ s \in Closure[skill]
      <4>1. CASE other = t BY <1>1, <2>3, <4>1 DEF ToActivate
      <4>2. CASE other # t BY <2>3, <4>2 DEF ToActivate
      <4> QED BY <4>1, <4>2
    <3>6. ToActivate(q) \subseteq Threads \X Skills /\ ToActivate(q)' \subseteq Threads \X Skills
      BY DEF ToActivate
    <3>7. ToActivate(q)' = IF q = r THEN ToActivate(q) \cup ({t} \X Closure[skill])
                           ELSE ToActivate(q)
      BY <3>4, <3>5, <3>6
    <3> QED BY <3>1, <3>3, <3>7
  <2>5. /\ IsFiniteSet({t} \X Closure[skill])
        /\ Cardinality({t} \X Closure[skill]) = Cardinality(Closure[skill])
    BY <1>2, ClosureFinite, Tagged
  <2>6. cost.activations = Cardinality(Closure[skill]) /\ cost.models = 0
    BY DEF ActivationCost
  <2> HIDE DEF cost, charged
  <2>7. UsageFits'
    <3>1. /\ usage' = [other \in DOMAIN Requests |-> usage'[other]]
          /\ usage'[r].activations = usage[r].activations + cost.activations
          /\ usage'[r].models = usage[r].models + cost.models
          /\ \A other \in DOMAIN Requests \ {r} : usage'[other] = usage[other]
          /\ \A other \in DOMAIN Requests :
                /\ usage'[other] = [kind \in DOMAIN Budget |-> usage'[other][kind]]
                /\ \A kind \in DOMAIN Budget : usage'[other][kind] <= Budget[kind]
      BY <1>1, <1>2, <1>6, <2>1, SpendingTypes
    <3>2. ASSUME NEW q \in DOMAIN Requests
          PROVE  /\ Covered(Activated(q)', ToActivate(q)', usage'[q].activations)
                 /\ Covered(Finished(q)', ToFinish(q)', usage'[q].models)
      <4>1. /\ Covered(Activated(q), ToActivate(q), usage[q].activations)
            /\ Covered(Finished(q), ToFinish(q), usage[q].models)
        BY <1>1 DEF UsageFits
      <4>2. CASE q = r
        <5>1. Covered(Activated(q), ToActivate(q) \cup ({t} \X Closure[skill]),
                      usage[q].activations + Cardinality({t} \X Closure[skill]))
          BY <2>5, <4>1, CoveringMore
        <5>2. usage'[q].models = usage[q].models
          <6>1. usage[q].models \in Nat BY <4>1 DEF Covered
          <6> QED BY <2>6, <3>1, <4>2, <6>1
        <5>3. usage'[q].activations = usage[q].activations + Cardinality({t} \X Closure[skill])
          BY <2>5, <2>6, <3>1, <4>2
        <5>4. ToActivate(q)' = ToActivate(q) \cup ({t} \X Closure[skill]) BY <2>4, <4>2
        <5> QED BY <2>4, <4>1, <5>1, <5>2, <5>3, <5>4
      <4>3. CASE q # r BY <2>4, <3>1, <4>1, <4>3
      <4> QED BY <4>2, <4>3
    <3> QED BY <3>1, <3>2 DEF UsageFits
  <2>8. AuthorityNarrows' /\ TreesApart'
    <3>1. Roots' = Roots BY <1>1 DEF Roots
    <3> QED BY <1>1, <3>1 DEF SkillInvariant, AuthorityNarrows, TreesApart
  <2> QED BY <1>3, <2>3, <2>7, <2>8 DEF SkillInvariant
<1> QED BY <1>5, <1>6

\* An execution is paid for before it completes.
LEMMA ConsumePays ==
    ASSUME SkillInvariant, NEW t \in Threads, Consume(t)
    PROVE  SkillInvariant'
<1> DEFINE a == thread[t].activation
           r == a.request
           cost == thread[t].cost
<1>1. /\ CallsFit /\ UsageFits /\ thread[t].at = "authorised"
      /\ UNCHANGED <<admin, activations, handed, uses, artifacts>>
      /\ \A x \in activations : x.request \in DOMAIN Requests
  BY DEF Consume, SkillInvariant, TreesApart
<1>2. /\ a \in activations /\ cost.activations = 0 /\ cost.models = 1
      /\ \E n : thread[t] = [at |-> "authorised", activation |-> a,
                            cost |-> [activations |-> 0, tools |-> n, models |-> 1]]
  BY <1>1, CallShapes
<1>3. r \in DOMAIN Requests BY <1>1, <1>2
<1>4. UsesStayWithinAuthority' BY <1>1 DEF SkillInvariant, UsesStayWithinAuthority
<1>5. handed' \subseteq activations BY <1>1 DEF SkillInvariant, AuthorityNarrows
<1>6. CASE ~Fits(r, cost)
  <2>1. usage' = usage /\ thread' = [thread EXCEPT ![t] = IdleCall]
    BY <1>6 DEF Consume, Moves
  <2>2. Fitting(IdleCall, activations) /\ IdleCall.at = "idle" BY DEF Fitting, IdleCall
  <2>3. CallsFit' /\ \A q : ToActivate(q)' = ToActivate(q) /\ ToFinish(q)' = ToFinish(q)
    BY <1>1, <2>1, <2>2, NothingOwed
  <2> QED BY <1>1, <1>4, <1>5, <2>1, <2>3, SpendingRests
<1>7. CASE Fits(r, cost)
  <2>1. PICK n : thread[t] = [at |-> "authorised", activation |-> a,
                              cost |-> [activations |-> 0, tools |-> n, models |-> 1]]
    BY <1>2
  <2> DEFINE paid == [at |-> "paid", activation |-> a,
                      cost |-> [activations |-> 0, tools |-> n, models |-> 1]]
  <2>2. usage' = Spent(r, cost) /\ thread' = [thread EXCEPT ![t] = paid]
    <3>1. /\ usage' = Spent(r, cost)
          /\ thread' = [thread EXCEPT ![t] = [thread[t] EXCEPT !.at = "paid"]]
      BY <1>7 DEF Consume, Moves
    <3>2. [thread[t] EXCEPT !.at = "paid"] = paid BY <2>1
    <3> QED BY <3>1, <3>2
  <2>3. Fitting(paid, activations') BY <1>1, <1>2 DEF Fitting
  <2>4. /\ CallsFit' /\ thread'[t] = paid
        /\ \A other \in Threads \ {t} : thread'[other] = thread[other]
    BY <1>1, <2>2, <2>3, CallsGoOn
  <2>5. ASSUME NEW q
        PROVE  /\ Activated(q)' = Activated(q) /\ Finished(q)' = Finished(q)
               /\ ToActivate(q)' = ToActivate(q)
               /\ ToFinish(q)' = IF q = r THEN ToFinish(q) \cup {t} ELSE ToFinish(q)
    <3>1. Activated(q)' = Activated(q) /\ Finished(q)' = Finished(q)
      BY <1>1 DEF Activated, Finished
    <3>2. ASSUME NEW other \in Threads
          PROVE  other \in ToFinish(q)' <=> other \in ToFinish(q) \/ (q = r /\ other = t)
      <4>1. CASE other = t BY <1>1, <2>4, <4>1 DEF ToFinish
      <4>2. CASE other # t BY <2>4, <4>2 DEF ToFinish
      <4> QED BY <4>1, <4>2
    <3>3. ToFinish(q) \subseteq Threads /\ ToFinish(q)' \subseteq Threads BY DEF ToFinish
    <3>4. ToFinish(q)' = IF q = r THEN ToFinish(q) \cup {t} ELSE ToFinish(q) BY <3>2, <3>3
    <3>5. ASSUME NEW other \in Threads, NEW s \in Skills
          PROVE  <<other, s>> \in ToActivate(q)' <=> <<other, s>> \in ToActivate(q)
      <4>1. CASE other = t BY <1>1, <2>4, <4>1 DEF ToActivate
      <4>2. CASE other # t BY <2>4, <4>2 DEF ToActivate
      <4> QED BY <4>1, <4>2
    <3>6. ToActivate(q) \subseteq Threads \X Skills /\ ToActivate(q)' \subseteq Threads \X Skills
      BY DEF ToActivate
    <3>7. ToActivate(q)' = ToActivate(q) BY <3>5, <3>6
    <3> QED BY <3>1, <3>4, <3>7
  <2>6. IsFiniteSet({t}) /\ Cardinality({t}) = 1 BY FS_Singleton
  <2> HIDE DEF cost, paid
  <2>7. UsageFits'
    <3>1. /\ usage' = [other \in DOMAIN Requests |-> usage'[other]]
          /\ usage'[r].activations = usage[r].activations + cost.activations
          /\ usage'[r].models = usage[r].models + cost.models
          /\ \A other \in DOMAIN Requests \ {r} : usage'[other] = usage[other]
          /\ \A other \in DOMAIN Requests :
                /\ usage'[other] = [kind \in DOMAIN Budget |-> usage'[other][kind]]
                /\ \A kind \in DOMAIN Budget : usage'[other][kind] <= Budget[kind]
      BY <1>1, <1>3, <1>7, <2>2, SpendingTypes
    <3>2. ASSUME NEW q \in DOMAIN Requests
          PROVE  /\ Covered(Activated(q)', ToActivate(q)', usage'[q].activations)
                 /\ Covered(Finished(q)', ToFinish(q)', usage'[q].models)
      <4>1. /\ Covered(Activated(q), ToActivate(q), usage[q].activations)
            /\ Covered(Finished(q), ToFinish(q), usage[q].models)
        BY <1>1 DEF UsageFits
      <4>2. CASE q = r
        <5>1. Covered(Finished(q), ToFinish(q) \cup {t}, usage[q].models + Cardinality({t}))
          BY <2>6, <4>1, CoveringMore
        <5>2. usage'[q].activations = usage[q].activations
          <6>1. usage[q].activations \in Nat BY <4>1 DEF Covered
          <6> QED BY <1>2, <3>1, <4>2, <6>1
        <5>3. usage'[q].models = usage[q].models + Cardinality({t})
          BY <1>2, <2>6, <3>1, <4>2
        <5>4. ToFinish(q)' = ToFinish(q) \cup {t} BY <2>5, <4>2
        <5> QED BY <2>5, <4>1, <5>1, <5>2, <5>3, <5>4
      <4>3. CASE q # r BY <2>5, <3>1, <4>1, <4>3
      <4> QED BY <4>2, <4>3
    <3> QED BY <3>1, <3>2 DEF UsageFits
  <2>8. AuthorityNarrows' /\ TreesApart'
    <3>1. Roots' = Roots BY <1>1 DEF Roots
    <3> QED BY <1>1, <3>1 DEF SkillInvariant, AuthorityNarrows, TreesApart
  <2> QED BY <1>4, <2>4, <2>7, <2>8 DEF SkillInvariant
<1> QED BY <1>6, <1>7

\* A call that ends, charged or paid, owes nothing more.
LEMMA CallEnds ==
    ASSUME CallsFit, NEW t \in Threads, thread' = [thread EXCEPT ![t] = IdleCall],
           activations \subseteq activations'
    PROVE  /\ CallsFit'
           /\ \A q : /\ ToActivate(q)' = ToActivate(q) \ ({t} \X Skills)
                     /\ ToFinish(q)' = ToFinish(q) \ {t}
<1>1. Fitting(IdleCall, activations') /\ IdleCall.at = "idle" BY DEF Fitting, IdleCall
<1>2. /\ CallsFit' /\ thread'[t] = IdleCall
      /\ \A other \in Threads \ {t} : thread'[other] = thread[other]
  BY <1>1, CallsGoOn
<1>3. ASSUME NEW q PROVE ToFinish(q)' = ToFinish(q) \ {t}
  <2>1. ASSUME NEW other \in Threads
        PROVE  other \in ToFinish(q)' <=> other \in ToFinish(q) /\ other # t
    <3>1. CASE other = t BY <1>1, <1>2, <3>1 DEF ToFinish
    <3>2. CASE other # t BY <1>2, <3>2 DEF ToFinish
    <3> QED BY <3>1, <3>2
  <2>2. ToFinish(q) \subseteq Threads /\ ToFinish(q)' \subseteq Threads BY DEF ToFinish
  <2> QED BY <2>1, <2>2
<1>4. ASSUME NEW q PROVE ToActivate(q)' = ToActivate(q) \ ({t} \X Skills)
  <2>1. ASSUME NEW other \in Threads, NEW s \in Skills
        PROVE  <<other, s>> \in ToActivate(q)' <=> <<other, s>> \in ToActivate(q) /\ other # t
    <3>1. CASE other = t BY <1>1, <1>2, <3>1 DEF ToActivate
    <3>2. CASE other # t BY <1>2, <3>2 DEF ToActivate
    <3> QED BY <3>1, <3>2
  <2>2. ToActivate(q) \subseteq Threads \X Skills /\ ToActivate(q)' \subseteq Threads \X Skills
    BY DEF ToActivate
  <2> QED BY <2>1, <2>2
<1> QED BY <1>2, <1>3, <1>4

\* A valid output is the artifact of a tree, whose request has paid.
LEMMA CompletePays ==
    ASSUME SkillInvariant, NEW t \in Threads, NEW valid, Complete(t, valid)
    PROVE  SkillInvariant'
<1> DEFINE a == thread[t].activation
           r == a.request
<1>1. /\ CallsFit /\ UsageFits /\ TreesApart /\ thread[t].at = "paid"
      /\ UNCHANGED <<admin, usage, activations, handed, uses>>
      /\ artifacts' \in {artifacts, artifacts \cup {a.root}}
      /\ thread' = [thread EXCEPT ![t] = IdleCall]
  BY DEF Complete, SkillInvariant, Moves
<1>2. a \in activations BY <1>1, CallShapes
<1>3. UsesStayWithinAuthority' BY <1>1 DEF SkillInvariant, UsesStayWithinAuthority
<1>4. AuthorityNarrows' BY <1>1 DEF SkillInvariant, AuthorityNarrows
<1>5. Roots' = Roots /\ a.root \in Roots BY <1>1, <1>2 DEF Roots
<1>6. TreesApart' BY <1>1, <1>5 DEF TreesApart
<1>7. CallsFit' /\ \A q : /\ ToActivate(q)' = ToActivate(q) \ ({t} \X Skills)
                          /\ ToFinish(q)' = ToFinish(q) \ {t}
  BY <1>1, CallEnds
<1>8. ASSUME NEW q \in DOMAIN Requests
      PROVE  /\ Covered(Activated(q)', ToActivate(q)', usage'[q].activations)
             /\ Covered(Finished(q)', ToFinish(q)', usage'[q].models)
  <2>1. /\ Covered(Activated(q), ToActivate(q), usage[q].activations)
        /\ Covered(Finished(q), ToFinish(q), usage[q].models)
    BY <1>1 DEF UsageFits
  <2>2. Activated(q)' = Activated(q) BY <1>1 DEF Activated
  <2>3. Covered(Activated(q)', ToActivate(q)', usage'[q].activations)
    BY <1>1, <1>7, <2>1, <2>2, CoveringRest
  <2>4. CASE q # r \/ artifacts' = artifacts
    <3>1. Finished(q)' = Finished(q)
      <4>1. CASE artifacts' = artifacts BY <1>1, <4>1 DEF Finished
      <4>2. CASE q # r
        <5>1. \A x \in activations : x.request = q => x.root # a.root BY <1>1, <1>2, <4>2 DEF TreesApart
        <5>2. \A x \in activations : x.request = q => (x.root \in artifacts' <=> x.root \in artifacts)
          BY <1>1, <5>1
        <5> QED BY <1>1, <5>2 DEF Finished
      <4> QED BY <2>4, <4>1, <4>2
    <3> QED BY <1>1, <1>7, <2>1, <2>3, <3>1, CoveringRest
  <2>5. CASE q = r /\ artifacts' = artifacts \cup {a.root}
    <3>1. Finished(q)' = Finished(q) \cup {a.root} BY <1>1, <1>2, <2>5 DEF Finished
    <3>2. t \in ToFinish(q) BY <1>1, <2>5 DEF ToFinish
    <3>3. IsFiniteSet({t}) /\ IsFiniteSet({a.root}) /\ Cardinality({t}) = 1 /\ Cardinality({a.root}) = 1
      BY FS_Singleton
    <3>4. {t} \subseteq ToFinish(q) /\ Cardinality({a.root}) <= Cardinality({t}) BY <3>2, <3>3
    <3>5. Covered(Finished(q) \cup {a.root}, ToFinish(q) \ {t}, usage[q].models)
      BY <2>1, <3>3, <3>4, CoveringHad
    <3> QED BY <1>1, <1>7, <2>3, <3>1, <3>5
  <2> QED BY <1>1, <2>4, <2>5
<1>9. UsageFits' BY <1>1, <1>8 DEF UsageFits
<1> QED BY <1>3, <1>4, <1>6, <1>7, <1>9 DEF SkillInvariant

\* A node has what it asks for, of what every skill above it asks for.
LEMMA NodeIs ==
    ASSUME NEW n, NEW skill \in Skills, NEW r, NEW node \in Tree(n, skill, r)
    PROVE  /\ node.root = n /\ node.request = r /\ node.caps \subseteq Permissions
           /\ \A i \in DOMAIN node.path : node.caps \subseteq Request(node.path[i])
           /\ node.path \in Chains[skill]
<1>1. PICK chain \in Chains[skill] : node = Node(n, chain, r) BY DEF Tree
<1>2. PICK k \in 1 .. MaxDepth : chain \in [1 .. k -> Skills] BY DEF Chains
<1>3. k \in Nat BY <1>2 DEF MaxDepth
<1>4. Len(chain) = k /\ DOMAIN chain = 1 .. k BY <1>2, <1>3, SeqDef, LenProperties
<1>5. node.root = n /\ node.request = r /\ node.path = chain /\ node.caps = Authority(chain)
  BY <1>1 DEF Node
<1> QED BY <1>4, <1>5 DEF Authority, Available

\* A tree that is built takes the place of what was paid for it; one that is not is lost.
LEMMA BuildPays ==
    ASSUME SkillInvariant, NEW t \in Threads, Build(t)
    PROVE  SkillInvariant'
<1> DEFINE r == thread[t].request
           skill == thread[t].skill
           n == Cardinality(Roots) + 1
           new == Tree(n, skill, r)
<1>1. /\ CallsFit /\ UsageFits /\ TreesApart /\ thread[t].at = "charged"
      /\ UNCHANGED <<admin, usage, uses, artifacts>>
      /\ thread' = [thread EXCEPT ![t] = IdleCall]
      /\ \/ activations' = activations \cup new /\ handed' = handed \cup {x \in new : Len(x.path) = 1}
         \/ activations' = activations /\ handed' = handed
  BY DEF Build, SkillInvariant, Moves
<1>2. r \in DOMAIN Requests /\ skill \in Skills BY <1>1, CallShapes
<1>3. UsesStayWithinAuthority' BY <1>1 DEF SkillInvariant, UsesStayWithinAuthority
<1>4. CallsFit' /\ \A q : /\ ToActivate(q)' = ToActivate(q) \ ({t} \X Skills)
                          /\ ToFinish(q)' = ToFinish(q) \ {t}
  BY <1>1, CallEnds
<1>5. IsFiniteSet(Roots) /\ Cardinality(Roots) \in Nat /\ n \in Nat /\ n \notin Roots /\ n \notin artifacts
  <2>1. IsFiniteSet(Roots) /\ Cardinality(Roots) \in Nat BY <1>1, FS_CardinalityType DEF TreesApart
  <2>2. n \notin Roots BY <1>1, <2>1 DEF TreesApart
  <2> QED BY <1>1, <2>1, <2>2 DEF TreesApart
<1>6. \A x \in new :
        /\ x.root = n /\ x.request = r /\ x.caps \subseteq Permissions
        /\ \A i \in DOMAIN x.path : x.caps \subseteq Request(x.path[i])
        /\ x.path \in Chains[skill]
  BY <1>2, NodeIs
<1>7. {Last(x.path) : x \in new} = Closure[skill]
  <2>1. Closure[skill] = {Last(c) : c \in Chains[skill]} BY <1>2, ClosureFinite
  <2>2. \A c \in Chains[skill] : Node(n, c, r) \in new /\ Node(n, c, r).path = c BY DEF Tree, Node
  <2> HIDE DEF new
  <2> QED BY <1>6, <2>1, <2>2
<1> HIDE DEF new, n
<1>8. CASE activations' = activations /\ handed' = handed
  <2>1. AuthorityNarrows' BY <1>8 DEF SkillInvariant, AuthorityNarrows
  <2>2. Roots' = Roots BY <1>8 DEF Roots
  <2>3. TreesApart' BY <1>1, <1>8, <2>2 DEF TreesApart
  <2>4. ASSUME NEW q \in DOMAIN Requests
        PROVE  /\ Covered(Activated(q)', ToActivate(q)', usage'[q].activations)
               /\ Covered(Finished(q)', ToFinish(q)', usage'[q].models)
    <3>1. /\ Covered(Activated(q), ToActivate(q), usage[q].activations)
          /\ Covered(Finished(q), ToFinish(q), usage[q].models)
      BY <1>1 DEF UsageFits
    <3>2. Activated(q)' = Activated(q) /\ Finished(q)' = Finished(q)
      BY <1>1, <1>8 DEF Activated, Finished
    <3> QED BY <1>1, <1>4, <3>1, <3>2, CoveringRest
  <2>5. UsageFits' BY <1>1, <2>4 DEF UsageFits
  <2> QED BY <1>3, <1>4, <2>1, <2>3, <2>5 DEF SkillInvariant
<1>9. CASE /\ activations' = activations \cup new
           /\ handed' = handed \cup {x \in new : Len(x.path) = 1}
  <2>1. AuthorityNarrows' BY <1>6, <1>9 DEF SkillInvariant, AuthorityNarrows
  <2>2. TreesApart'
    <3>1. IsFiniteSet(Roots') /\ \A m \in Roots' : m \in Nat /\ m <= Cardinality(Roots')
      <4>1. CASE new = {}
        <5>1. Roots' = Roots BY <1>9, <4>1 DEF Roots
        <5> QED BY <1>1, <5>1 DEF TreesApart
      <4>2. CASE new # {}
        <5>1. Roots' = Roots \cup {n} BY <1>6, <1>9, <4>2 DEF Roots
        <5>2. IsFiniteSet(Roots') /\ Cardinality(Roots') = Cardinality(Roots) + 1
          BY <1>5, <5>1, FS_AddElement
        <5>3. n = Cardinality(Roots) + 1 BY DEF n
        <5>4. ASSUME NEW m \in Roots' PROVE m \in Nat /\ m <= Cardinality(Roots')
          <6>1. CASE m \in Roots
            <7>1. m \in Nat /\ m <= Cardinality(Roots) BY <1>1, <6>1 DEF TreesApart
            <7> QED BY <1>5, <5>2, <7>1
          <6>2. CASE m \notin Roots BY <1>5, <5>1, <5>2, <5>3, <5>4, <6>2
          <6> QED BY <6>1, <6>2
        <5> QED BY <5>2, <5>4
      <4> QED BY <4>1, <4>2
    <3>2. artifacts' \subseteq Roots' BY <1>1, <1>9 DEF TreesApart, Roots
    <3>3. \A x \in activations' : x.request \in DOMAIN Requests BY <1>1, <1>2, <1>6, <1>9 DEF TreesApart
    <3>4. \A x, y \in activations' : x.root = y.root => x.request = y.request
      <4>1. \A x \in activations : x.root # n BY <1>5 DEF Roots
      <4> QED BY <1>1, <1>6, <1>9, <4>1 DEF TreesApart
    <3> QED BY <3>1, <3>2, <3>3, <3>4 DEF TreesApart
  <2>3. ASSUME NEW q \in DOMAIN Requests
        PROVE  /\ Covered(Activated(q)', ToActivate(q)', usage'[q].activations)
               /\ Covered(Finished(q)', ToFinish(q)', usage'[q].models)
    <3>1. /\ Covered(Activated(q), ToActivate(q), usage[q].activations)
          /\ Covered(Finished(q), ToFinish(q), usage[q].models)
      BY <1>1 DEF UsageFits
    <3>2. Finished(q)' = Finished(q)
      <4>1. \A x \in new : x.root \notin artifacts BY <1>5, <1>6
      <4> QED BY <1>1, <1>9, <4>1 DEF Finished
    <3>3. CASE q # r
      <4>1. Activated(q)' = Activated(q) BY <1>6, <1>9, <3>3 DEF Activated
      <4> QED BY <1>1, <1>4, <3>1, <3>2, <4>1, CoveringRest
    <3>4. CASE q = r
      <4>1. Activated(q)' = Activated(q) \cup ({n} \X Closure[skill])
        <5>1. Activated(q)' = Activated(q) \cup {<<x.root, Last(x.path)>> : x \in new}
          BY <1>6, <1>9, <3>4 DEF Activated
        <5>2. {<<x.root, Last(x.path)>> : x \in new} = {n} \X Closure[skill] BY <1>6, <1>7
        <5> QED BY <5>1, <5>2
      <4>2. Closure[skill] \subseteq Skills /\ IsFiniteSet(Closure[skill]) BY <1>2, ClosureFinite
      <4>3. {t} \X Closure[skill] \subseteq ToActivate(q) BY <1>1, <3>4, <4>2 DEF ToActivate
      <4>4. ToActivate(q)' = ToActivate(q) \ ({t} \X Closure[skill])
        <5>1. \A s \in Skills : <<t, s>> \in ToActivate(q) => s \in Closure[skill] BY DEF ToActivate
        <5>2. ToActivate(q) \subseteq Threads \X Skills BY DEF ToActivate
        <5> QED BY <1>4, <4>2, <5>1, <5>2
      <4>5. /\ IsFiniteSet({n} \X Closure[skill])
            /\ Cardinality({n} \X Closure[skill]) = Cardinality(Closure[skill])
            /\ Cardinality({t} \X Closure[skill]) = Cardinality(Closure[skill])
        BY <4>2, Tagged
      <4>6. Cardinality(Closure[skill]) \in Nat BY <4>2, FS_CardinalityType
      <4>7. Cardinality({n} \X Closure[skill]) <= Cardinality({t} \X Closure[skill]) BY <4>5, <4>6
      <4>8. Covered(Activated(q) \cup ({n} \X Closure[skill]),
                    ToActivate(q) \ ({t} \X Closure[skill]), usage[q].activations)
        BY <3>1, <4>3, <4>5, <4>7, CoveringHad
      <4> QED BY <1>1, <1>4, <3>1, <3>2, <4>1, <4>4, <4>8, CoveringRest
    <3> QED BY <3>3, <3>4
  <2>4. UsageFits' BY <1>1, <2>3 DEF UsageFits
  <2> QED BY <1>3, <1>4, <2>1, <2>2, <2>4 DEF SkillInvariant
<1> QED BY <1>1, <1>8, <1>9

\* What is used is within the authority of the activation, now and since it was built.
LEMMA UsesAllowed ==
    ASSUME AuthorityNarrows, UsesStayWithinAuthority, NEW a \in handed, NEW some,
           \A c \in some : MayUse(a, c), uses' = uses \cup {<<a, c>> : c \in some}
    PROVE  UsesStayWithinAuthority'
<1>1. a \in activations BY DEF AuthorityNarrows
<1>2. ASSUME NEW c \in some
      PROVE  /\ c \in Permissions /\ \A i \in DOMAIN a.path : c \in Request(a.path[i])
             /\ Catalog[Last(a.path)].readOnly => c \in ReadOnly
  <2>1. c \in a.caps /\ (Catalog[Last(a.path)].readOnly => c \in ReadOnly) BY DEF MayUse, Effective
  <2> QED BY <1>1, <2>1 DEF AuthorityNarrows
<1>3. ASSUME NEW u \in uses'
      PROVE  /\ u[2] \in Permissions
             /\ \A i \in DOMAIN u[1].path : u[2] \in Request(u[1].path[i])
             /\ Catalog[Last(u[1].path)].readOnly => u[2] \in ReadOnly
  <2>1. CASE u \in uses BY <2>1 DEF UsesStayWithinAuthority
  <2>2. CASE u \notin uses
    <3>1. PICK c \in some : u = <<a, c>> BY <2>2
    <3>2. u[1] = a /\ u[2] = c BY <3>1
    <3> QED BY <1>2, <3>1, <3>2
  <2> QED BY <2>1, <2>2
<1> QED BY <1>3 DEF UsesStayWithinAuthority

LEMMA QuietCalls ==
    ASSUME SkillInvariant, NEW t \in Threads,
           \/ \E r \in DOMAIN Requests, s \in Skills : Route(t, r, s)
           \/ Check(t)
           \/ \E a \in handed : Authorize(t, a)
    PROVE  SkillInvariant'
<1>1. CallsFit /\ AuthorityNarrows /\ UsesStayWithinAuthority BY DEF SkillInvariant
<1>2. ASSUME NEW new, thread' = [thread EXCEPT ![t] = new], Fitting(new, activations),
             thread[t].at \notin {"charged", "paid"}, new.at \notin {"charged", "paid"},
             UNCHANGED <<admin, usage, activations, handed, artifacts>>,
             UsesStayWithinAuthority'
      PROVE  SkillInvariant'
  <2>1. CallsFit' /\ \A q : ToActivate(q)' = ToActivate(q) /\ ToFinish(q)' = ToFinish(q)
    BY <1>1, <1>2, NothingOwed
  <2>2. handed' \subseteq activations BY <1>1, <1>2 DEF AuthorityNarrows
  <2> QED BY <1>2, <2>1, <2>2, SpendingRests
<1>3. ASSUME uses' = uses PROVE UsesStayWithinAuthority' BY <1>1, <1>3 DEF UsesStayWithinAuthority
<1>4. ASSUME NEW r \in DOMAIN Requests, NEW s \in Skills, Route(t, r, s) PROVE SkillInvariant'
  <2> DEFINE routed == [at |-> "routed", request |-> r, skill |-> s]
  <2>1. /\ thread' = [thread EXCEPT ![t] = routed] /\ thread[t] = IdleCall
        /\ UNCHANGED <<admin, usage, activations, handed, artifacts, uses>>
    BY <1>4 DEF Route, Moves
  <2>2. Fitting(routed, activations) /\ routed.at = "routed" BY DEF Fitting
  <2>3. thread[t].at = "idle" BY <2>1 DEF IdleCall
  <2> HIDE DEF routed
  <2> QED BY <1>2, <1>3, <2>1, <2>2, <2>3
<1>5. ASSUME Check(t) PROVE SkillInvariant'
  <2>1. thread[t].at = "routed" BY <1>5 DEF Check
  <2>2. /\ thread[t].request \in DOMAIN Requests /\ thread[t].skill \in Skills
        /\ thread[t] = [at |-> "routed", request |-> thread[t].request, skill |-> thread[t].skill]
    BY <1>1, <2>1, CallShapes
  <2>3. PICK new : /\ thread' = [thread EXCEPT ![t] = new]
                   /\ new \in {IdleCall, [thread[t] EXCEPT !.at = "checked"]}
    BY <1>5 DEF Check, Moves
  <2>4. Fitting(new, activations) /\ new.at \in {"idle", "checked"}
    <3>1. CASE new = IdleCall BY <3>1 DEF Fitting, IdleCall
    <3>2. CASE new = [thread[t] EXCEPT !.at = "checked"]
      <4>1. new = [at |-> "checked", request |-> thread[t].request, skill |-> thread[t].skill]
        BY <2>2, <3>2
      <4> QED BY <2>2, <4>1 DEF Fitting
    <3> QED BY <2>3, <3>1, <3>2
  <2>5. UNCHANGED <<admin, usage, activations, handed, artifacts, uses>> BY <1>5 DEF Check
  <2> QED BY <1>2, <1>3, <2>1, <2>3, <2>4, <2>5
<1>6. ASSUME NEW a \in handed, Authorize(t, a) PROVE SkillInvariant'
  <2> DEFINE authorised == [at |-> "authorised", activation |-> a, cost |-> ExecutionCost(a)]
  <2>1. /\ thread' = [thread EXCEPT ![t] = authorised] /\ thread[t] = IdleCall
        /\ UNCHANGED <<admin, usage, activations, handed, artifacts>>
        /\ uses' = uses \cup {<<a, c>> : c \in Tools(a)} /\ \A c \in Tools(a) : MayUse(a, c)
    BY <1>6 DEF Authorize, Moves
  <2>2. Fitting(authorised, activations) /\ authorised.at = "authorised"
    <3>1. a \in activations BY <1>1 DEF AuthorityNarrows
    <3>2. PICK n : n = Cardinality(Tools(a)) OBVIOUS
    <3>3. authorised = [at |-> "authorised", activation |-> a,
                        cost |-> [activations |-> 0, tools |-> n, models |-> 1]]
      BY <3>2 DEF ExecutionCost
    <3> HIDE DEF authorised
    <3> QED BY <3>1, <3>3 DEF Fitting
  <2>3. thread[t].at = "idle" BY <2>1 DEF IdleCall
  <2>4. UsesStayWithinAuthority' BY <1>1, <2>1, UsesAllowed
  <2> HIDE DEF authorised
  <2> QED BY <1>2, <2>1, <2>2, <2>3, <2>4
<1> QED BY <1>4, <1>5, <1>6

\* Whoever holds activations, and whoever administers, spends nothing.
LEMMA OthersGoOn ==
    ASSUME SkillInvariant, UNCHANGED <<usage, activations, artifacts, thread>>,
           handed' \subseteq activations, UsesStayWithinAuthority'
    PROVE  SkillInvariant'
<1>1. CallsFit' BY DEF SkillInvariant, CallsFit
<1>2. \A r : ToActivate(r)' = ToActivate(r) /\ ToFinish(r)' = ToFinish(r)
  BY DEF ToActivate, ToFinish
<1> QED BY <1>1, <1>2, SpendingRests

LEMMA SkillSteps == SkillInvariant /\ [SkillNext]_skillVars => SkillInvariant'
<1> SUFFICES ASSUME SkillInvariant, [SkillNext]_skillVars PROVE SkillInvariant' OBVIOUS
<1>1. AuthorityNarrows /\ UsesStayWithinAuthority BY DEF SkillInvariant
<1>2. ASSUME UNCHANGED <<usage, activations, artifacts, thread, handed, uses>> PROVE SkillInvariant'
  <2>1. handed' \subseteq activations /\ UsesStayWithinAuthority'
    BY <1>1, <1>2 DEF AuthorityNarrows, UsesStayWithinAuthority
  <2> QED BY <1>2, <2>1, OthersGoOn
<1>3. ASSUME NEW t \in Threads,
             \/ \E r \in DOMAIN Requests, s \in Skills : Route(t, r, s)
             \/ Check(t) \/ Charge(t) \/ Build(t) \/ Consume(t)
             \/ \E a \in handed : Authorize(t, a)
             \/ \E valid \in BOOLEAN : Complete(t, valid)
      PROVE  SkillInvariant'
  BY <1>3, QuietCalls, ChargePays, BuildPays, ConsumePays, CompletePays
<1>4. ASSUME NEW parent \in handed, NEW child \in activations, HandOutChild(parent, child)
      PROVE  SkillInvariant'
  <2>1. handed' \subseteq activations /\ UsesStayWithinAuthority'
        /\ UNCHANGED <<usage, activations, artifacts, thread>>
    BY <1>1, <1>4 DEF HandOutChild, AuthorityNarrows, UsesStayWithinAuthority
  <2> QED BY <2>1, OthersGoOn
<1>5. ASSUME NEW a \in handed, NEW c \in Capabilities, Use(a, c) PROVE SkillInvariant'
  <2>1. /\ MayUse(a, c) /\ uses' = uses \cup {<<a, c>>} /\ handed' = handed
        /\ UNCHANGED <<usage, activations, artifacts, thread>>
    BY <1>5 DEF Use
  <2>2. PICK some : some = {c} OBVIOUS
  <2>3. UsesStayWithinAuthority'
    <3>1. uses' = uses \cup {<<a, d>> : d \in some} /\ \A d \in some : MayUse(a, d) BY <2>1, <2>2
    <3> QED BY <1>1, <3>1, UsesAllowed
  <2>4. handed' \subseteq activations BY <1>1, <2>1 DEF AuthorityNarrows
  <2> QED BY <2>1, <2>3, <2>4, OthersGoOn
<1>6. ASSUME \/ \E c \in Capabilities : Regrant(c) \/ ChangeTenantPolicy(c) \/ HealthChanges(c)
             \/ \E s \in Skills :
                   \/ \E state \in {"ACTIVE", "DEPRECATED", "QUARANTINED", "RETIRED"} :
                         Transition(s, state)
                   \/ Tamper(s) \/ Republish(s)
      PROVE  SkillInvariant'
  <2>1. UNCHANGED <<usage, activations, artifacts, thread, handed, uses>>
    BY <1>6 DEF Regrant, ChangeTenantPolicy, HealthChanges, Transition, Tamper, Republish
  <2> QED BY <1>2, <2>1
<1>7. CASE UNCHANGED skillVars BY <1>2, <1>7 DEF skillVars
<1> QED BY <1>3, <1>4, <1>5, <1>6, <1>7 DEF SkillNext

\* For any catalog, principal, budget and number of threads, every capability used was the
\* principal's and was asked for by every skill from the root down, and what a request has
\* spent is within its budget and covers every skill activated and every artifact, whatever
\* is withdrawn, changed or fails between two steps (NorthstarSkillRuntime).
THEOREM SkillsKeepBounds == SkillSpec => []SkillsStayInBounds
<1>1. SkillInit => SkillInvariant BY SkillsStart
<1>2. SkillInvariant /\ [SkillNext]_skillVars => SkillInvariant' BY SkillSteps
<1>3. SkillInvariant => SkillsStayInBounds
  <2> SUFFICES ASSUME SkillInvariant PROVE SkillsStayInBounds OBVIOUS
  <2>1. ASSUME NEW r \in DOMAIN Requests
        PROVE  /\ \A kind \in DOMAIN Budget : usage[r][kind] <= Budget[kind]
               /\ Cardinality(Activated(r)) <= usage[r].activations
               /\ Cardinality(Finished(r)) <= usage[r].models
    BY CoveredMeans DEF SkillInvariant, UsageFits
  <2>2. SpendIsCovered BY <2>1 DEF SpendIsCovered, Activated, Finished
  <2> QED BY <2>2 DEF SkillInvariant, SkillsStayInBounds
<1> QED BY <1>1, <1>2, <1>3, PTL DEF SkillSpec

(***************************************************************************)
(* The checkpoints of an investigation (intermediate/10).                  *)
(***************************************************************************)

Marked == [target: Targets, operation: Targets, made: Nat, expires: Nat] \cup {NoProposal}
CkptStates ==
    [done: SUBSET Nodes, twice: BOOLEAN, evidence: SUBSET EvidenceSources, calls: Nat,
     budget: Nat, retries: Nat, hypothesis: BOOLEAN, confidence: Nat, proposal: Marked,
     audit: Marked, operation: Targets, status: RunStatuses, mode: {"LIVE", "REPLAY"}, last: Nat]

\* An approval is of the proposal the state before waited with.
AuditFollows(old, new) ==
    new.audit # NoProposal /\ new.audit # old.audit
      => old.status = "INTERRUPTED" /\ old.proposal = new.audit
Follows(old, new) == CarriesOn(old, new) /\ AuditFollows(old, new)

ApprovedBy(proposal, operation, votes) ==
    /\ operation = proposal.operation
    /\ \E d \in votes : d.approves /\ d.proposal = proposal /\ d.at \in proposal.made .. proposal.expires

\* A state of a thread, in the table or in memory, ...
Good(s, lane, votes) ==
    /\ s \in CkptStates /\ IsFiniteSet(s.done) /\ s.calls + s.budget = ToolBudget
    /\ s.proposal # NoProposal => s.proposal.operation = s.operation
    /\ s.status = "APPROVED_FOR_EXECUTION" => ApprovedBy(s.audit, s.operation, votes)
    /\ lane = "fork" => s.mode = "REPLAY"

\* ... follows from the row it was loaded from or saved to, if that is still there.
Fit(s, lane, table, votes, n) ==
    /\ Good(s, lane, votes) /\ s.last <= n
    /\ \A q \in table : q.id = s.last => Follows(q.state, s)

TableFits ==
    /\ inserted \in Nat
    /\ \A row \in rows :
          /\ row.id \in Nat \ {0} /\ row.id <= inserted /\ row.parent \in Nat /\ row.parent <= inserted
          /\ row.thread \in ThreadIds /\ row.state.last = row.id
          /\ Fit(row.state, row.thread, rows, decisions, inserted)
          /\ \A q \in rows : /\ q.id = row.id => q = row
                             /\ q.id = row.parent => Follows(q.state, row.state)
RuntimesFit ==
    /\ runtime = [p \in Runtimes |-> runtime[p]]
    /\ \A p \in Runtimes :
          /\ runtime[p] = [thread |-> runtime[p].thread, state |-> runtime[p].state,
                           seq |-> runtime[p].seq]
          /\ runtime[p].thread \in ThreadIds
          /\ \/ runtime[p].state = NoState /\ runtime[p].seq = 0
             \/ Fit(runtime[p].state, runtime[p].thread, rows, decisions, inserted)
VotesFit ==
    /\ clock \in Nat /\ \A d \in decisions : d.at \in Nat
    /\ \A c \in commits : c.thread = "incident" /\ ApprovedBy(c.audit, c.operation, decisions)

CkptInvariant == TableFits /\ RuntimesFit /\ VotesFit

(* ------------------------------- states -------------------------------- *)

LEMMA FollowsItself ==
    ASSUME NEW s \in CkptStates
    PROVE  Follows(s, s)
<1>1. (s.done \ s.done) \cap Reads = {} OBVIOUS
<1>2. Cardinality({}) = 0 BY FS_EmptySet
<1>3. s.calls \in Nat /\ s.retries \in Nat BY DEF CkptStates
<1> QED BY <1>1, <1>2, <1>3 DEF Follows, CarriesOn, AuditFollows

\* One operation: at most one node is completed, and a read is paid for.
Works(s, m) ==
    /\ m \in CkptStates /\ m.mode = s.mode /\ m.last = s.last /\ m.audit = s.audit
    /\ s.done \subseteq m.done /\ s.evidence \subseteq m.evidence /\ m.retries <= s.retries
    /\ m.calls + m.budget = s.calls + s.budget
    /\ \E node : /\ m.done \subseteq s.done \cup {node}
                 /\ m.calls = s.calls + 1 \/ (m.calls = s.calls /\ node \notin Reads)
    /\ m.proposal # NoProposal => m.proposal.operation = m.operation
    /\ m.status = "APPROVED_FOR_EXECUTION" =>
         s.status = "APPROVED_FOR_EXECUTION" /\ m.operation = s.operation

LEMMA FollowsOn ==
    ASSUME NEW q \in CkptStates, NEW s \in CkptStates, NEW m, IsFiniteSet(s.done),
           Follows(q, s), Works(s, m)
    PROVE  Follows(q, m)
<1>1. PICK node : /\ m.done \subseteq s.done \cup {node}
                  /\ m.calls = s.calls + 1 \/ (m.calls = s.calls /\ node \notin Reads)
  BY DEF Works
<1>2. /\ q.calls \in Nat /\ s.calls \in Nat /\ m.calls \in Nat
      /\ q.retries \in Nat /\ s.retries \in Nat /\ m.retries \in Nat
  BY DEF Works, CkptStates
<1>3. /\ q.done \subseteq s.done /\ s.done \subseteq m.done
      /\ q.evidence \subseteq m.evidence /\ m.retries <= q.retries
      /\ s.calls - q.calls >= Cardinality((s.done \ q.done) \cap Reads)
  BY <1>2 DEF Works, Follows, CarriesOn
<1>4. m.calls - q.calls >= Cardinality((m.done \ q.done) \cap Reads)
  <2> DEFINE old == (s.done \ q.done) \cap Reads
             new == (m.done \ q.done) \cap Reads
  <2>1. IsFiniteSet(old) /\ Cardinality(old) \in Nat BY FS_Subset, FS_CardinalityType
  <2>2. CASE new = old
    <3>1. m.calls >= s.calls BY <1>1, <1>2
    <3>2. s.calls - q.calls >= Cardinality(new) BY <1>3, <2>2
    <3> HIDE DEF old, new
    <3>3. m.calls - q.calls >= Cardinality(new) BY <1>2, <2>1, <2>2, <3>1, <3>2
    <3> QED BY <3>3 DEF new
  <2>3. CASE new # old
    <3>1. new = old \cup {node} /\ node \notin old /\ node \in Reads BY <1>1, <1>3, <2>3
    <3>2. m.calls = s.calls + 1 BY <1>1, <3>1
    <3> HIDE DEF old, new
    <3>3. Cardinality(new) = Cardinality(old) + 1 BY <2>1, <3>1, FS_AddElement
    <3>4. s.calls - q.calls >= Cardinality(old) BY <1>3 DEF old
    <3>5. m.calls - q.calls >= Cardinality(new) BY <1>2, <2>1, <3>2, <3>3, <3>4
    <3> QED BY <3>5 DEF new
  <2> QED BY <2>2, <2>3
<1>5. AuditFollows(q, m) BY DEF Works, Follows, AuditFollows
<1> QED BY <1>3, <1>4, <1>5 DEF Follows, CarriesOn

\* An operation keeps a state in order.
LEMMA WorksFit ==
    ASSUME NEW s, NEW m, NEW lane, NEW table, NEW votes, NEW n,
           Fit(s, lane, table, votes, n), Works(s, m), \A q \in table : q.state \in CkptStates
    PROVE  Fit(m, lane, table, votes, n)
<1>1. s \in CkptStates /\ IsFiniteSet(s.done) BY DEF Fit, Good
<1>2. IsFiniteSet(m.done)
  <2>1. PICK node : m.done \subseteq s.done \cup {node} BY DEF Works
  <2>2. IsFiniteSet(s.done \cup {node}) BY <1>1, FS_Singleton, FS_Union
  <2> QED BY <2>1, <2>2, FS_Subset
<1>3. \A q \in table : q.id = m.last => Follows(q.state, m)
  <2>1. m.last = s.last BY DEF Works
  <2>2. \A q \in table : q.id = s.last => Follows(q.state, s) BY DEF Fit
  <2> QED BY <1>1, <2>1, <2>2, FollowsOn
<1>4. m.calls + m.budget = ToolBudget /\ m.last <= n BY DEF Works, Fit, Good
<1>5. m.status = "APPROVED_FOR_EXECUTION" => ApprovedBy(m.audit, m.operation, votes)
  BY DEF Works, Fit, Good
<1>6. m \in CkptStates /\ (lane = "fork" => m.mode = "REPLAY")
      /\ (m.proposal # NoProposal => m.proposal.operation = m.operation)
  BY DEF Works, Fit, Good
<1> QED BY <1>2, <1>3, <1>4, <1>5, <1>6 DEF Fit, Good

\* A state stays in order while rows come under new numbers or go, and votes come.
LEMMA FitStays ==
    ASSUME NEW s, NEW lane, NEW table, NEW votes, NEW n \in Nat,
           NEW table2, NEW votes2, NEW n2 \in Nat,
           Fit(s, lane, table, votes, n), votes \subseteq votes2, n <= n2,
           \A q \in table2 : q \in table \/ q.id = n + 1
    PROVE  Fit(s, lane, table2, votes2, n2)
<1>1. s.last \in Nat /\ s.last <= n BY DEF Fit, Good, CkptStates
<1>2. s.last <= n2 BY <1>1
<1>3. \A q \in table2 : q.id = s.last => q \in table BY <1>1
<1>4. \A q \in table2 : q.id = s.last => Follows(q.state, s) BY <1>3 DEF Fit
<1>5. s.status = "APPROVED_FOR_EXECUTION" => ApprovedBy(s.audit, s.operation, votes2)
  BY DEF Fit, Good, ApprovedBy
<1> QED BY <1>2, <1>4, <1>5 DEF Fit, Good

(* ------------------------------- the table ----------------------------- *)

LEMMA CkptStarts == CkptInit => CkptInvariant
<1> SUFFICES ASSUME CkptInit PROVE CkptInvariant OBVIOUS
<1>1. LeftBehind(rows) /\ inserted = Cardinality(rows) BY CkptAssumption DEF CkptInit
<1>2. inserted \in Nat BY <1>1, FS_CardinalityType DEF LeftBehind
<1>3. ASSUME NEW row \in rows
      PROVE  /\ row.id \in Nat \ {0} /\ row.id <= inserted /\ row.parent \in Nat
             /\ row.parent <= inserted /\ row.thread \in ThreadIds /\ row.state.last = row.id
             /\ Fit(row.state, row.thread, rows, decisions, inserted)
             /\ \A q \in rows : /\ q.id = row.id => q = row
                                /\ q.id = row.parent => Follows(q.state, row.state)
  <2>1. /\ row \in Rows /\ row.id <= inserted /\ row.parent < row.id /\ row.thread = "incident"
        /\ row.state.last = row.id /\ row.state.calls + row.state.budget = ToolBudget
        /\ row.state.audit = NoProposal /\ row.state.status # "APPROVED_FOR_EXECUTION"
        /\ row.state.proposal.operation \in {Nothing, row.state.operation}
        /\ \A q \in rows : /\ q.id = row.id => q = row
                           /\ q.id = row.parent => CarriesOn(q.state, row.state)
    BY <1>1 DEF LeftBehind
  <2>2. row.id \in Nat \ {0} /\ row.parent \in Nat /\ row.state \in States
    BY <2>1, CkptAssumption DEF Rows
  <2>3. row.state \in CkptStates
    <3>1. Proposals \cup {NoProposal} \subseteq Marked
      BY CkptAssumption DEF Proposals, Marked
    <3>2. 0 .. ToolBudget \subseteq Nat /\ 0 .. RetryBudget \subseteq Nat /\ 0 .. MaxRows \subseteq Nat
          /\ 0 .. 2 \subseteq Nat
      BY CkptAssumption
    <3> QED BY <2>2, <3>1, <3>2 DEF States, CkptStates
  <2>4. IsFiniteSet(row.state.done)
    <3>1. PICK all : all = {"read-health", "read-logs", "read-deployment", "form-hypothesis",
                            "prepare-proposal", "approval-validated"}
      OBVIOUS
    <3>2. row.state.done \subseteq all
      BY <2>3, <3>1, CkptAssumption DEF CkptStates, Nodes, EvidenceSources
    <3>3. IsFiniteSet(all)
      <4> DEFINE Few(a, b, c) == {a} \cup {b} \cup {c}
      <4>1. \A a, b, c : IsFiniteSet(Few(a, b, c)) BY FS_Singleton, FS_Union
      <4>2. all = Few("read-health", "read-logs", "read-deployment")
                  \cup Few("form-hypothesis", "prepare-proposal", "approval-validated")
        BY <3>1
      <4> HIDE DEF Few
      <4> QED BY <4>1, <4>2, FS_Union
    <3> QED BY <3>2, <3>3, FS_Subset
  <2>5. row.state.proposal # NoProposal => row.state.proposal.operation = row.state.operation
    BY <2>1, <2>3, CkptAssumption DEF CkptStates, Marked
  <2>6. Good(row.state, row.thread, decisions) BY <2>1, <2>3, <2>4, <2>5 DEF Good
  <2>7. Follows(row.state, row.state) BY <2>3, FollowsItself
  <2>8. Fit(row.state, row.thread, rows, decisions, inserted) BY <2>1, <2>6, <2>7 DEF Fit
  <2>9. row.parent <= inserted BY <1>2, <2>1, <2>2
  <2> QED BY <2>1, <2>2, <2>8, <2>9 DEF ThreadIds, Follows, AuditFollows
<1>4. TableFits BY <1>2, <1>3 DEF TableFits
<1>5. RuntimesFit BY DEF CkptInit, RuntimesFit, NoRuntime, ThreadIds
<1>6. VotesFit BY DEF CkptInit, VotesFit
<1> QED BY <1>4, <1>5, <1>6 DEF CkptInvariant

\* A row that comes follows from its parent and is nobody's parent yet.
LEMMA InsertFits ==
    ASSUME TableFits, VotesFit, NEW row, Insert(row), decisions' = decisions,
           row.id = inserted + 1, row.parent \in Nat, row.parent <= inserted,
           row.thread \in ThreadIds, row.state.last = row.id,
           Good(row.state, row.thread, decisions),
           \A q \in rows : q.id = row.parent => Follows(q.state, row.state)
    PROVE  /\ TableFits' /\ Fit(row.state, row.thread, rows', decisions', inserted')
           /\ \A s, lane : Fit(s, lane, rows, decisions, inserted)
                               => Fit(s, lane, rows', decisions', inserted')
<1>1. /\ inserted \in Nat /\ inserted' = inserted + 1 /\ rows' = rows \cup {row}
      /\ inserted' \in Nat /\ inserted <= inserted'
  BY DEF Insert, TableFits
<1>2. \A q \in rows' : q \in rows \/ q.id = inserted + 1 BY <1>1
<1>3. ASSUME NEW s, NEW lane, Fit(s, lane, rows, decisions, inserted)
      PROVE  Fit(s, lane, rows', decisions', inserted')
  BY <1>1, <1>2, <1>3, FitStays
<1>4. \A q \in rows : q.id \in Nat /\ q.id <= inserted /\ q.id # row.id /\ q.id # inserted + 1
  BY <1>1 DEF TableFits
<1>5. Fit(row.state, row.thread, rows', decisions', inserted')
  <2>1. row.state \in CkptStates BY DEF Good
  <2>2. Follows(row.state, row.state) BY <2>1, FollowsItself
  <2>3. \A q \in rows' : q.id = row.state.last => Follows(q.state, row.state) BY <1>1, <1>4, <2>2
  <2>4. row.state.last <= inserted' BY <1>1
  <2> QED BY <2>3, <2>4 DEF Fit
<1>6. ASSUME NEW old \in rows'
      PROVE  /\ old.id \in Nat \ {0} /\ old.id <= inserted' /\ old.parent \in Nat
             /\ old.parent <= inserted' /\ old.thread \in ThreadIds /\ old.state.last = old.id
             /\ Fit(old.state, old.thread, rows', decisions', inserted')
             /\ \A q \in rows' : /\ q.id = old.id => q = old
                                 /\ q.id = old.parent => Follows(q.state, old.state)
  <2>1. CASE old = row
    <3>1. \A q \in rows' : /\ q.id = row.id => q = row
                           /\ q.id = row.parent => Follows(q.state, row.state)
      <4>1. row.id # row.parent BY <1>1
      <4> QED BY <1>1, <1>4, <4>1
    <3>2. row.id \in Nat \ {0} /\ row.id <= inserted' /\ row.parent <= inserted' BY <1>1
    <3> QED BY <1>5, <2>1, <3>1, <3>2
  <2>2. CASE old # row
    <3>1. old \in rows BY <1>1, <2>2
    <3>2. /\ old.id \in Nat \ {0} /\ old.id <= inserted /\ old.parent \in Nat
          /\ old.parent <= inserted /\ old.thread \in ThreadIds /\ old.state.last = old.id
          /\ Fit(old.state, old.thread, rows, decisions, inserted)
          /\ \A q \in rows : /\ q.id = old.id => q = old
                             /\ q.id = old.parent => Follows(q.state, old.state)
      BY <3>1 DEF TableFits
    <3>3. old.id # row.id /\ old.parent # row.id BY <1>1, <3>2
    <3>4. \A q \in rows' : /\ q.id = old.id => q = old
                           /\ q.id = old.parent => Follows(q.state, old.state)
      BY <1>1, <3>2, <3>3
    <3>5. old.id <= inserted' /\ old.parent <= inserted' BY <1>1, <3>2
    <3> QED BY <1>3, <3>2, <3>4, <3>5
  <2> QED BY <2>1, <2>2
<1>7. TableFits' BY <1>1, <1>6 DEF TableFits
<1> QED BY <1>3, <1>5, <1>7

\* Rows that go, and votes that come, leave the rest in order.
LEMMA TableStays ==
    ASSUME CkptInvariant, rows' \subseteq rows, decisions \subseteq decisions',
           inserted' = inserted, \A d \in decisions' : d.at \in Nat
    PROVE  /\ TableFits'
           /\ \A s, lane : Fit(s, lane, rows, decisions, inserted)
                               => Fit(s, lane, rows', decisions', inserted')
<1>1. inserted \in Nat BY DEF CkptInvariant, TableFits
<1>2. \A q \in rows' : q \in rows \/ q.id = inserted + 1 OBVIOUS
<1>3. ASSUME NEW s, NEW lane, Fit(s, lane, rows, decisions, inserted)
      PROVE  Fit(s, lane, rows', decisions', inserted')
  <2>1. inserted' \in Nat /\ inserted <= inserted' BY <1>1
  <2> QED BY <1>1, <1>2, <1>3, <2>1, FitStays
<1>4. TableFits' BY <1>3 DEF CkptInvariant, TableFits
<1> QED BY <1>3, <1>4

(* ------------------------------ the runtimes --------------------------- *)

LEMMA BecomesFits ==
    ASSUME CkptInvariant, NEW p \in Runtimes, NEW lane \in ThreadIds, NEW state, NEW seq,
           runtime' = [runtime EXCEPT ![p] = [thread |-> lane, state |-> state, seq |-> seq]],
           UNCHANGED <<rows, tombstones, inserted, decisions, commits, clock>>,
           \/ Fit(state, lane, rows, decisions, inserted)
           \/ state = NoState /\ seq = 0
    PROVE  CkptInvariant'
<1>1. TableFits' /\ VotesFit' BY DEF CkptInvariant, TableFits, VotesFit
<1>2. /\ runtime' = [other \in Runtimes |-> runtime'[other]]
      /\ runtime'[p] = [thread |-> lane, state |-> state, seq |-> seq]
      /\ \A other \in Runtimes \ {p} : runtime'[other] = runtime[other]
  BY DEF CkptInvariant, RuntimesFit
<1>3. ASSUME NEW other \in Runtimes
      PROVE  /\ runtime'[other] = [thread |-> runtime'[other].thread, state |-> runtime'[other].state,
                                   seq |-> runtime'[other].seq]
             /\ runtime'[other].thread \in ThreadIds
             /\ \/ runtime'[other].state = NoState /\ runtime'[other].seq = 0
                \/ Fit(runtime'[other].state, runtime'[other].thread, rows', decisions', inserted')
  <2>1. CASE other = p BY <1>2, <2>1
  <2>2. CASE other # p
    <3>1. runtime'[other] = runtime[other] BY <1>2, <2>2
    <3>2. /\ runtime[other] = [thread |-> runtime[other].thread, state |-> runtime[other].state,
                               seq |-> runtime[other].seq]
          /\ runtime[other].thread \in ThreadIds
          /\ \/ runtime[other].state = NoState /\ runtime[other].seq = 0
             \/ Fit(runtime[other].state, runtime[other].thread, rows, decisions, inserted)
      BY DEF CkptInvariant, RuntimesFit
    <3> QED BY <3>1, <3>2
  <2> QED BY <2>1, <2>2
<1>4. RuntimesFit' BY <1>2, <1>3 DEF RuntimesFit
<1> QED BY <1>1, <1>4 DEF CkptInvariant

\* The state a ready runtime works on.
LEMMA ReadyFits ==
    ASSUME CkptInvariant, NEW p \in Runtimes, Ready(p)
    PROVE  /\ runtime[p].thread \in ThreadIds
           /\ Fit(runtime[p].state, runtime[p].thread, rows, decisions, inserted)
           /\ runtime[p].state \in CkptStates
<1>1. Fit(runtime[p].state, runtime[p].thread, rows, decisions, inserted)
  BY DEF Ready, CkptInvariant, RuntimesFit
<1> QED BY <1>1 DEF CkptInvariant, RuntimesFit, Fit, Good

LEMMA UpdateFits ==
    ASSUME CkptInvariant, NEW p \in Runtimes, Ready(p), NEW m, Works(runtime[p].state, m),
           Update(p, m)
    PROVE  CkptInvariant'
<1>1. PICK s, lane : s = runtime[p].state /\ lane = runtime[p].thread OBVIOUS
<1>2. lane \in ThreadIds /\ Fit(s, lane, rows, decisions, inserted) BY <1>1, ReadyFits
<1>3. \A q \in rows : q.state \in CkptStates BY DEF CkptInvariant, TableFits, Fit, Good
<1>4. Fit(m, lane, rows, decisions, inserted) BY <1>1, <1>2, <1>3, WorksFit
<1>5. /\ runtime' = [runtime EXCEPT ![p] = [thread |-> lane, state |-> m,
                                            seq |-> NextSequence(lane)]]
      /\ UNCHANGED <<rows, tombstones, inserted, decisions, commits, clock>>
  BY <1>1 DEF Update, Becomes
<1>6. PICK seq : seq = NextSequence(lane) OBVIOUS
<1>7. runtime' = [runtime EXCEPT ![p] = [thread |-> lane, state |-> m, seq |-> seq]]
  BY <1>5, <1>6
<1> QED BY <1>2, <1>4, <1>5, <1>7, BecomesFits

(* ------------------------------- operations ---------------------------- *)

LEMMA CompletedIs ==
    ASSUME NEW s \in CkptStates, NEW node \in Nodes
    PROVE  LET m == Completed(s, node) IN
           /\ m \in CkptStates /\ m.done = s.done \cup {node}
           /\ m.evidence = s.evidence /\ m.calls = s.calls /\ m.budget = s.budget
           /\ m.retries = s.retries /\ m.hypothesis = s.hypothesis /\ m.confidence = s.confidence
           /\ m.proposal = s.proposal /\ m.audit = s.audit /\ m.operation = s.operation
           /\ m.status = s.status /\ m.mode = s.mode /\ m.last = s.last
<1> DEFINE m == Completed(s, node)
<1>1. PICK done, twice : done = s.done \cup {node} /\ twice = (s.twice \/ node \in s.done) OBVIOUS
<1>2. m = [s EXCEPT !.done = done, !.twice = twice] BY <1>1 DEF Completed
<1>3. done \in SUBSET Nodes /\ twice \in BOOLEAN BY <1>1 DEF CkptStates
<1>4. [s EXCEPT !.done = done, !.twice = twice] \in CkptStates BY <1>3 DEF CkptStates
<1> HIDE DEF m
<1>5. m \in CkptStates BY <1>2, <1>4, Zenon
<1>6. /\ m.done = s.done \cup {node}
      /\ m.evidence = s.evidence /\ m.calls = s.calls /\ m.budget = s.budget
      /\ m.retries = s.retries /\ m.hypothesis = s.hypothesis /\ m.confidence = s.confidence
      /\ m.proposal = s.proposal /\ m.audit = s.audit /\ m.operation = s.operation
      /\ m.status = s.status /\ m.mode = s.mode /\ m.last = s.last
  BY <1>1, <1>2 DEF CkptStates
<1> QED BY <1>5, <1>6 DEF m

LEMMA ChargedIs ==
    ASSUME NEW s \in CkptStates, s.budget > 0
    PROVE  LET m == Charged(s) IN
           /\ m \in CkptStates /\ m.calls = s.calls + 1 /\ m.budget = s.budget - 1
           /\ m.calls + m.budget = s.calls + s.budget
           /\ m.done = s.done /\ m.evidence = s.evidence /\ m.retries = s.retries
           /\ m.hypothesis = s.hypothesis /\ m.confidence = s.confidence
           /\ m.proposal = s.proposal /\ m.audit = s.audit /\ m.operation = s.operation
           /\ m.status = s.status /\ m.mode = s.mode /\ m.last = s.last
<1> DEFINE m == Charged(s)
<1>1. PICK calls, budget : calls = s.calls + 1 /\ budget = s.budget - 1 OBVIOUS
<1>2. m = [s EXCEPT !.calls = calls, !.budget = budget] BY <1>1 DEF Charged
<1>3. s.calls \in Nat /\ s.budget \in Nat BY DEF CkptStates
<1>4. calls \in Nat /\ budget \in Nat /\ calls + budget = s.calls + s.budget BY <1>1, <1>3
<1>5. [s EXCEPT !.calls = calls, !.budget = budget] \in CkptStates BY <1>4 DEF CkptStates
<1> HIDE DEF m
<1>6. m \in CkptStates BY <1>2, <1>5, Zenon
<1>7. /\ m.calls = calls /\ m.budget = budget
      /\ m.done = s.done /\ m.evidence = s.evidence /\ m.retries = s.retries
      /\ m.hypothesis = s.hypothesis /\ m.confidence = s.confidence
      /\ m.proposal = s.proposal /\ m.audit = s.audit /\ m.operation = s.operation
      /\ m.status = s.status /\ m.mode = s.mode /\ m.last = s.last
  BY <1>2 DEF CkptStates
<1> QED BY <1>1, <1>4, <1>6, <1>7 DEF m

Amended(s, known, retries, status, hypothesis, confidence) ==
    [s EXCEPT !.evidence = known, !.retries = retries, !.status = status,
              !.hypothesis = hypothesis, !.confidence = confidence]

\* What a change of status, hypothesis, retries or evidence leaves.
LEMMA ChangedIs ==
    ASSUME NEW s \in CkptStates, NEW known \in SUBSET EvidenceSources, NEW retries \in Nat,
           NEW status \in RunStatuses, NEW hypothesis \in BOOLEAN, NEW confidence \in Nat,
           NEW m, m = Amended(s, known, retries, status, hypothesis, confidence)
    PROVE  /\ m \in CkptStates /\ m.evidence = known /\ m.retries = retries
           /\ m.status = status
           /\ m.done = s.done /\ m.calls = s.calls /\ m.budget = s.budget
           /\ m.proposal = s.proposal /\ m.audit = s.audit /\ m.operation = s.operation
           /\ m.mode = s.mode /\ m.last = s.last
<1>1. [s EXCEPT !.evidence = known, !.retries = retries, !.status = status,
                !.hypothesis = hypothesis, !.confidence = confidence] \in CkptStates
  BY DEF CkptStates
<1>2. m \in CkptStates BY <1>1, Zenon DEF Amended
<1> QED BY <1>2 DEF CkptStates, Amended

Proposed(s, proposal, status) == [Proposes(s, proposal) EXCEPT !.status = status]

LEMMA ProposesIs ==
    ASSUME NEW s \in CkptStates, NEW proposal \in Marked, proposal.operation \in Targets,
           NEW status \in RunStatuses,
           NEW m, m = Proposed(s, proposal, status)
    PROVE  /\ m \in CkptStates /\ m.proposal = proposal /\ m.operation = proposal.operation
           /\ m.status = status
           /\ m.done = s.done /\ m.evidence = s.evidence /\ m.calls = s.calls
           /\ m.budget = s.budget /\ m.retries = s.retries /\ m.audit = s.audit
           /\ m.mode = s.mode /\ m.last = s.last
<1>1. PICK operation \in Targets : operation = proposal.operation OBVIOUS
<1>2. m = [s EXCEPT !.proposal = proposal, !.operation = operation, !.status = status]
  BY <1>1 DEF Proposes, Proposed, CkptStates
<1>3. [s EXCEPT !.proposal = proposal, !.operation = operation, !.status = status] \in CkptStates
  BY DEF CkptStates
<1>4. m \in CkptStates BY <1>2, <1>3, Zenon
<1> QED BY <1>1, <1>2, <1>4 DEF CkptStates

LEMMA NoReads ==
    /\ {"form-hypothesis", "prepare-proposal", "approval-validated"} \cap Reads = {}
    /\ {"form-hypothesis", "prepare-proposal", "approval-validated"} \subseteq Nodes
BY CkptAssumption DEF EvidenceSources, Nodes

\* An operation that costs nothing and completes no read.
LEMMA FreeWorks ==
    ASSUME NEW s, NEW m, NEW node, node \notin Reads, m \in CkptStates, m.mode = s.mode,
           m.last = s.last, m.audit = s.audit, m.done \in {s.done, s.done \cup {node}},
           s.evidence \subseteq m.evidence, m.retries = s.retries, m.calls = s.calls,
           m.budget = s.budget, m.proposal # NoProposal => m.proposal.operation = m.operation,
           m.status = "APPROVED_FOR_EXECUTION" =>
             s.status = "APPROVED_FOR_EXECUTION" /\ m.operation = s.operation
    PROVE  Works(s, m)
<1>1. m.retries \in Nat BY DEF CkptStates
<1>2. m.retries <= s.retries BY <1>1
<1> QED BY <1>2 DEF Works

LEMMA ReadFits ==
    ASSUME CkptInvariant, NEW p \in Runtimes, NEW node \in Reads, Read(p, node)
    PROVE  CkptInvariant'
<1>1. PICK s : s = runtime[p].state OBVIOUS
<1>2. PICK m : m = Completed(Charged([s EXCEPT !.evidence = @ \cup {node}]), node) OBVIOUS
<1>3. /\ Ready(p) /\ node \notin s.done /\ s.status = "RUNNING" /\ s.budget > 0 /\ Update(p, m)
  BY <1>1, <1>2 DEF Read, Open, Affordable
<1>4. s \in CkptStates /\ (s.proposal # NoProposal => s.proposal.operation = s.operation)
  BY <1>1, <1>3, ReadyFits DEF Fit, Good
<1>5. node \in Nodes /\ node \in EvidenceSources BY CkptAssumption DEF Nodes
<1>6. PICK known : known = s.evidence \cup {node} OBVIOUS
<1>7. known \in SUBSET EvidenceSources BY <1>4, <1>5, <1>6 DEF CkptStates
<1>8. PICK e : e = Amended(s, known, s.retries, s.status, s.hypothesis, s.confidence)
  OBVIOUS
<1>9. /\ s.retries \in Nat /\ s.status \in RunStatuses /\ s.hypothesis \in BOOLEAN
      /\ s.confidence \in Nat
  BY <1>4 DEF CkptStates
<1>10. e = [s EXCEPT !.evidence = @ \cup {node}] BY <1>4, <1>6, <1>8 DEF CkptStates, Amended
<1>11. /\ e \in CkptStates /\ e.evidence = known /\ e.retries = s.retries /\ e.status = s.status
       /\ e.done = s.done /\ e.calls = s.calls /\ e.budget = s.budget
       /\ e.proposal = s.proposal /\ e.audit = s.audit /\ e.operation = s.operation
       /\ e.mode = s.mode /\ e.last = s.last
  BY <1>4, <1>7, <1>8, <1>9, ChangedIs
<1>12. PICK c : c = Charged(e) OBVIOUS
<1>13. /\ c \in CkptStates /\ c.calls = s.calls + 1 /\ c.calls + c.budget = s.calls + s.budget
       /\ c.done = s.done /\ c.evidence = known /\ c.retries = s.retries /\ c.proposal = s.proposal
       /\ c.audit = s.audit /\ c.operation = s.operation /\ c.status = s.status
       /\ c.mode = s.mode /\ c.last = s.last
  BY <1>3, <1>11, <1>12, ChargedIs
<1>14. m = Completed(c, node) BY <1>2, <1>10, <1>12
<1>15. /\ m \in CkptStates /\ m.calls = s.calls + 1 /\ m.calls + m.budget = s.calls + s.budget
       /\ m.done = s.done \cup {node} /\ m.evidence = known /\ m.retries = s.retries
       /\ m.proposal = s.proposal /\ m.audit = s.audit /\ m.operation = s.operation
       /\ m.status = s.status /\ m.mode = s.mode /\ m.last = s.last
  BY <1>5, <1>13, <1>14, CompletedIs
<1>16. Works(s, m)
  <2>1. m.retries <= s.retries BY <1>9, <1>15
  <2>2. s.evidence \subseteq m.evidence BY <1>6, <1>15
  <2>3. m.status # "APPROVED_FOR_EXECUTION" BY <1>3, <1>15
  <2> QED BY <1>4, <1>15, <2>1, <2>2, <2>3 DEF Works
<1> QED BY <1>1, <1>3, <1>16, UpdateFits

LEMMA TimeoutFits ==
    ASSUME CkptInvariant, NEW p \in Runtimes, ReadTimesOut(p)
    PROVE  CkptInvariant'
<1>1. PICK s : s = runtime[p].state OBVIOUS
<1>2. Ready(p) /\ s.status = "RUNNING" /\ s.budget > 0
  BY <1>1 DEF ReadTimesOut, Open, Affordable
<1>3. s \in CkptStates /\ (s.proposal # NoProposal => s.proposal.operation = s.operation)
  BY <1>1, <1>2, ReadyFits DEF Fit, Good
<1>4. /\ s.evidence \in SUBSET EvidenceSources /\ s.retries \in Nat /\ s.hypothesis \in BOOLEAN
      /\ s.confidence \in Nat
  BY <1>3 DEF CkptStates
<1>5. PICK retries, status, e :
        /\ retries \in Nat /\ retries <= s.retries /\ status \in {"RUNNING", "FAILED"}
        /\ e = Amended(s, s.evidence, retries, status, s.hypothesis, s.confidence)
        /\ Update(p, Charged(e))
  <2>1. CASE s.retries > 0 /\ Update(p, Charged([s EXCEPT !.retries = @ - 1]))
    <3>1. PICK retries : retries = s.retries - 1 OBVIOUS
    <3>2. retries \in Nat /\ retries <= s.retries BY <1>4, <2>1, <3>1
    <3>3. [s EXCEPT !.retries = @ - 1] =
            Amended(s, s.evidence, retries, "RUNNING", s.hypothesis, s.confidence)
      BY <1>2, <1>3, <3>1 DEF CkptStates, Amended
    <3> QED BY <2>1, <3>2, <3>3
  <2>2. CASE Update(p, Charged([s EXCEPT !.status = "FAILED"]))
    <3>1. [s EXCEPT !.status = "FAILED"] =
            Amended(s, s.evidence, s.retries, "FAILED", s.hypothesis, s.confidence)
      BY <1>3 DEF CkptStates, Amended
    <3>2. s.retries <= s.retries BY <1>4
    <3> QED BY <1>4, <2>2, <3>1, <3>2
  <2> QED BY <1>1, <2>1, <2>2 DEF ReadTimesOut
<1>6. status \in RunStatuses BY <1>5 DEF RunStatuses
<1>7. /\ e \in CkptStates /\ e.evidence = s.evidence /\ e.retries = retries /\ e.status = status
      /\ e.done = s.done /\ e.calls = s.calls /\ e.budget = s.budget
      /\ e.proposal = s.proposal /\ e.audit = s.audit /\ e.operation = s.operation
      /\ e.mode = s.mode /\ e.last = s.last
  BY <1>3, <1>4, <1>5, <1>6, ChangedIs
<1>8. PICK m : m = Charged(e) OBVIOUS
<1>9. /\ m \in CkptStates /\ m.calls = s.calls + 1 /\ m.calls + m.budget = s.calls + s.budget
      /\ m.done = s.done /\ m.evidence = s.evidence /\ m.retries = retries /\ m.proposal = s.proposal
      /\ m.audit = s.audit /\ m.operation = s.operation /\ m.status = status
      /\ m.mode = s.mode /\ m.last = s.last
  BY <1>2, <1>7, <1>8, ChargedIs
<1>10. Works(s, m) BY <1>3, <1>5, <1>9 DEF Works
<1> QED BY <1>1, <1>2, <1>5, <1>8, <1>10, UpdateFits

\* Refusals, new evidence, hypotheses and cancellations.
LEMMA ChangeFits ==
    ASSUME CkptInvariant, NEW p \in Runtimes, NEW s, s = runtime[p].state, Ready(p),
           NEW known \in SUBSET EvidenceSources, s.evidence \subseteq known,
           NEW status \in RunStatuses,
           status = "APPROVED_FOR_EXECUTION" => s.status = "APPROVED_FOR_EXECUTION",
           NEW hypothesis \in BOOLEAN, NEW confidence \in Nat, NEW from \in CkptStates,
           from = s \/ from = Completed(s, "form-hypothesis"), NEW m,
           m = Amended(from, known, s.retries, status, hypothesis, confidence),
           Update(p, m)
    PROVE  CkptInvariant'
<1>1. s \in CkptStates /\ (s.proposal # NoProposal => s.proposal.operation = s.operation)
  BY ReadyFits DEF Fit, Good
<1>2. "form-hypothesis" \in Nodes /\ "form-hypothesis" \notin Reads BY NoReads
<1>3. /\ from.done \in {s.done, s.done \cup {"form-hypothesis"}} /\ from.calls = s.calls
      /\ from.budget = s.budget /\ from.proposal = s.proposal /\ from.audit = s.audit
      /\ from.operation = s.operation /\ from.mode = s.mode /\ from.last = s.last
  BY <1>1, <1>2, CompletedIs
<1>4. s.retries \in Nat BY <1>1 DEF CkptStates
<1>5. /\ m \in CkptStates /\ m.evidence = known /\ m.retries = s.retries /\ m.status = status
      /\ m.done = from.done /\ m.calls = from.calls /\ m.budget = from.budget
      /\ m.proposal = from.proposal /\ m.audit = from.audit /\ m.operation = from.operation
      /\ m.mode = from.mode /\ m.last = from.last
  BY <1>4, ChangedIs
<1>6. /\ m \in CkptStates /\ m.mode = s.mode /\ m.last = s.last /\ m.audit = s.audit
      /\ s.evidence \subseteq m.evidence /\ m.retries = s.retries /\ m.calls = s.calls
      /\ m.budget = s.budget /\ m.proposal = s.proposal /\ m.operation = s.operation
      /\ m.status = status /\ m.done = from.done
  BY <1>3, <1>5
<1>7. m.done \in {s.done, s.done \cup {"form-hypothesis"}} BY <1>3, <1>6
<1>8. m.proposal # NoProposal => m.proposal.operation = m.operation BY <1>1, <1>6
<1>9. m.status = "APPROVED_FOR_EXECUTION" =>
        s.status = "APPROVED_FOR_EXECUTION" /\ m.operation = s.operation
  BY <1>6
<1>10. Works(s, m) BY <1>2, <1>6, <1>7, <1>8, <1>9, FreeWorks
<1> QED BY <1>10, UpdateFits

LEMMA ChangesFit ==
    ASSUME CkptInvariant, NEW p \in Runtimes,
           \/ \E node \in Reads : ReadIsRefused(p, node)
           \/ AddEvidence(p) \/ FormHypothesis(p) \/ Cancel(p)
    PROVE  CkptInvariant'
<1>1. PICK s : s = runtime[p].state OBVIOUS
<1>2. Ready(p) BY DEF ReadIsRefused, Open, AddEvidence, FormHypothesis, Cancel
<1>3. s \in CkptStates BY <1>1, <1>2, ReadyFits
<1>4. /\ s.evidence \in SUBSET EvidenceSources /\ s.retries \in Nat /\ s.hypothesis \in BOOLEAN
      /\ s.confidence \in Nat /\ s.status \in RunStatuses
  BY <1>3 DEF CkptStates
<1>5. {"BUDGET_EXHAUSTED", "CANCELLED", "NEEDS_HUMAN_REVIEW"} \subseteq RunStatuses BY DEF RunStatuses
<1>6. ASSUME NEW node \in Reads, ReadIsRefused(p, node) PROVE CkptInvariant'
  <2>1. PICK m : m = [s EXCEPT !.status = "BUDGET_EXHAUSTED"] OBVIOUS
  <2>2. Update(p, m) BY <1>1, <1>6, <2>1 DEF ReadIsRefused
  <2>3. m = Amended(s, s.evidence, s.retries, "BUDGET_EXHAUSTED", s.hypothesis, s.confidence)
    BY <1>3, <2>1 DEF CkptStates, Amended
  <2> QED BY <1>1, <1>2, <1>3, <1>4, <1>5, <2>2, <2>3, ChangeFits
<1>7. ASSUME Cancel(p) PROVE CkptInvariant'
  <2>1. PICK m : m = [s EXCEPT !.status = "CANCELLED"] OBVIOUS
  <2>2. Update(p, m) BY <1>1, <1>7, <2>1 DEF Cancel
  <2>3. m = Amended(s, s.evidence, s.retries, "CANCELLED", s.hypothesis, s.confidence)
    BY <1>3, <2>1 DEF CkptStates, Amended
  <2> QED BY <1>1, <1>2, <1>3, <1>4, <1>5, <2>2, <2>3, ChangeFits
<1>8. ASSUME AddEvidence(p) PROVE CkptInvariant'
  <2>1. PICK known : known = s.evidence \cup {"cache-monitor"} OBVIOUS
  <2>2. known \in SUBSET EvidenceSources /\ s.evidence \subseteq known
    BY <1>4, <2>1 DEF EvidenceSources
  <2>3. PICK m : m = [s EXCEPT !.evidence = @ \cup {"cache-monitor"}] OBVIOUS
  <2>4. Update(p, m) BY <1>1, <1>8, <2>3 DEF AddEvidence
  <2>5. m = Amended(s, known, s.retries, s.status, s.hypothesis, s.confidence)
    BY <1>3, <2>1, <2>3 DEF CkptStates, Amended
  <2> QED BY <1>1, <1>2, <1>3, <1>4, <2>2, <2>4, <2>5, ChangeFits
<1>9. ASSUME FormHypothesis(p) PROVE CkptInvariant'
  <2>1. PICK from : from = Completed(s, "form-hypothesis") OBVIOUS
  <2>2. "form-hypothesis" \in Nodes BY NoReads
  <2>3. /\ from \in CkptStates /\ from.evidence = s.evidence /\ from.retries = s.retries
        /\ from.status = s.status /\ from.hypothesis = s.hypothesis /\ from.confidence = s.confidence
    BY <1>3, <2>1, <2>2, CompletedIs
  <2>4. PICK count : count = Support(from.evidence) OBVIOUS
  <2>5. count \in Nat
    <3>1. IsFiniteSet({"read-logs"} \cup {"read-deployment"}) BY FS_Singleton, FS_Union
    <3>2. from.evidence \cap {"read-logs", "read-deployment"}
            \subseteq {"read-logs"} \cup {"read-deployment"}
      OBVIOUS
    <3>3. IsFiniteSet(from.evidence \cap {"read-logs", "read-deployment"}) BY <3>1, <3>2, FS_Subset
    <3> QED BY <2>4, <3>3, FS_CardinalityType DEF Support
  <2>6. CASE Update(p, [from EXCEPT !.status = "NEEDS_HUMAN_REVIEW"])
    <3>1. PICK m : m = [from EXCEPT !.status = "NEEDS_HUMAN_REVIEW"] OBVIOUS
    <3>2. m = Amended(from, s.evidence, s.retries, "NEEDS_HUMAN_REVIEW", s.hypothesis, s.confidence)
      BY <2>3, <3>1 DEF CkptStates, Amended
    <3>3. Update(p, m) BY <2>6, <3>1
    <3> QED BY <1>1, <1>2, <1>4, <1>5, <2>1, <2>3, <3>2, <3>3, ChangeFits
  <2>7. CASE Update(p, [from EXCEPT !.hypothesis = count > 0, !.confidence = count])
    <3>1. PICK found : found = (count > 0) OBVIOUS
    <3>2. PICK m : m = [from EXCEPT !.hypothesis = found, !.confidence = count] OBVIOUS
    <3>3. m = Amended(from, s.evidence, s.retries, s.status, found, count)
      BY <2>3, <3>2 DEF CkptStates, Amended
    <3>4. Update(p, m) BY <2>7, <3>1, <3>2
    <3>5. found \in BOOLEAN BY <3>1
    <3> QED BY <1>1, <1>2, <1>4, <2>1, <2>3, <2>5, <3>3, <3>4, <3>5, ChangeFits
  <2> QED BY <1>1, <1>9, <2>1, <2>4, <2>6, <2>7 DEF FormHypothesis
<1> QED BY <1>6, <1>7, <1>8, <1>9

LEMMA PrepareFits ==
    ASSUME CkptInvariant, NEW p \in Runtimes, PrepareProposal(p)
    PROVE  CkptInvariant'
<1>1. PICK s : s = runtime[p].state OBVIOUS
<1>2. Ready(p) BY DEF PrepareProposal
<1>3. s \in CkptStates /\ s.operation \in Targets BY <1>1, <1>2, ReadyFits DEF CkptStates
<1>4. PICK proposal : proposal = [target |-> TheTarget, made |-> 0, expires |-> 1,
                                 operation |-> s.operation]
  OBVIOUS
<1>5. TheTarget \in Targets BY CkptAssumption DEF TheTarget
<1>6. proposal \in Marked /\ proposal.operation = s.operation BY <1>3, <1>4, <1>5 DEF Marked
<1>7. PICK e : e = Proposed(s, proposal, "INTERRUPTED") OBVIOUS
<1>8. "INTERRUPTED" \in RunStatuses BY DEF RunStatuses
<1>9. /\ e \in CkptStates /\ e.proposal = proposal /\ e.operation = s.operation
      /\ e.status = "INTERRUPTED" /\ e.done = s.done /\ e.evidence = s.evidence
      /\ e.calls = s.calls /\ e.budget = s.budget /\ e.retries = s.retries /\ e.audit = s.audit
      /\ e.mode = s.mode /\ e.last = s.last
  BY <1>3, <1>6, <1>7, <1>8, ProposesIs
<1>10. PICK m : m = Completed(e, "prepare-proposal") OBVIOUS
<1>11. "prepare-proposal" \in Nodes /\ "prepare-proposal" \notin Reads BY NoReads
<1>12. /\ m \in CkptStates /\ m.done = e.done \cup {"prepare-proposal"}
       /\ m.evidence = e.evidence /\ m.calls = e.calls /\ m.budget = e.budget
       /\ m.retries = e.retries /\ m.proposal = e.proposal /\ m.audit = e.audit
       /\ m.operation = e.operation /\ m.status = e.status /\ m.mode = e.mode /\ m.last = e.last
  BY <1>9, <1>10, <1>11, CompletedIs
<1>13. /\ m.mode = s.mode /\ m.last = s.last /\ m.audit = s.audit
       /\ m.done \in {s.done, s.done \cup {"prepare-proposal"}} /\ s.evidence \subseteq m.evidence
       /\ m.retries = s.retries /\ m.calls = s.calls /\ m.budget = s.budget
       /\ (m.proposal # NoProposal => m.proposal.operation = m.operation)
       /\ m.status # "APPROVED_FOR_EXECUTION"
  BY <1>6, <1>9, <1>12
<1>14. Works(s, m) BY <1>11, <1>12, <1>13, FreeWorks
<1>15. Update(p, m) BY <1>1, <1>4, <1>7, <1>10 DEF PrepareProposal, Proposed
<1> QED BY <1>1, <1>2, <1>14, <1>15, UpdateFits

LEMMA ReviseFits ==
    ASSUME CkptInvariant, NEW p \in Runtimes, NEW target \in Targets, ReviseProposal(p, target)
    PROVE  CkptInvariant'
<1>1. PICK s : s = runtime[p].state OBVIOUS
<1>2. Ready(p) /\ s.status = "INTERRUPTED" BY <1>1 DEF ReviseProposal
<1>3. s \in CkptStates BY <1>1, <1>2, ReadyFits
<1>4. PICK proposal : proposal = [target |-> target, operation |-> target, made |-> clock,
                                 expires |-> clock + 1]
  OBVIOUS
<1>5. clock \in Nat BY DEF CkptInvariant, VotesFit
<1>6. proposal \in Marked /\ proposal.operation = target BY <1>4, <1>5 DEF Marked
<1>7. PICK m : m = Proposes(s, proposal) OBVIOUS
<1>8. m = Proposed(s, proposal, "INTERRUPTED")
  BY <1>2, <1>3, <1>7 DEF Proposes, Proposed, CkptStates
<1>9. "INTERRUPTED" \in RunStatuses BY DEF RunStatuses
<1>10. /\ m \in CkptStates /\ m.proposal = proposal /\ m.operation = target
       /\ m.status = "INTERRUPTED" /\ m.done = s.done /\ m.evidence = s.evidence
       /\ m.calls = s.calls /\ m.budget = s.budget /\ m.retries = s.retries /\ m.audit = s.audit
       /\ m.mode = s.mode /\ m.last = s.last
  BY <1>3, <1>6, <1>8, <1>9, ProposesIs
<1>11. "prepare-proposal" \notin Reads BY NoReads
<1>12. /\ m.done \in {s.done, s.done \cup {"prepare-proposal"}} /\ s.evidence \subseteq m.evidence
       /\ (m.proposal # NoProposal => m.proposal.operation = m.operation)
       /\ m.status # "APPROVED_FOR_EXECUTION"
  BY <1>6, <1>10
<1>13. Works(s, m) BY <1>10, <1>11, <1>12, FreeWorks
<1>14. Update(p, m) BY <1>1, <1>4, <1>7 DEF ReviseProposal
<1> QED BY <1>1, <1>2, <1>13, <1>14, UpdateFits

LEMMA StartFits ==
    ASSUME CkptInvariant, NEW p \in Runtimes, Start(p)
    PROVE  CkptInvariant'
<1>1. TheTarget \in Targets BY CkptAssumption DEF TheTarget
<1>2. FirstState \in CkptStates
  BY <1>1, CkptAssumption DEF FirstState, CkptStates, Marked, RunStatuses
<1>3. Good(FirstState, "incident", decisions)
  <2>1. IsFiniteSet({}) BY FS_EmptySet
  <2>2. 0 + ToolBudget = ToolBudget BY CkptAssumption
  <2> QED BY <1>2, <2>1, <2>2 DEF Good, FirstState
<1>4. FirstState.last = 0 /\ inserted \in Nat BY DEF FirstState, CkptInvariant, TableFits
<1>5. \A q \in rows : q.id # FirstState.last BY <1>4 DEF CkptInvariant, TableFits
<1>6. FirstState.last <= inserted BY <1>4
<1>7. Fit(FirstState, "incident", rows, decisions, inserted) BY <1>3, <1>5, <1>6 DEF Fit
<1>8. PICK s, seq : s = FirstState /\ seq = NextSequence("incident") OBVIOUS
<1>9. /\ runtime' = [runtime EXCEPT ![p] = [thread |-> "incident", state |-> s, seq |-> seq]]
      /\ UNCHANGED <<rows, tombstones, inserted, decisions, commits, clock>>
  BY <1>8 DEF Start, Becomes
<1>10. "incident" \in ThreadIds BY DEF ThreadIds
<1> QED BY <1>7, <1>8, <1>9, <1>10, BecomesFits

\* The rows a runtime loads are of its thread and in order.
LEMMA LoadedFits ==
    ASSUME CkptInvariant, NEW lane, NEW row \in Newest(lane)
    PROVE  row \in rows /\ row.thread = lane /\ Fit(row.state, lane, rows, decisions, inserted)
<1>1. row \in rows /\ row.thread = lane BY DEF Newest, Of
<1> QED BY <1>1 DEF CkptInvariant, TableFits

LEMMA ResumeFits ==
    ASSUME CkptInvariant, NEW p \in Runtimes, NEW lane \in ThreadIds, Resume(p, lane)
    PROVE  CkptInvariant'
<1>1. PICK row \in Newest(lane) :
        /\ runtime' = [runtime EXCEPT ![p] = [thread |-> lane, state |-> row.state, seq |-> 0]]
        /\ UNCHANGED <<rows, tombstones, inserted, decisions, commits, clock>>
  BY DEF Resume
<1>2. Fit(row.state, lane, rows, decisions, inserted) BY LoadedFits
<1> QED BY <1>1, <1>2, BecomesFits

LEMMA SaveFailsFits ==
    ASSUME CkptInvariant, NEW p \in Runtimes, SaveFails(p)
    PROVE  CkptInvariant'
<1>1. PICK lane, state : lane = runtime[p].thread /\ state = runtime[p].state OBVIOUS
<1>2. /\ runtime = [other \in Runtimes |-> runtime[other]]
      /\ runtime[p] = [thread |-> lane, state |-> state, seq |-> runtime[p].seq]
      /\ lane \in ThreadIds /\ runtime[p].seq # 0
      /\ \/ state = NoState /\ runtime[p].seq = 0
         \/ Fit(state, lane, rows, decisions, inserted)
  BY <1>1 DEF CkptInvariant, RuntimesFit, SaveFails
<1>3. PICK saved : saved = [thread |-> lane, state |-> state, seq |-> 0] OBVIOUS
<1>4. saved = [runtime[p] EXCEPT !.seq = 0] BY <1>2, <1>3
<1>5. runtime' = [runtime EXCEPT ![p] = [runtime[p] EXCEPT !.seq = 0]] BY Zenon DEF SaveFails
<1>6. runtime' = [runtime EXCEPT ![p] = saved] BY <1>4, <1>5
<1>7. UNCHANGED <<rows, tombstones, inserted, decisions, commits, clock>> BY DEF SaveFails
<1> QED BY <1>2, <1>3, <1>6, <1>7, BecomesFits

LEMMA CrashFits ==
    ASSUME CkptInvariant, NEW p \in Runtimes, Crash(p)
    PROVE  CkptInvariant'
<1>1. "incident" \in ThreadIds BY DEF ThreadIds
<1>2. runtime' = [runtime EXCEPT ![p] = [thread |-> "incident", state |-> NoState, seq |-> 0]]
  BY DEF Crash, NoRuntime
<1>3. UNCHANGED <<rows, tombstones, inserted, decisions, commits, clock>> BY DEF Crash
<1> QED BY <1>1, <1>2, <1>3, BecomesFits

\* The approval is a person's, of the proposal of the row it was loaded from.
LEMMA ApprovalFits ==
    ASSUME CkptInvariant, NEW p \in Runtimes, NEW lane \in ThreadIds, NEW d \in decisions,
           ResumeWithApproval(p, lane, d)
    PROVE  CkptInvariant'
<1>1. PICK row \in Newest(lane) :
        Valid(row.state, d) /\ Becomes(p, lane, ApprovedState(row.state))
  BY DEF ResumeWithApproval
<1>2. row \in rows /\ Fit(row.state, lane, rows, decisions, inserted) BY LoadedFits
<1>3. PICK s : s = row.state OBVIOUS
<1>4. /\ s \in CkptStates /\ IsFiniteSet(s.done) /\ s.calls + s.budget = ToolBudget
      /\ (s.proposal # NoProposal => s.proposal.operation = s.operation)
      /\ (lane = "fork" => s.mode = "REPLAY") /\ s.last <= inserted
  BY <1>2, <1>3 DEF Fit, Good
<1>5. /\ s.status = "INTERRUPTED" /\ s.proposal # NoProposal /\ d.proposal = s.proposal
      /\ d.at >= s.proposal.made /\ d.at <= s.proposal.expires /\ d.approves
  BY <1>1, <1>3 DEF Valid
<1>6. PICK e : e = [s EXCEPT !.proposal = NoProposal, !.audit = s.proposal,
                            !.status = "APPROVED_FOR_EXECUTION"]
  OBVIOUS
<1>7. e \in CkptStates
  <2>1. PICK proposal : proposal = s.proposal OBVIOUS
  <2>2. proposal \in Marked /\ NoProposal \in Marked /\ "APPROVED_FOR_EXECUTION" \in RunStatuses
    BY <1>4, <2>1 DEF CkptStates, Marked, RunStatuses
  <2>3. PICK none : none = NoProposal OBVIOUS
  <2>4. [s EXCEPT !.proposal = none, !.audit = proposal, !.status = "APPROVED_FOR_EXECUTION"]
          \in CkptStates
    BY <1>4, <2>2, <2>3 DEF CkptStates
  <2> QED BY <1>6, <2>1, <2>3, <2>4, Zenon
<1>8. /\ e.proposal = NoProposal /\ e.audit = s.proposal /\ e.status = "APPROVED_FOR_EXECUTION"
      /\ e.done = s.done /\ e.evidence = s.evidence /\ e.calls = s.calls /\ e.budget = s.budget
      /\ e.retries = s.retries /\ e.operation = s.operation /\ e.mode = s.mode /\ e.last = s.last
  BY <1>4, <1>6 DEF CkptStates
<1>9. PICK m : m = Completed(e, "approval-validated") OBVIOUS
<1>10. "approval-validated" \in Nodes /\ "approval-validated" \notin Reads BY NoReads
<1>11. /\ m \in CkptStates /\ m.done = s.done \cup {"approval-validated"}
       /\ m.evidence = s.evidence /\ m.calls = s.calls /\ m.budget = s.budget
       /\ m.retries = s.retries /\ m.proposal = NoProposal /\ m.audit = s.proposal
       /\ m.operation = s.operation /\ m.status = "APPROVED_FOR_EXECUTION"
       /\ m.mode = s.mode /\ m.last = s.last
  BY <1>7, <1>8, <1>9, <1>10, CompletedIs
<1>12. Good(m, lane, decisions)
  <2>1. d.at \in s.proposal.made .. s.proposal.expires
    <3>1. d.at \in Nat BY DEF CkptInvariant, VotesFit
    <3>2. s.proposal.made \in Nat /\ s.proposal.expires \in Nat
      BY <1>4 DEF CkptStates, Marked, NoProposal
    <3> QED BY <1>5, <3>1, <3>2
  <2>2. ApprovedBy(m.audit, m.operation, decisions) BY <1>4, <1>5, <1>11, <2>1 DEF ApprovedBy
  <2>3. IsFiniteSet(m.done)
    <3>1. IsFiniteSet({"approval-validated"}) BY FS_Singleton
    <3>2. IsFiniteSet(s.done \cup {"approval-validated"}) BY <1>4, <3>1, FS_Union
    <3>3. m.done = s.done \cup {"approval-validated"} BY <1>11
    <3> QED BY <3>2, <3>3
  <2>4. m.calls + m.budget = ToolBudget BY <1>4, <1>11
  <2> QED BY <1>4, <1>11, <2>2, <2>3, <2>4 DEF Good
<1>13. Follows(s, m)
  <2>1. (m.done \ s.done) \cap Reads = {} BY <1>10, <1>11
  <2>2. s.calls \in Nat /\ s.retries \in Nat BY <1>4 DEF CkptStates
  <2>3. m.calls - s.calls >= Cardinality((m.done \ s.done) \cap Reads)
    <3>1. Cardinality({}) = 0 BY FS_EmptySet
    <3>2. m.calls - s.calls >= 0 BY <1>11, <2>2
    <3> QED BY <2>1, <3>1, <3>2
  <2>4. m.retries <= s.retries BY <1>11, <2>2
  <2>5. s.done \subseteq m.done /\ s.evidence \subseteq m.evidence BY <1>11
  <2> QED BY <1>5, <1>11, <2>3, <2>4, <2>5 DEF Follows, CarriesOn, AuditFollows
<1>14. Fit(m, lane, rows, decisions, inserted)
  <2>1. row.state.last = row.id /\ \A q \in rows : q.id = row.id => q = row
    BY <1>2 DEF CkptInvariant, TableFits
  <2>2. \A q \in rows : q.id = m.last => Follows(q.state, m) BY <1>3, <1>11, <1>13, <2>1
  <2>3. m.last <= inserted BY <1>4, <1>11
  <2> QED BY <1>12, <2>2, <2>3 DEF Fit
<1>15. PICK seq : seq = NextSequence(lane) OBVIOUS
<1>16. m = ApprovedState(row.state) BY <1>3, <1>6, <1>9 DEF ApprovedState
<1>17. /\ runtime' = [runtime EXCEPT ![p] = [thread |-> lane, state |-> m, seq |-> seq]]
       /\ UNCHANGED <<rows, tombstones, inserted, decisions, commits, clock>>
  BY <1>1, <1>15, <1>16 DEF Becomes
<1> QED BY <1>14, <1>17, BecomesFits

(* ---------------------------- rows that come --------------------------- *)

\* The runtimes that keep what they hold are still in order.
LEMMA RuntimesStay ==
    ASSUME RuntimesFit, runtime' = runtime,
           \A s, lane : Fit(s, lane, rows, decisions, inserted)
                            => Fit(s, lane, rows', decisions', inserted')
    PROVE  RuntimesFit'
BY DEF RuntimesFit

Numbered(s, n) == [s EXCEPT !.last = n]

LEMMA NumberedIs ==
    ASSUME NEW s \in CkptStates, NEW n \in Nat, NEW m, m = Numbered(s, n)
    PROVE  /\ m \in CkptStates /\ m.last = n
           /\ m.done = s.done /\ m.evidence = s.evidence /\ m.calls = s.calls
           /\ m.budget = s.budget /\ m.retries = s.retries /\ m.proposal = s.proposal
           /\ m.audit = s.audit /\ m.operation = s.operation /\ m.status = s.status
           /\ m.mode = s.mode
<1>1. [s EXCEPT !.last = n] \in CkptStates BY DEF CkptStates
<1>2. m \in CkptStates BY <1>1, Zenon DEF Numbered
<1> QED BY <1>2 DEF CkptStates, Numbered

LEMMA SaveFits ==
    ASSUME CkptInvariant, NEW p \in Runtimes, Save(p)
    PROVE  CkptInvariant'
<1>1. PICK lane, s, seq : lane = runtime[p].thread /\ s = runtime[p].state /\ seq = runtime[p].seq
  OBVIOUS
<1>2. /\ runtime = [other \in Runtimes |-> runtime[other]]
      /\ runtime[p] = [thread |-> lane, state |-> s, seq |-> seq]
      /\ lane \in ThreadIds /\ seq # 0
      /\ \/ s = NoState /\ seq = 0
         \/ Fit(s, lane, rows, decisions, inserted)
  BY <1>1 DEF CkptInvariant, RuntimesFit, Save
<1>3. /\ s \in CkptStates /\ Good(s, lane, decisions) /\ s.last \in Nat /\ s.last <= inserted
      /\ \A q \in rows : q.id = s.last => Follows(q.state, s)
  BY <1>2 DEF Fit, Good, CkptStates
<1>4. inserted + 1 \in Nat BY DEF CkptInvariant, TableFits
<1>5. PICK m : m = Numbered(s, inserted + 1) OBVIOUS
<1>6. /\ m \in CkptStates /\ m.last = inserted + 1
      /\ m.done = s.done /\ m.evidence = s.evidence /\ m.calls = s.calls
      /\ m.budget = s.budget /\ m.retries = s.retries /\ m.proposal = s.proposal
      /\ m.audit = s.audit /\ m.operation = s.operation /\ m.status = s.status
      /\ m.mode = s.mode
  <2>1. PICK n \in Nat : n = inserted + 1 BY <1>4
  <2>2. s \in CkptStates /\ m = Numbered(s, n) BY <1>3, <1>5, <2>1
  <2>3. /\ m \in CkptStates /\ m.last = n
        /\ m.done = s.done /\ m.evidence = s.evidence /\ m.calls = s.calls
        /\ m.budget = s.budget /\ m.retries = s.retries /\ m.proposal = s.proposal
        /\ m.audit = s.audit /\ m.operation = s.operation /\ m.status = s.status
        /\ m.mode = s.mode
    BY <2>2, NumberedIs
  <2> QED BY <2>1, <2>3
<1>7. PICK row : row = Row(lane, seq, s.last, s) OBVIOUS
<1>8. /\ row.id = inserted + 1 /\ row.parent = s.last /\ row.thread = lane /\ row.state = m
  BY <1>5, <1>7 DEF Row, Numbered
<1>9. Good(row.state, row.thread, decisions) BY <1>3, <1>6, <1>8 DEF Good
<1>10. \A q \in rows : q.id = row.parent => Follows(q.state, row.state)
  <2>1. \A old : Follows(old, s) => Follows(old, m)
    BY <1>6 DEF Follows, CarriesOn, AuditFollows
  <2> QED BY <1>3, <1>8, <2>1
<1>11. Insert(row) /\ UNCHANGED <<tombstones, decisions, commits, clock>>
  BY <1>1, <1>7 DEF Save
<1>12. /\ TableFits' /\ Fit(row.state, row.thread, rows', decisions', inserted')
       /\ \A old, other : Fit(old, other, rows, decisions, inserted)
                            => Fit(old, other, rows', decisions', inserted')
  <2>1. TableFits /\ VotesFit BY DEF CkptInvariant
  <2>2. row.parent \in Nat /\ row.parent <= inserted /\ row.thread \in ThreadIds BY <1>2, <1>3, <1>8
  <2>3. row.id = inserted + 1 /\ row.state.last = row.id BY <1>6, <1>8
  <2> QED BY <1>9, <1>10, <1>11, <2>1, <2>2, <2>3, InsertFits
<1>13. RuntimesFit'
  <2>1. PICK saved : saved = [thread |-> lane, state |-> m, seq |-> 0] OBVIOUS
  <2>2. runtime' = [runtime EXCEPT ![p].state = m, ![p].seq = 0] BY <1>1, <1>7, <1>8 DEF Save
  <2>3. runtime' = [runtime EXCEPT ![p] = saved]
    <3>1. runtime' = [other \in Runtimes |-> runtime'[other]] BY <1>2, <2>2
    <3>2. \A other \in Runtimes \ {p} : runtime'[other] = runtime[other] BY <1>2, <2>2
    <3>3. runtime'[p] = [runtime[p] EXCEPT !.state = m, !.seq = 0] BY <1>2, <2>2
    <3>4. [runtime[p] EXCEPT !.state = m, !.seq = 0] = saved
      <4>1. PICK old : old = runtime[p] OBVIOUS
      <4>2. old = [thread |-> lane, state |-> s, seq |-> seq] BY <1>2, <4>1
      <4>3. old \in [thread : {lane}, state : {s, m}, seq : {seq, 0}] BY <4>2
      <4>4. PICK new : new = [old EXCEPT !.state = m, !.seq = 0] OBVIOUS
      <4>5. new \in [thread : {lane}, state : {s, m}, seq : {seq, 0}] BY <4>3, <4>4
      <4>6. new.thread = lane /\ new.state = m /\ new.seq = 0 BY <4>3, <4>4
      <4>7. new = [thread |-> new.thread, state |-> new.state, seq |-> new.seq] BY <4>5
      <4> QED BY <2>1, <4>1, <4>4, <4>6, <4>7
    <3> QED BY <1>2, <3>1, <3>2, <3>3, <3>4
  <2>4. /\ runtime' = [other \in Runtimes |-> runtime'[other]] /\ runtime'[p] = saved
        /\ \A other \in Runtimes \ {p} : runtime'[other] = runtime[other]
    BY <1>2, <2>3
  <2>5. ASSUME NEW other \in Runtimes
        PROVE  /\ runtime'[other] = [thread |-> runtime'[other].thread,
                                     state |-> runtime'[other].state, seq |-> runtime'[other].seq]
               /\ runtime'[other].thread \in ThreadIds
               /\ \/ runtime'[other].state = NoState /\ runtime'[other].seq = 0
                  \/ Fit(runtime'[other].state, runtime'[other].thread, rows', decisions', inserted')
    <3>1. CASE other = p BY <1>2, <1>8, <1>12, <2>1, <2>4, <3>1
    <3>2. CASE other # p
      <4>1. runtime'[other] = runtime[other] BY <2>4, <3>2
      <4>2. /\ runtime[other] = [thread |-> runtime[other].thread, state |-> runtime[other].state,
                                 seq |-> runtime[other].seq]
            /\ runtime[other].thread \in ThreadIds
            /\ \/ runtime[other].state = NoState /\ runtime[other].seq = 0
               \/ Fit(runtime[other].state, runtime[other].thread, rows, decisions, inserted)
        BY DEF CkptInvariant, RuntimesFit
      <4> QED BY <1>12, <4>1, <4>2
    <3> QED BY <3>1, <3>2
  <2> QED BY <2>4, <2>5 DEF RuntimesFit
<1>14. VotesFit' BY <1>11 DEF CkptInvariant, VotesFit
<1> QED BY <1>12, <1>13, <1>14 DEF CkptInvariant

LEMMA ForkFits ==
    ASSUME CkptInvariant, NEW from \in rows, Fork(from)
    PROVE  CkptInvariant'
<1>1. PICK s : s = from.state OBVIOUS
<1>2. /\ from.id \in Nat /\ from.id <= inserted /\ s \in CkptStates /\ IsFiniteSet(s.done)
      /\ s.calls + s.budget = ToolBudget /\ \A q \in rows : q.id = from.id => q = from
  BY <1>1 DEF CkptInvariant, TableFits, Fit, Good
<1>3. PICK e : e = [s EXCEPT !.mode = "REPLAY", !.proposal = NoProposal, !.audit = NoProposal,
                            !.status = "RUNNING", !.last = 0]
  OBVIOUS
<1>4. e \in CkptStates
  <2>1. PICK none : none = NoProposal OBVIOUS
  <2>2. none \in Marked /\ "RUNNING" \in RunStatuses BY <2>1 DEF Marked, RunStatuses
  <2>3. [s EXCEPT !.mode = "REPLAY", !.proposal = none, !.audit = none, !.status = "RUNNING",
                  !.last = 0] \in CkptStates
    BY <1>2, <2>2 DEF CkptStates
  <2> QED BY <1>3, <2>1, <2>3, Zenon
<1>5. /\ e.mode = "REPLAY" /\ e.proposal = NoProposal /\ e.audit = NoProposal
      /\ e.status = "RUNNING" /\ e.done = s.done /\ e.evidence = s.evidence /\ e.calls = s.calls
      /\ e.budget = s.budget /\ e.retries = s.retries
  BY <1>2, <1>3 DEF CkptStates
<1>6. inserted + 1 \in Nat BY DEF CkptInvariant, TableFits
<1>7. PICK m : m = Numbered(e, inserted + 1) OBVIOUS
<1>8. /\ m \in CkptStates /\ m.last = inserted + 1 /\ m.mode = "REPLAY" /\ m.proposal = NoProposal
      /\ m.audit = NoProposal /\ m.status = "RUNNING" /\ m.done = s.done
      /\ m.evidence = s.evidence /\ m.calls = s.calls /\ m.budget = s.budget
      /\ m.retries = s.retries
  BY <1>4, <1>5, <1>6, <1>7, NumberedIs
<1>9. PICK row : row = Row("fork", NextSequence("fork"), from.id, e) OBVIOUS
<1>10. row.id = inserted + 1 /\ row.parent = from.id /\ row.thread = "fork" /\ row.state = m
  BY <1>7, <1>9 DEF Row, Numbered
<1>11. Good(row.state, row.thread, decisions) BY <1>2, <1>8, <1>10 DEF Good
<1>12. \A q \in rows : q.id = row.parent => Follows(q.state, row.state)
  <2>1. Follows(s, s) BY <1>2, FollowsItself
  <2>2. Follows(s, m) BY <1>8, <2>1 DEF Follows, CarriesOn, AuditFollows
  <2> QED BY <1>1, <1>2, <1>10, <2>2
<1>13. Insert(row) /\ UNCHANGED <<tombstones, runtime, decisions, commits, clock>>
  BY <1>1, <1>3, <1>9 DEF Fork
<1>14. /\ TableFits'
       /\ \A old, other : Fit(old, other, rows, decisions, inserted)
                            => Fit(old, other, rows', decisions', inserted')
  <2>1. TableFits /\ VotesFit BY DEF CkptInvariant
  <2>2. row.parent \in Nat /\ row.parent <= inserted /\ row.thread \in ThreadIds
    BY <1>2, <1>10 DEF ThreadIds
  <2>3. row.id = inserted + 1 /\ row.state.last = row.id BY <1>8, <1>10
  <2> QED BY <1>11, <1>12, <1>13, <2>1, <2>2, <2>3, InsertFits
<1>15. RuntimesFit' BY <1>13, <1>14, RuntimesStay DEF CkptInvariant
<1>16. VotesFit' BY <1>13 DEF CkptInvariant, VotesFit
<1> QED BY <1>14, <1>15, <1>16 DEF CkptInvariant

(* -------------------------- around the runtime ------------------------- *)

\* Deletion leaves rows and votes; a purge takes rows, a reviewer adds a vote, ...
LEMMA RowsGoVotesCome ==
    ASSUME CkptInvariant, rows' \subseteq rows, decisions \subseteq decisions',
           \A d \in decisions' : d.at \in Nat, clock' \in Nat,
           UNCHANGED <<inserted, runtime, commits>>
    PROVE  CkptInvariant'
<1>1. /\ TableFits'
      /\ \A s, lane : Fit(s, lane, rows, decisions, inserted)
                           => Fit(s, lane, rows', decisions', inserted')
  BY TableStays
<1>2. RuntimesFit' BY <1>1, RuntimesStay DEF CkptInvariant
<1>3. VotesFit' BY DEF CkptInvariant, VotesFit, ApprovedBy
<1> QED BY <1>1, <1>2, <1>3 DEF CkptInvariant

\* ... and what is executed was approved, and is not of a fork.
LEMMA ExecuteFits ==
    ASSUME CkptInvariant, NEW row \in rows, Execute(row)
    PROVE  CkptInvariant'
<1>1. TableFits' /\ RuntimesFit' BY DEF Execute, CkptInvariant, TableFits, RuntimesFit
<1>2. row.thread = "incident" /\ ApprovedBy(row.state.audit, row.state.operation, decisions)
  <2>1. row.thread \in ThreadIds /\ Good(row.state, row.thread, decisions)
    BY DEF CkptInvariant, TableFits, Fit
  <2>2. row.state.status = "APPROVED_FOR_EXECUTION" /\ row.state.mode = "LIVE" BY DEF Execute
  <2> QED BY <2>1, <2>2 DEF Good, ThreadIds
<1>3. VotesFit'
  <2>1. ASSUME NEW c \in commits'
        PROVE  c.thread = "incident" /\ ApprovedBy(c.audit, c.operation, decisions)
    <3>1. c \in commits \/ c = [operation |-> row.state.operation, audit |-> row.state.audit,
                                thread |-> row.thread]
      BY DEF Execute
    <3>2. CASE c \in commits BY <3>2 DEF CkptInvariant, VotesFit
    <3>3. CASE c = [operation |-> row.state.operation, audit |-> row.state.audit,
                    thread |-> row.thread]
      BY <1>2, <3>3
    <3> QED BY <3>1, <3>2, <3>3
  <2>2. decisions' = decisions /\ clock' = clock BY DEF Execute
  <2> QED BY <2>1, <2>2 DEF CkptInvariant, VotesFit
<1> QED BY <1>1, <1>3 DEF CkptInvariant

LEMMA CkptSteps == CkptInvariant /\ [CkptNext]_ckptVars => CkptInvariant'
<1> SUFFICES ASSUME CkptInvariant, [CkptNext]_ckptVars PROVE CkptInvariant' OBVIOUS
<1>1. clock \in Nat /\ \A d \in decisions : d.at \in Nat BY DEF CkptInvariant, VotesFit
<1>2. ASSUME NEW p \in Runtimes, RuntimeStep(p) PROVE CkptInvariant'
  <2>1. CASE Start(p) BY <2>1, StartFits
  <2>2. CASE Save(p) BY <2>2, SaveFits
  <2>3. CASE SaveFails(p) BY <2>3, SaveFailsFits
  <2>4. CASE Crash(p) BY <2>4, CrashFits
  <2>5. CASE ReadTimesOut(p) BY <2>5, TimeoutFits
  <2>6. CASE AddEvidence(p) \/ FormHypothesis(p) \/ Cancel(p) BY <2>6, ChangesFit
  <2>7. CASE PrepareProposal(p) BY <2>7, PrepareFits
  <2>8. ASSUME NEW node \in Reads, Read(p, node) PROVE CkptInvariant' BY <2>8, ReadFits
  <2>9. ASSUME NEW node \in Reads, ReadIsRefused(p, node) PROVE CkptInvariant'
    BY <2>9, ChangesFit
  <2>10. ASSUME NEW target \in Targets, ReviseProposal(p, target) PROVE CkptInvariant'
    BY <2>10, ReviseFits
  <2>11. ASSUME NEW lane \in ThreadIds, Resume(p, lane) PROVE CkptInvariant'
    BY <2>11, ResumeFits
  <2>12. ASSUME NEW lane \in ThreadIds, NEW d \in decisions, ResumeWithApproval(p, lane, d)
         PROVE  CkptInvariant'
    BY <2>12, ApprovalFits
  <2> QED BY <1>2, <2>1, <2>2, <2>3, <2>4, <2>5, <2>6, <2>7, <2>8, <2>9, <2>10, <2>11, <2>12
          DEF RuntimeStep
<1>3. ASSUME NEW row \in rows, Fork(row) PROVE CkptInvariant' BY <1>3, ForkFits
<1>4. ASSUME NEW row \in rows, DeleteCheckpoint(row) PROVE CkptInvariant'
  BY <1>1, <1>4, RowsGoVotesCome DEF DeleteCheckpoint
<1>5. ASSUME NEW row \in rows, Execute(row) PROVE CkptInvariant' BY <1>5, ExecuteFits
<1>6. ASSUME NEW row \in rows, NEW approves \in BOOLEAN, Decide(row.state.proposal, approves)
      PROVE  CkptInvariant'
  <2>1. /\ decisions' = decisions \cup {[proposal |-> row.state.proposal, approves |-> approves,
                                         at |-> clock]}
        /\ UNCHANGED <<rows, inserted, runtime, commits, clock>>
    BY <1>6 DEF Decide
  <2>2. \A d \in decisions' : d.at \in Nat BY <1>1, <2>1
  <2> QED BY <1>1, <2>1, <2>2, RowsGoVotesCome
<1>7. ASSUME NEW lane \in ThreadIds, Purge(lane) PROVE CkptInvariant'
  <2>1. rows' \subseteq rows /\ UNCHANGED <<inserted, runtime, decisions, commits, clock>>
    BY <1>7 DEF Purge
  <2> QED BY <1>1, <2>1, RowsGoVotesCome
<1>8. CASE Tick
  <2>1. clock' \in Nat BY <1>1, <1>8 DEF Tick
  <2> QED BY <1>1, <1>8, <2>1, RowsGoVotesCome DEF Tick
<1>9. CASE UNCHANGED ckptVars BY <1>1, <1>9, RowsGoVotesCome DEF ckptVars
<1> QED BY <1>2, <1>3, <1>4, <1>5, <1>6, <1>7, <1>8, <1>9 DEF CkptNext

\* Along every lineage of checkpoints, whoever crashed, forked, failed to save or worked on a
\* stale copy in between, evidence and completed nodes only grow and completed reads are paid
\* for once, an approval replaces the interrupt of the very proposal, and what is executed a
\* person approved in time and never on a fork (IncidentRuntime, SQLiteCheckpointRepository).
THEOREM CheckpointsCarryOn == CkptSpec => []CheckpointsKeepTheRun
<1>1. CkptInvariant => CheckpointsKeepTheRun
  <2> SUFFICES ASSUME CkptInvariant PROVE CheckpointsKeepTheRun OBVIOUS
  <2>1. WorkIsKept
    BY DEF WorkIsKept, Parents, CkptInvariant, TableFits, Fit, Good, Follows
  <2>2. ApprovalFollowsInterrupt
    BY DEF ApprovalFollowsInterrupt, Parents, CkptInvariant, TableFits, Follows, AuditFollows
  <2>3. \A c \in commits : c.thread = "incident" /\ ApprovedBy(c.audit, c.operation, decisions)
    BY DEF CkptInvariant, VotesFit
  <2>4. CommitsAreApproved BY <2>2, <2>3 DEF CommitsAreApproved, ApprovedBy
  <2> QED BY <2>1, <2>4 DEF CheckpointsKeepTheRun
<1> QED BY <1>1, CkptStarts, CkptSteps, PTL DEF CkptSpec

(***************************************************************************)
(* The memories of an agent (advanced/06).                                 *)
(***************************************************************************)

Payloads == {c.id : c \in Candidates} \cup {c.value : c \in Candidates}
MemoryIds == Keys \X Payloads \X Nat
MemoryRows ==
    [id : MemoryIds, key : Keys, value : Payloads, status : RecordStatuses, version : Nat,
     supersedes : MemoryIds \cup {<<>>}, sources : SUBSET Sources, rank : Nat, trust : {3, 4},
     from : Nat, to : Nat, expires : Nat]

\* A fact of a key with a system of record rests on it; no memory grants authority.
Grounded(m) ==
    /\ ~Policy[m.key].authority
    /\ \/ Policy[m.key].verifier = NoVerifier
       \/ \E s \in m.sources : SourceType[s] = Policy[m.key].verifier
SoundRow(m) == m \in MemoryRows /\ m.id # <<>> /\ Grounded(m)

SameRow(a, b) ==
    /\ a.id = b.id /\ a.key = b.key /\ a.version = b.version /\ a.value = b.value
    /\ a.supersedes = b.supersedes
Precedes(m, a) ==
    /\ m.id = a.supersedes /\ m.key = a.key /\ m.version = a.version - 1 /\ m.value # a.value
    /\ m.status # "ACTIVE"
Unique(table) == \A a, b \in table : a.id = b.id => a = b

\* The rows of the table, copies of them that are or were there, and the ids of rows that are
\* gone: a row that is not gone is there, its copies say the same, it was replaced once,
\* and what replaced it says something else.
Lines(table, copies, gone) ==
    /\ table \subseteq copies /\ Unique(table)
    /\ \A a, b \in table : a.key = b.key /\ a.status = "ACTIVE" /\ b.status = "ACTIVE" => a = b
    /\ \A a \in copies : a.id \notin gone => \E m \in table : m.id = a.id
    /\ \A a, b \in copies : a.id = b.id /\ a.id \notin gone => SameRow(a, b)
    /\ \A a, b \in copies :
          a.supersedes = b.supersedes /\ a.supersedes \notin gone \cup {<<>>} => a.id = b.id
    /\ \A a \in copies :
          a.supersedes \notin gone \cup {<<>>} => \E m \in table : Precedes(m, a)

\* Rows as a deletion or a sweep under way has selected them.
Selected == {d.row : d \in deletion} \cup UNION sweep
Copies == memories \cup Selected

FirstRows == {r \in MemoryRows : SoundRow(r) /\ r.status = "ACTIVE" /\ r.supersedes = <<>>}
WorkerStates ==
    [job : DOMAIN Jobs \cup {NoJob}, written : Seq(MemoryIds), record : SUBSET FirstRows,
     expected : Nat]

MemoryInvariant ==
    /\ Lines(memories, Copies, graves)
    /\ \A a \in Copies : SoundRow(a)
    /\ \A chosen \in sweep : Unique(chosen)
    /\ worker \in [Workers -> WorkerStates] /\ period \in Nat

(* --------------------------- lines of versions ------------------------- *)

\* Rows may be rewritten, also from an old copy, as long as none becomes active.
LEMMA LinesRewritten ==
    ASSUME NEW table, NEW copies, NEW gone, NEW table2, NEW copies2, Lines(table, copies, gone),
           Unique(table2), table2 \subseteq copies2, copies2 \subseteq table2 \cup copies,
           \A n \in table2 :
              /\ \E a \in copies : SameRow(n, a)
              /\ n.status = "ACTIVE" =>
                    \E m \in table : m.status = "ACTIVE" /\ m.id = n.id /\ m.key = n.key,
           \A m \in table : \E n \in table2 : n.id = m.id
    PROVE  Lines(table2, copies2, gone)
<1>1. \A x \in copies2 : \E a \in copies : SameRow(x, a) BY DEF SameRow
<1>2. ASSUME NEW a \in table2, NEW b \in table2, a.key = b.key, a.status = "ACTIVE",
             b.status = "ACTIVE"
      PROVE  a = b
  <2>1. PICK m \in table : m.status = "ACTIVE" /\ m.id = a.id /\ m.key = a.key BY <1>2
  <2>2. PICK n \in table : n.status = "ACTIVE" /\ n.id = b.id /\ n.key = b.key BY <1>2
  <2>3. m = n BY <1>2, <2>1, <2>2 DEF Lines
  <2> QED BY <2>1, <2>2, <2>3 DEF Unique
<1>3. ASSUME NEW a \in copies2, a.id \notin gone
      PROVE  \E m \in table2 : m.id = a.id
  <2>1. PICK c \in copies : SameRow(a, c) BY <1>1
  <2>2. PICK m \in table : m.id = c.id BY <1>3, <2>1 DEF Lines, SameRow
  <2> QED BY <2>1, <2>2 DEF SameRow
<1>4. ASSUME NEW a \in copies2, NEW b \in copies2, a.id = b.id, a.id \notin gone
      PROVE  SameRow(a, b)
  <2>1. PICK c \in copies, d \in copies : SameRow(a, c) /\ SameRow(b, d) BY <1>1
  <2>2. c.id = d.id /\ c.id \notin gone BY <1>4, <2>1 DEF SameRow
  <2>3. SameRow(c, d) BY <2>2 DEF Lines
  <2> QED BY <2>1, <2>3 DEF SameRow
<1>5. ASSUME NEW a \in copies2, NEW b \in copies2, a.supersedes = b.supersedes,
             a.supersedes \notin gone \cup {<<>>}
      PROVE  a.id = b.id
  <2>1. PICK c \in copies, d \in copies : SameRow(a, c) /\ SameRow(b, d) BY <1>1
  <2>2. c.supersedes = d.supersedes /\ c.supersedes \notin gone \cup {<<>>}
    BY <1>5, <2>1 DEF SameRow
  <2>3. c.id = d.id BY <2>2 DEF Lines
  <2> QED BY <2>1, <2>3 DEF SameRow
<1>6. ASSUME NEW a \in copies2, a.supersedes \notin gone \cup {<<>>}
      PROVE  \E m \in table2 : Precedes(m, a)
  <2>1. PICK c \in copies : SameRow(a, c) BY <1>1
  <2>2. c.supersedes \notin gone \cup {<<>>} BY <1>6, <2>1 DEF SameRow
  <2>3. PICK m \in table : Precedes(m, c) BY <2>2 DEF Lines
  <2>4. PICK n \in table2 : n.id = m.id OBVIOUS
  <2>5. PICK d \in copies : SameRow(n, d) OBVIOUS
  <2>6. m \in copies /\ m.id \notin gone BY <2>2, <2>3 DEF Lines, Precedes
  <2>7. SameRow(d, m)
    <3>1. d.id = m.id /\ d.id \notin gone BY <2>4, <2>5, <2>6 DEF SameRow
    <3> QED BY <2>6, <3>1 DEF Lines
  <2>8. n.status # "ACTIVE"
    <3>1. SUFFICES ASSUME n.status = "ACTIVE" PROVE FALSE OBVIOUS
    <3>2. PICK old \in table : old.status = "ACTIVE" /\ old.id = n.id BY <3>1
    <3>3. old = m BY <2>4, <3>2 DEF Lines, Unique
    <3> QED BY <2>3, <3>2, <3>3 DEF Precedes
  <2> QED BY <2>1, <2>3, <2>4, <2>5, <2>7, <2>8 DEF Precedes, SameRow
<1> QED BY <1>2, <1>3, <1>4, <1>5, <1>6 DEF Lines

\* A row that comes has an id that is not stored; what it replaces has no other heir.
LEMMA LinesGrow ==
    ASSUME NEW table, NEW copies, NEW gone, NEW row, Lines(table, copies, gone),
           \A m \in table : m.id # row.id,
           \A m \in table : m.status = "ACTIVE" => m.key # row.key,
           \/ row.supersedes \in gone \cup {<<>>}
           \/ /\ \E m \in table : Precedes(m, row)
              /\ \A a \in copies : a.supersedes # row.supersedes
    PROVE  Lines(table \cup {row}, copies \cup {row}, gone)
<1>1. \A a \in copies : a.id = row.id => a.id \in gone BY DEF Lines
<1>2. Unique(table \cup {row}) BY DEF Lines, Unique
<1>3. \A a, b \in table \cup {row} :
         a.key = b.key /\ a.status = "ACTIVE" /\ b.status = "ACTIVE" => a = b
  BY DEF Lines
<1>4. \A a \in copies \cup {row} : a.id \notin gone => \E m \in table \cup {row} : m.id = a.id
  BY DEF Lines
<1>5. \A a, b \in copies \cup {row} : a.id = b.id /\ a.id \notin gone => SameRow(a, b)
  BY <1>1 DEF Lines, SameRow
<1>6. \A a, b \in copies \cup {row} :
         a.supersedes = b.supersedes /\ a.supersedes \notin gone \cup {<<>>} => a.id = b.id
  BY DEF Lines
<1>7. \A a \in copies \cup {row} :
         a.supersedes \notin gone \cup {<<>>} => \E m \in table \cup {row} : Precedes(m, a)
  BY DEF Lines
<1>8. table \cup {row} \subseteq copies \cup {row} BY DEF Lines
<1> QED BY <1>2, <1>3, <1>4, <1>5, <1>6, <1>7, <1>8 DEF Lines

\* A row that is deleted for good leaves its id.
LEMMA LinesShrink ==
    ASSUME NEW table, NEW copies, NEW gone, NEW id, NEW copies2, Lines(table, copies, gone),
           copies2 \subseteq copies, {m \in table : m.id # id} \subseteq copies2
    PROVE  Lines({m \in table : m.id # id}, copies2, gone \cup {id})
<1> DEFINE rest == {m \in table : m.id # id}
<1>1. Unique(rest) BY DEF Lines, Unique
<1>2. \A a, b \in rest : a.key = b.key /\ a.status = "ACTIVE" /\ b.status = "ACTIVE" => a = b
  BY DEF Lines
<1>3. \A a \in copies2 : a.id \notin gone \cup {id} => \E m \in rest : m.id = a.id BY DEF Lines
<1>4. \A a, b \in copies2 : a.id = b.id /\ a.id \notin gone \cup {id} => SameRow(a, b) BY DEF Lines
<1>5. \A a, b \in copies2 :
         a.supersedes = b.supersedes /\ a.supersedes \notin gone \cup {id} \cup {<<>>} => a.id = b.id
  BY DEF Lines
<1>6. \A a \in copies2 :
         a.supersedes \notin gone \cup {id} \cup {<<>>} => \E m \in rest : Precedes(m, a)
  BY DEF Lines, Precedes
<1> QED BY <1>1, <1>2, <1>3, <1>4, <1>5, <1>6 DEF Lines

(* -------------------------------- records ------------------------------ *)

Retouched(row, status, to) == [row EXCEPT !.status = status, !.to = to]

\* A change of status and of the end of validity leaves the rest.
LEMMA RetouchedIs ==
    ASSUME NEW row, SoundRow(row), NEW status \in RecordStatuses, NEW to \in Nat, NEW n,
           n = Retouched(row, status, to)
    PROVE  /\ SoundRow(n) /\ SameRow(n, row) /\ n.status = status
           /\ n.sources = row.sources /\ n.rank = row.rank /\ n.trust = row.trust
<1>1. row \in MemoryRows BY DEF SoundRow
<1>2. [row EXCEPT !.status = status, !.to = to] \in MemoryRows BY <1>1 DEF MemoryRows
<1>3. n \in MemoryRows BY <1>2, Zenon DEF Retouched
<1>4. /\ n.id = row.id /\ n.key = row.key /\ n.version = row.version /\ n.value = row.value
      /\ n.supersedes = row.supersedes /\ n.status = status
      /\ n.sources = row.sources /\ n.rank = row.rank /\ n.trust = row.trust
  BY <1>1 DEF MemoryRows, Retouched
<1>5. Grounded(n) BY <1>4 DEF SoundRow, Grounded
<1> QED BY <1>3, <1>4, <1>5 DEF SoundRow, SameRow

LEMMA RestatusedIs ==
    ASSUME NEW row, SoundRow(row), NEW status \in RecordStatuses, NEW n,
           n = [row EXCEPT !.status = status]
    PROVE  SoundRow(n) /\ SameRow(n, row) /\ n.status = status
<1>1. row \in MemoryRows /\ row.to \in Nat BY DEF SoundRow, MemoryRows
<1>2. n = Retouched(row, status, row.to) BY <1>1 DEF MemoryRows, Retouched
<1> QED BY <1>1, <1>2, RetouchedIs

\* A duplicate adds its sources.
LEMMA MergedIs ==
    ASSUME NEW row, NEW record, SoundRow(row), SoundRow(record), NEW n, n = Merged(row, record)
    PROVE  /\ SoundRow(n) /\ SameRow(n, row) /\ n.status = row.status
           /\ n.sources = row.sources \cup record.sources
           /\ row.sources \subseteq n.sources /\ n.rank <= row.rank /\ n.trust >= row.trust
<1>1. row \in MemoryRows /\ record \in MemoryRows BY DEF SoundRow
<1>2. /\ row.rank \in Nat /\ record.rank \in Nat /\ row.trust \in {3, 4} /\ record.trust \in {3, 4}
      /\ row.sources \in SUBSET Sources /\ record.sources \in SUBSET Sources
  BY <1>1 DEF MemoryRows
<1>3. PICK sources, rank, trust : /\ sources = row.sources \cup record.sources
                                  /\ rank = Least(row.rank, record.rank)
                                  /\ trust = Most(row.trust, record.trust)
  OBVIOUS
<1>4. sources \in SUBSET Sources /\ rank \in Nat /\ trust \in {3, 4} /\ rank <= row.rank
      /\ trust >= row.trust /\ row.sources \subseteq sources
  BY <1>2, <1>3 DEF Least, Most
<1>5. n = [row EXCEPT !.sources = sources, !.rank = rank, !.trust = trust] BY <1>3 DEF Merged
<1>6. [row EXCEPT !.sources = sources, !.rank = rank, !.trust = trust] \in MemoryRows
  BY <1>1, <1>4 DEF MemoryRows
<1>7. n \in MemoryRows BY <1>5, <1>6, Zenon
<1>8. /\ n.id = row.id /\ n.key = row.key /\ n.version = row.version /\ n.value = row.value
      /\ n.supersedes = row.supersedes /\ n.status = row.status
      /\ n.sources = sources /\ n.rank = rank /\ n.trust = trust
  BY <1>1, <1>5 DEF MemoryRows
<1>9. Grounded(n)
  <2>1. row.sources \subseteq n.sources BY <1>4, <1>8
  <2> QED BY <1>8, <2>1 DEF SoundRow, Grounded
<1> QED BY <1>3, <1>4, <1>7, <1>8, <1>9 DEF SoundRow, SameRow

\* A replacement names the row it replaces.
LEMMA ReplacementIs ==
    ASSUME NEW row, NEW record, SoundRow(row), SoundRow(record), NEW n,
           n = Replacement(row, record)
    PROVE  /\ SoundRow(n) /\ n.id = NextId(record, row.version + 1) /\ n.key = record.key
           /\ n.value = record.value /\ n.version = row.version + 1 /\ n.supersedes = row.id
           /\ n.status = record.status /\ n.sources = record.sources
<1>1. row \in MemoryRows /\ record \in MemoryRows BY DEF SoundRow
<1>2. PICK id, version, old : /\ id = NextId(record, row.version + 1) /\ version = row.version + 1
                              /\ old = row.id
  OBVIOUS
<1>3. version \in Nat /\ old \in MemoryIds BY <1>1, <1>2 DEF MemoryRows
<1>4. id \in MemoryIds
  <2>1. record.key \in Keys /\ record.value \in Payloads BY <1>1 DEF MemoryRows
  <2> QED BY <1>2, <1>3, <2>1 DEF NextId, MemoryIds
<1>5. id # <<>> BY <1>2 DEF NextId
<1>6. n = [record EXCEPT !.id = id, !.version = version, !.supersedes = old]
  BY <1>2 DEF Replacement
<1>7. [record EXCEPT !.id = id, !.version = version, !.supersedes = old] \in MemoryRows
  BY <1>1, <1>3, <1>4 DEF MemoryRows
<1>8. n \in MemoryRows BY <1>6, <1>7, Zenon
<1>9. /\ n.id = id /\ n.key = record.key /\ n.value = record.value /\ n.version = version
      /\ n.supersedes = old /\ n.status = record.status /\ n.sources = record.sources
  BY <1>1, <1>6 DEF MemoryRows
<1>10. Grounded(n) BY <1>9 DEF SoundRow, Grounded
<1> QED BY <1>2, <1>5, <1>8, <1>9, <1>10 DEF SoundRow

(* ------------------------------- admission ----------------------------- *)

\* The policies of the keys a memory may have, one by one.
LEMMA PoliciesAre ==
    ASSUME NEW key \in Keys, ~Policy[key].authority
    PROVE  \E first, second :
              /\ Policy[key].order = <<first, second>> /\ first # second
              /\ Policy[key].verifier \in {NoVerifier, first}
<1>1. Keys = {"communication_style", "account_tier", "incident_trace", "security_role"}
  BY DEF Keys, Policy
<1>2. CASE key = "communication_style"
  <2>1. Policy[key].order = <<"HUMAN_REVIEW", "USER_STATEMENT">> /\ Policy[key].verifier = NoVerifier
    BY <1>2 DEF Policy
  <2> QED BY <2>1
<1>3. CASE key = "account_tier"
  <2>1. Policy[key].order = <<"ACCOUNT_API", "USER_STATEMENT">> /\ Policy[key].verifier = "ACCOUNT_API"
    BY <1>3 DEF Policy
  <2> QED BY <2>1
<1>4. CASE key = "incident_trace"
  <2>1. /\ Policy[key].order = <<"HUMAN_REVIEW", "INCIDENT_POSTMORTEM">>
        /\ Policy[key].verifier = "HUMAN_REVIEW"
    BY <1>4 DEF Policy
  <2> QED BY <2>1
<1>5. CASE key = "security_role"
  <2>1. Policy[key].authority BY <1>5 DEF Policy
  <2> QED BY <2>1
<1> QED BY <1>1, <1>2, <1>3, <1>4, <1>5

LEMMA RankIs ==
    ASSUME NEW key, NEW first, NEW second, Policy[key].order = <<first, second>>, first # second,
           NEW sources, sources # {}, \A s \in sources : SourceType[s] \in {first, second}
    PROVE  Strongest(key, sources) \in Nat
<1>1. DOMAIN <<first, second>> = 1 .. 2 OBVIOUS
<1>2. RankIn(key, first) = 1
  <2>1. 1 \in DOMAIN Policy[key].order /\ Policy[key].order[1] = first BY <1>1
  <2>2. \A i \in DOMAIN Policy[key].order : Policy[key].order[i] = first => i = 1 BY <1>1
  <2> QED BY <2>1, <2>2 DEF RankIn
<1>3. RankIn(key, second) = 2
  <2>1. 2 \in DOMAIN Policy[key].order /\ Policy[key].order[2] = second BY <1>1
  <2>2. \A i \in DOMAIN Policy[key].order : Policy[key].order[i] = second => i = 2 BY <1>1
  <2> QED BY <2>1, <2>2 DEF RankIn
<1>4. \A s \in sources : RankIn(key, SourceType[s]) \in {1, 2} BY <1>2, <1>3
<1>5. \E i \in DOMAIN Policy[key].order :
         /\ \E s \in sources : RankIn(key, SourceType[s]) = i
         /\ \A s \in sources : i <= RankIn(key, SourceType[s])
  <2>1. CASE \E s \in sources : RankIn(key, SourceType[s]) = 1
    <3>1. 1 \in DOMAIN Policy[key].order BY <1>1
    <3>2. \A s \in sources : 1 <= RankIn(key, SourceType[s]) BY <1>4
    <3> QED BY <2>1, <3>1, <3>2
  <2>2. CASE \A s \in sources : RankIn(key, SourceType[s]) = 2
    <3>1. 2 \in DOMAIN Policy[key].order BY <1>1
    <3>2. PICK s \in sources : TRUE OBVIOUS
    <3>3. \A t \in sources : 2 <= RankIn(key, SourceType[t]) BY <2>2
    <3> QED BY <2>2, <3>1, <3>2, <3>3
  <2> QED BY <1>4, <2>1, <2>2
<1>6. Strongest(key, sources) \in DOMAIN Policy[key].order BY <1>5 DEF Strongest
<1> QED BY <1>1, <1>6

\* What admission lets through is a sound first record.
LEMMA RecordsAreSound ==
    ASSUME NEW c \in Candidates, Decision(c) = "ALLOW", period \in Nat, NEW r, r = BuildRecord(c)
    PROVE  SoundRow(r) /\ r.status = "ACTIVE" /\ r.supersedes = <<>>
<1>1. /\ c.key \in Keys /\ c.sources \subseteq Sources /\ c.sources # {}
      /\ (c.verified /\ Policy[c.key].verifier # NoVerifier =>
            \E s \in Sources : SourceType[s] = Policy[c.key].verifier)
  BY MemoryAssumption
<1>2. /\ ~Policy[c.key].authority /\ {SourceType[s] : s \in c.sources} \subseteq Allowed(c.key)
      /\ Policy[c.key].verifier # NoVerifier => c.verified
  BY DEF Decision
<1>3. PICK first, second : /\ Policy[c.key].order = <<first, second>> /\ first # second
                           /\ Policy[c.key].verifier \in {NoVerifier, first}
  BY <1>1, <1>2, PoliciesAre
<1>4. Allowed(c.key) = {first, second} BY <1>3 DEF Allowed
<1>5. PICK sources : sources = Provenance(c) OBVIOUS
<1>6. sources \subseteq Sources /\ sources # {} BY <1>1, <1>5 DEF Provenance
<1>7. \A s \in c.sources : SourceType[s] \in {first, second} BY <1>2, <1>4
<1>8. PICK rank : rank = Strongest(c.key, sources) OBVIOUS
<1>9. Policy[c.key].verifier = NoVerifier \/ \E s \in sources : SourceType[s] = Policy[c.key].verifier
  BY <1>1, <1>2, <1>5 DEF Provenance
<1>10. rank \in Nat
  <2>1. \A s \in Sources : SourceType[s] # NoVerifier BY MemoryAssumption
  <2>2. \A s \in Sources : SourceType[s] = Policy[c.key].verifier => SourceType[s] \in {first, second}
    BY <1>3, <2>1
  <2>3. \A s \in sources : SourceType[s] \in {first, second}
    BY <1>5, <1>7, <2>2 DEF Provenance
  <2> QED BY <1>3, <1>6, <1>8, <2>3, RankIs
<1>11. PICK trust, expires : trust = Trust(c) /\ expires = Expiry(c) OBVIOUS
<1>12. trust \in {3, 4} BY <1>11 DEF Trust
<1>13. Periods + 1 \in Nat /\ expires \in Nat BY <1>11, MemoryAssumption DEF Expiry
<1>14. PICK id : id = FirstId(c) OBVIOUS
<1>15. id \in MemoryIds /\ id # <<>> /\ c.value \in Payloads
  BY <1>1, <1>14 DEF FirstId, MemoryIds, Payloads
<1>16. r = [id |-> id, key |-> c.key, value |-> c.value, status |-> "ACTIVE", version |-> 1,
            supersedes |-> <<>>, sources |-> sources, rank |-> rank, trust |-> trust,
            from |-> period, to |-> Periods + 1, expires |-> expires]
  BY <1>5, <1>8, <1>11, <1>14 DEF BuildRecord
<1>17. r \in MemoryRows
  <2>1. "ACTIVE" \in RecordStatuses BY DEF RecordStatuses
  <2> QED BY <1>1, <1>6, <1>10, <1>12, <1>13, <1>15, <1>16, <2>1 DEF MemoryRows
<1>18. Grounded(r) BY <1>2, <1>9, <1>16 DEF Grounded
<1> QED BY <1>15, <1>16, <1>17, <1>18 DEF SoundRow

(* --------------------------------- steps ------------------------------- *)

\* A row that is kept keeps what it rests on, and is forgotten for good.
Onward(m, n) ==
    /\ m.id = n.id /\ (Quarantined(m) => Quarantined(n))
    /\ m.sources \subseteq n.sources /\ n.rank <= m.rank /\ n.trust >= m.trust
Forwards(table) ==
    \A n \in table : \/ Quarantined(n) \/ ~Stored(n.id)
                     \/ \E m \in memories : Onward(m, n)

LEMMA OnwardItself ==
    ASSUME NEW m, SoundRow(m)
    PROVE  Onward(m, m)
<1>1. m.rank \in Nat /\ m.trust \in {3, 4} BY DEF SoundRow, MemoryRows
<1> QED BY <1>1 DEF Onward

LEMMA SameRowItself == \A a : SameRow(a, a)
BY DEF SameRow

LEMMA MemoryStarts == MemoryInit => MemoryInvariant
<1> SUFFICES ASSUME MemoryInit PROVE MemoryInvariant OBVIOUS
<1>1. Copies = {} BY DEF MemoryInit, Copies, Selected
<1>2. Lines(memories, Copies, graves) BY <1>1 DEF MemoryInit, Lines, Unique
<1>3. worker \in [Workers -> WorkerStates]
  <2>1. <<>> \in Seq(MemoryIds) OBVIOUS
  <2> QED BY <2>1 DEF MemoryInit, WorkerStates, IdleWorker
<1> QED BY <1>1, <1>2, <1>3 DEF MemoryInit, MemoryInvariant

\* Steps that leave the table: selections are of rows that are there.
LEMMA TableKept ==
    ASSUME MemoryInvariant, UNCHANGED <<memories, graves>>, Copies' \subseteq Copies,
           \A chosen \in sweep' : Unique(chosen), worker' \in [Workers -> WorkerStates], period' \in Nat
    PROVE  MemoryInvariant' /\ Forwards(memories')
<1>1. Lines(memories, Copies, graves) /\ \A a \in Copies : SoundRow(a) BY DEF MemoryInvariant
<1>2. PICK table, copies, gone, copies2 :
        table = memories /\ copies = Copies /\ gone = graves /\ copies2 = Copies'
  OBVIOUS
<1>3. Lines(table, copies, gone) /\ Unique(table) /\ table \subseteq copies BY <1>1, <1>2 DEF Lines
<1>4. table \subseteq copies2 /\ copies2 \subseteq table \cup copies BY <1>2 DEF Copies
<1>5. \A n \in table : \E a \in copies : SameRow(n, a) BY <1>3, SameRowItself
<1>6. Lines(table, copies2, gone) BY <1>3, <1>4, <1>5, LinesRewritten
<1>7. Lines(memories, Copies, graves)' BY <1>2, <1>6
<1>8. \A n \in memories : SoundRow(n) BY <1>1 DEF Copies
<1>9. Forwards(memories') BY <1>8, OnwardItself DEF Forwards
<1> QED BY <1>1, <1>7, <1>9 DEF MemoryInvariant

\* The table after a step is in order as the one before.
TableIs(table, copies, gone) ==
    /\ Lines(table, copies, gone) /\ \A a \in copies : SoundRow(a)

\* Rows are rewritten by what deletion or invalidation selected.
LEMMA TableRewritten ==
    ASSUME MemoryInvariant, UNCHANGED <<graves, worker, period>>, NEW rewritten,
           memories' = {m \in memories : m.id \notin {q.id : q \in rewritten}} \cup rewritten,
           Copies' \subseteq memories' \cup Copies,
           Unique(rewritten), \A chosen \in sweep' : Unique(chosen),
           \A q \in rewritten :
              /\ Quarantined(q) /\ SoundRow(q) /\ Stored(q.id) /\ \E a \in Copies : SameRow(q, a)
    PROVE  MemoryInvariant' /\ Forwards(memories')
<1>1. Lines(memories, Copies, graves) /\ \A a \in Copies : SoundRow(a) BY DEF MemoryInvariant
<1>2. PICK table, copies, gone, table2, copies2 :
        table = memories /\ copies = Copies /\ gone = graves /\ table2 = memories' /\ copies2 = Copies'
  OBVIOUS
<1>3. Lines(table, copies, gone) /\ Unique(table) /\ table \subseteq copies BY <1>1, <1>2 DEF Lines
<1>4. table2 = {m \in table : m.id \notin {q.id : q \in rewritten}} \cup rewritten BY <1>2
<1>5. Unique(table2) BY <1>3, <1>4 DEF Unique
<1>6. table2 \subseteq copies2 /\ copies2 \subseteq table2 \cup copies BY <1>2 DEF Copies
<1>7. \A n \in table2 :
         /\ \E a \in copies : SameRow(n, a)
         /\ n.status = "ACTIVE" => \E m \in table : m.status = "ACTIVE" /\ m.id = n.id /\ m.key = n.key
  <2> TAKE n \in table2
  <2>1. CASE n \in rewritten BY <1>2, <2>1 DEF Quarantined
  <2>2. CASE n \notin rewritten
    <3>1. n \in table BY <1>4, <2>2
    <3> QED BY <1>3, <3>1, SameRowItself
  <2> QED BY <2>1, <2>2
<1>8. \A m \in table : \E n \in table2 : n.id = m.id BY <1>4
<1>9. Lines(table2, copies2, gone) BY <1>3, <1>5, <1>6, <1>7, <1>8, LinesRewritten
<1>10. Lines(memories, Copies, graves)' BY <1>2, <1>9
<1>11. \A a \in Copies' : SoundRow(a)
  <2>1. \A n \in memories' : SoundRow(n) BY <1>1 DEF Copies
  <2> QED BY <1>1, <2>1
<1>12. Forwards(memories')
  <2>1. \A n \in memories : SoundRow(n) BY <1>1 DEF Copies
  <2>2. \A n \in memories' : n \in memories \/ Quarantined(n) OBVIOUS
  <2> QED BY <2>1, <2>2, OnwardItself DEF Forwards
<1>13. worker' \in [Workers -> WorkerStates] /\ period' \in Nat BY DEF MemoryInvariant
<1> QED BY <1>10, <1>11, <1>12, <1>13 DEF MemoryInvariant

LEMMA DeleteKeeps ==
    ASSUME MemoryInvariant, Delete
    PROVE  MemoryInvariant' /\ Forwards(memories')
<1>1. PICK d \in deletion : memories' = Quarantine(d.row, DeletedStatus(d.mode)) BY DEF Delete
<1>2. UNCHANGED <<graves, worker, period, sweep>> /\ deletion' = {} BY DEF Delete
<1>3. d.row \in Copies BY DEF Copies, Selected
<1>4. Copies' \subseteq memories' \cup Copies BY <1>2 DEF Copies, Selected
<1>5. \A chosen \in sweep' : Unique(chosen) BY <1>2 DEF MemoryInvariant
<1>6. CASE Stored(d.row.id)
  <2>1. PICK status : status = DeletedStatus(d.mode) OBVIOUS
  <2>2. status \in {"DISPUTED", "SOFT_DELETED"} BY <2>1 DEF DeletedStatus
  <2>3. PICK q : q = [d.row EXCEPT !.status = status] OBVIOUS
  <2>4. SoundRow(q) /\ SameRow(q, d.row) /\ q.status = status
    <3>1. SoundRow(d.row) /\ status \in RecordStatuses BY <1>3, <2>2 DEF MemoryInvariant, RecordStatuses
    <3> QED BY <2>3, <3>1, RestatusedIs
  <2>5. memories' = {m \in memories : m.id # d.row.id} \cup {q} BY <1>1, <1>6, <2>1, <2>3 DEF Quarantine
  <2>6. q.id = d.row.id BY <2>4 DEF SameRow
  <2>7. memories' = {m \in memories : m.id \notin {x.id : x \in {q}}} \cup {q} BY <2>5, <2>6
  <2>8. Quarantined(q) /\ Unique({q}) /\ Stored(q.id)
    BY <1>6, <2>2, <2>4, <2>6 DEF Quarantined, Unique
  <2> QED BY <1>2, <1>3, <1>4, <1>5, <2>4, <2>7, <2>8, TableRewritten
<1>7. CASE ~Stored(d.row.id)
  <2>1. memories' = memories BY <1>1, <1>7 DEF Quarantine
  <2>2. Copies' \subseteq Copies BY <1>4, <2>1 DEF Copies
  <2>3. worker' \in [Workers -> WorkerStates] /\ period' \in Nat BY <1>2 DEF MemoryInvariant
  <2> QED BY <1>2, <1>5, <2>1, <2>2, <2>3, TableKept
<1> QED BY <1>6, <1>7

LEMMA InvalidateKeeps ==
    ASSUME MemoryInvariant, Invalidate
    PROVE  MemoryInvariant' /\ Forwards(memories')
<1>1. PICK selected \in sweep :
        memories' = {m \in memories : m.id \notin {old.id : old \in selected}} \cup
           {[old EXCEPT !.status = "INVALIDATED"] : old \in {o \in selected : Stored(o.id)}}
  BY DEF Invalidate
<1>2. UNCHANGED <<graves, worker, period, deletion>> /\ sweep' = {} BY DEF Invalidate
<1>3. selected \subseteq Copies BY DEF Copies, Selected
<1>4. PICK there, rewritten : /\ there = {o \in selected : Stored(o.id)}
                              /\ rewritten = {[old EXCEPT !.status = "INVALIDATED"] : old \in there}
  OBVIOUS
<1>5. \A old \in there : SoundRow([old EXCEPT !.status = "INVALIDATED"])
                         /\ SameRow([old EXCEPT !.status = "INVALIDATED"], old)
                         /\ [old EXCEPT !.status = "INVALIDATED"].status = "INVALIDATED"
  <2> TAKE old \in there
  <2>1. SoundRow(old) /\ "INVALIDATED" \in RecordStatuses
    BY <1>3, <1>4 DEF MemoryInvariant, RecordStatuses
  <2>2. PICK q : q = [old EXCEPT !.status = "INVALIDATED"] OBVIOUS
  <2>3. SoundRow(q) /\ SameRow(q, old) /\ q.status = "INVALIDATED" BY <2>1, <2>2, RestatusedIs
  <2> QED BY <2>2, <2>3
<1>6. \A q \in rewritten : \E old \in there : /\ q = [old EXCEPT !.status = "INVALIDATED"]
                                              /\ SoundRow(q) /\ SameRow(q, old) /\ Quarantined(q)
  BY <1>4, <1>5 DEF Quarantined
<1>7. \A old \in there : \E q \in rewritten : q.id = old.id BY <1>4, <1>5 DEF SameRow
<1>8. memories' = {m \in memories : m.id \notin {q.id : q \in rewritten}} \cup rewritten
  <2>1. ASSUME NEW m \in memories
        PROVE  m.id \in {old.id : old \in selected} <=> m.id \in {q.id : q \in rewritten}
    <3>1. ASSUME NEW old \in selected, m.id = old.id PROVE \E q \in rewritten : q.id = m.id
      <4>1. old \in there BY <1>4, <3>1 DEF Stored
      <4> QED BY <1>7, <3>1, <4>1
    <3>2. ASSUME NEW q \in rewritten, m.id = q.id PROVE \E old \in selected : old.id = m.id
      BY <1>4, <1>6, <3>2 DEF SameRow
    <3> QED BY <3>1, <3>2
  <2>2. memories' = {m \in memories : m.id \notin {old.id : old \in selected}} \cup rewritten
    BY <1>1, <1>4
  <2> QED BY <2>1, <2>2
<1>9. Unique(rewritten)
  <2>1. Unique(selected) BY DEF MemoryInvariant
  <2> SUFFICES ASSUME NEW a \in rewritten, NEW b \in rewritten, a.id = b.id PROVE a = b BY DEF Unique
  <2>2. PICK x \in there, y \in there : /\ a = [x EXCEPT !.status = "INVALIDATED"] /\ SameRow(a, x)
                                        /\ b = [y EXCEPT !.status = "INVALIDATED"] /\ SameRow(b, y)
    BY <1>6
  <2>3. x = y BY <1>4, <2>1, <2>2 DEF Unique, SameRow
  <2> QED BY <2>2, <2>3
<1>10. \A q \in rewritten :
          /\ Quarantined(q) /\ SoundRow(q) /\ Stored(q.id) /\ \E a \in Copies : SameRow(q, a)
  BY <1>3, <1>4, <1>6 DEF SameRow
<1>11. Copies' \subseteq memories' \cup Copies BY <1>2 DEF Copies, Selected
<1>12. \A chosen \in sweep' : Unique(chosen) BY <1>2
<1> QED BY <1>2, <1>8, <1>9, <1>10, <1>11, <1>12, TableRewritten

LEMMA HardDeleteKeeps ==
    ASSUME MemoryInvariant, HardDelete
    PROVE  MemoryInvariant' /\ Forwards(memories')
<1>1. UNCHANGED <<worker, period, sweep>> /\ deletion' = {} BY DEF HardDelete
<1>2. worker' \in [Workers -> WorkerStates] /\ period' \in Nat /\ \A chosen \in sweep' : Unique(chosen)
  BY <1>1 DEF MemoryInvariant
<1>3. PICK d \in deletion :
        \/ UNCHANGED <<memories, graves>>
        \/ memories' = {m \in memories : m.id # d.row.id} /\ graves' = graves \cup {d.row.id}
  BY DEF HardDelete
<1>4. memories' \subseteq memories BY <1>3
<1>5. Copies' \subseteq Copies BY <1>1, <1>4 DEF Copies, Selected
<1>6. CASE UNCHANGED <<memories, graves>> BY <1>2, <1>5, <1>6, TableKept
<1>7. CASE memories' = {m \in memories : m.id # d.row.id} /\ graves' = graves \cup {d.row.id}
  <2>1. PICK table, copies, gone, copies2, id :
          /\ table = memories /\ copies = Copies /\ gone = graves /\ copies2 = Copies'
          /\ id = d.row.id
    OBVIOUS
  <2>2. Lines(table, copies, gone) BY <2>1 DEF MemoryInvariant
  <2>3. memories' = {m \in table : m.id # id} /\ graves' = gone \cup {id} BY <1>7, <2>1
  <2>4. {m \in table : m.id # id} \subseteq copies2 BY <2>1, <2>3 DEF Copies
  <2>5. copies2 \subseteq copies BY <1>5, <2>1
  <2>6. Lines({m \in table : m.id # id}, copies2, gone \cup {id}) BY <2>2, <2>4, <2>5, LinesShrink
  <2>7. Lines(memories, Copies, graves)' BY <2>1, <2>3, <2>6
  <2>8. \A a \in Copies' : SoundRow(a) BY <1>5 DEF MemoryInvariant
  <2>9. Forwards(memories')
    <3>1. \A n \in memories : SoundRow(n) BY DEF MemoryInvariant, Copies
    <3> QED BY <1>4, <3>1, OnwardItself DEF Forwards
  <2> QED BY <1>2, <2>7, <2>8, <2>9 DEF MemoryInvariant
<1> QED BY <1>3, <1>6, <1>7

(* --------------------------------- jobs -------------------------------- *)

LEMMA WorkerTurns ==
    ASSUME worker \in [Workers -> WorkerStates], NEW w \in Workers, NEW x \in WorkerStates,
           worker' = [worker EXCEPT ![w] = x]
    PROVE  worker' \in [Workers -> WorkerStates]
OBVIOUS

\* Steps of a job before and after its writes.
LEMMA JobKeeps ==
    ASSUME MemoryInvariant, NEW w \in Workers,
           \/ \E job \in DOMAIN Jobs : BeginJob(w, job)
           \/ Observe(w) \/ SaveJobResult(w) \/ Abandon(w)
    PROVE  MemoryInvariant' /\ Forwards(memories')
<1>1. UNCHANGED <<memories, graves, deletion, sweep, period>>
  BY DEF BeginJob, Observe, SaveJobResult, Abandon
<1>2. worker \in [Workers -> WorkerStates] BY DEF MemoryInvariant
<1>3. PICK x : x = worker[w] OBVIOUS
<1>4. x \in WorkerStates BY <1>2, <1>3
<1>5. worker' \in [Workers -> WorkerStates]
  <2>1. ASSUME NEW job \in DOMAIN Jobs, BeginJob(w, job) PROVE worker' \in [Workers -> WorkerStates]
    <3>1. PICK y : y = [x EXCEPT !.job = job] OBVIOUS
    <3>2. [x EXCEPT !.job = job] \in WorkerStates BY <1>4 DEF WorkerStates
    <3>3. worker' = [worker EXCEPT ![w] = y] BY <1>3, <2>1, <3>1 DEF BeginJob
    <3> QED BY <1>2, <3>1, <3>2, <3>3, WorkerTurns
  <2>2. CASE SaveJobResult(w) \/ Abandon(w)
    <3>1. <<>> \in Seq(MemoryIds) OBVIOUS
    <3>2. IdleWorker \in WorkerStates BY <3>1 DEF IdleWorker, WorkerStates
    <3>3. worker' = [worker EXCEPT ![w] = IdleWorker] BY <2>2 DEF SaveJobResult, Abandon
    <3> QED BY <1>2, <3>2, <3>3, WorkerTurns
  <2>3. CASE Observe(w)
    <3>1. PICK c : c = Current(w) OBVIOUS
    <3>2. PICK record, expected : record = BuildRecord(c) /\ expected = VisibleVersion(c.key) OBVIOUS
    <3>3. c \in Candidates
      <4>1. x.job \in DOMAIN Jobs /\ x.written \in Seq(MemoryIds)
        BY <1>3, <1>4, <2>3 DEF WorkerStates, Observe
      <4>2. Jobs[x.job] \in Seq(Candidates) BY <4>1, MemoryAssumption
      <4>3. Len(x.written) \in Nat /\ Len(Jobs[x.job]) \in Nat BY <4>1, <4>2
      <4>4. Len(x.written) < Len(Jobs[x.job]) BY <1>3, <2>3 DEF Observe, HasMore
      <4>5. Len(x.written) + 1 \in 1 .. Len(Jobs[x.job]) BY <4>3, <4>4
      <4>6. Jobs[x.job][Len(x.written) + 1] \in Candidates BY <4>2, <4>5
      <4> QED BY <1>3, <3>1, <4>6 DEF Current
    <3>4. record \in FirstRows
      <4>1. Decision(c) = "ALLOW" BY <2>3, <3>1 DEF Observe, Admitted
      <4>2. period \in Nat BY DEF MemoryInvariant
      <4>3. SoundRow(record) /\ record.status = "ACTIVE" /\ record.supersedes = <<>>
        BY <3>2, <3>3, <4>1, <4>2, RecordsAreSound
      <4> QED BY <4>3 DEF FirstRows, SoundRow
    <3>5. expected \in Nat
      <4>1. CASE \E m \in ActiveRow(c.key) : m.expires > period
        <5>1. PICK m : m = CHOOSE n \in ActiveRow(c.key) : TRUE OBVIOUS
        <5>2. m \in ActiveRow(c.key) BY <4>1, <5>1
        <5>3. m \in Copies BY <5>2 DEF ActiveRow, Copies
        <5>4. m.version \in Nat BY <5>3 DEF MemoryInvariant, SoundRow, MemoryRows
        <5> QED BY <3>2, <4>1, <5>1, <5>4 DEF VisibleVersion
      <4>2. CASE ~ \E m \in ActiveRow(c.key) : m.expires > period
        BY <3>2, <4>2 DEF VisibleVersion
      <4> QED BY <4>1, <4>2
    <3>6. PICK y : y = [x EXCEPT !.record = {record}, !.expected = expected] OBVIOUS
    <3>7. [x EXCEPT !.record = {record}, !.expected = expected] \in WorkerStates
      BY <1>4, <3>4, <3>5 DEF WorkerStates
    <3>8. worker' = [worker EXCEPT ![w] = y]
      <4>1. worker' = [worker EXCEPT ![w].record = {record}, ![w].expected = expected]
        BY <2>3, <3>1, <3>2 DEF Observe
      <4> QED BY <1>2, <1>3, <3>6, <4>1
    <3> QED BY <1>2, <3>6, <3>7, <3>8, WorkerTurns
  <2> QED BY <2>1, <2>2, <2>3
<1>6. Copies' \subseteq Copies BY <1>1 DEF Copies, Selected
<1>7. \A chosen \in sweep' : Unique(chosen) BY <1>1 DEF MemoryInvariant
<1>8. period' \in Nat BY <1>1 DEF MemoryInvariant
<1> QED BY <1>1, <1>5, <1>6, <1>7, <1>8, TableKept

LEMMA InsertKeeps ==
    ASSUME MemoryInvariant, NEW record \in FirstRows, NEW expected, InsertFirst(record, expected),
           UNCHANGED <<graves, deletion, sweep>>
    PROVE  Lines(memories, Copies, graves)' /\ (\A a \in Copies' : SoundRow(a)) /\ Forwards(memories')
<1>1. /\ memories' = memories \cup {record} /\ ~Stored(record.id) /\ ActiveRow(record.key) = {}
  BY DEF InsertFirst
<1>2. Copies' = Copies \cup {record} BY <1>1 DEF Copies, Selected
<1>3. PICK table, copies, gone : table = memories /\ copies = Copies /\ gone = graves OBVIOUS
<1>4. Lines(table, copies, gone) BY <1>3 DEF MemoryInvariant
<1>5. \A m \in table : m.id # record.id BY <1>1, <1>3 DEF Stored
<1>6. \A m \in table : m.status = "ACTIVE" => m.key # record.key BY <1>1, <1>3 DEF ActiveRow
<1>7. record.supersedes \in gone \cup {<<>>} BY DEF FirstRows
<1>8. Lines(table \cup {record}, copies \cup {record}, gone) BY <1>4, <1>5, <1>6, <1>7, LinesGrow
<1>9. Lines(memories, Copies, graves)' BY <1>1, <1>2, <1>3, <1>8
<1>10. \A a \in Copies' : SoundRow(a) BY <1>2 DEF MemoryInvariant, FirstRows
<1>11. \A n \in memories : SoundRow(n) BY DEF MemoryInvariant, Copies
<1>12. Forwards(memories') BY <1>1, <1>11, OnwardItself DEF Forwards
<1> QED BY <1>9, <1>10, <1>12

LEMMA MergeKeeps ==
    ASSUME MemoryInvariant, NEW record \in FirstRows, NEW row \in ActiveRow(record.key),
           MergeDuplicate(row, record), UNCHANGED <<graves, deletion, sweep>>
    PROVE  Lines(memories, Copies, graves)' /\ (\A a \in Copies' : SoundRow(a)) /\ Forwards(memories')
<1>1. row \in memories /\ row.status = "ACTIVE" BY DEF ActiveRow
<1>2. \A n \in memories : SoundRow(n) BY DEF MemoryInvariant, Copies
<1>3. PICK new : new = Merged(row, record) OBVIOUS
<1>4. SoundRow(row) /\ SoundRow(record) BY <1>1, <1>2 DEF FirstRows
<1>5. /\ SoundRow(new) /\ SameRow(new, row) /\ new.status = row.status
      /\ row.sources \subseteq new.sources /\ new.rank <= row.rank /\ new.trust >= row.trust
  BY <1>3, <1>4, MergedIs
<1>6. memories' = (memories \ {row}) \cup {new} BY <1>3 DEF MergeDuplicate
<1>7. PICK table, copies, gone, table2, copies2 :
        table = memories /\ copies = Copies /\ gone = graves /\ table2 = memories' /\ copies2 = Copies'
  OBVIOUS
<1>8. Lines(table, copies, gone) /\ Unique(table) /\ table \subseteq copies
  BY <1>7 DEF MemoryInvariant, Lines
<1>9. table2 = (table \ {row}) \cup {new} /\ row \in table BY <1>1, <1>6, <1>7
<1>10. new.id = row.id /\ new.key = row.key BY <1>5 DEF SameRow
<1>11. Unique(table2) BY <1>8, <1>9, <1>10 DEF Unique
<1>12. table2 \subseteq copies2 /\ copies2 \subseteq table2 \cup copies
  BY <1>7 DEF Copies, Selected
<1>13. \A n \in table2 :
          /\ \E a \in copies : SameRow(n, a)
          /\ n.status = "ACTIVE" => \E m \in table : m.status = "ACTIVE" /\ m.id = n.id /\ m.key = n.key
  <2> TAKE n \in table2
  <2>1. CASE n = new BY <1>1, <1>5, <1>8, <1>9, <1>10, <2>1
  <2>2. CASE n # new
    <3>1. n \in table BY <1>9, <2>2
    <3> QED BY <1>8, <3>1, SameRowItself
  <2> QED BY <2>1, <2>2
<1>14. \A m \in table : \E n \in table2 : n.id = m.id
  <2> TAKE m \in table
  <2>1. CASE m = row BY <1>9, <1>10, <2>1
  <2>2. CASE m # row BY <1>9, <2>2
  <2> QED BY <2>1, <2>2
<1>15. Lines(table2, copies2, gone) BY <1>8, <1>11, <1>12, <1>13, <1>14, LinesRewritten
<1>16. Lines(memories, Copies, graves)' BY <1>7, <1>15
<1>17. \A a \in Copies' : SoundRow(a)
  <2>1. \A a \in Copies' : a \in Copies \/ a = new BY <1>6 DEF Copies, Selected
  <2> QED BY <1>5, <2>1 DEF MemoryInvariant
<1>18. Forwards(memories')
  <2>1. Onward(row, new) BY <1>1, <1>5, <1>10 DEF Onward, Quarantined
  <2> QED BY <1>1, <1>2, <1>6, <2>1, OnwardItself DEF Forwards
<1> QED BY <1>16, <1>17, <1>18

LEMMA SupersedeKeeps ==
    ASSUME MemoryInvariant, NEW record \in FirstRows, NEW row \in ActiveRow(record.key),
           NEW expected, Supersede(row, record, expected), UNCHANGED <<graves, deletion, sweep>>
    PROVE  Lines(memories, Copies, graves)' /\ (\A a \in Copies' : SoundRow(a)) /\ Forwards(memories')
<1>1. row \in memories /\ row.status = "ACTIVE" /\ row.key = record.key BY DEF ActiveRow
<1>2. \A n \in memories : SoundRow(n) BY DEF MemoryInvariant, Copies
<1>3. PICK old, new : /\ old = Retouched(row, "SUPERSEDED", record.from)
                      /\ new = Replacement(row, record)
  OBVIOUS
<1>4. SoundRow(row) /\ SoundRow(record) BY <1>1, <1>2 DEF FirstRows
<1>5. /\ SoundRow(old) /\ SameRow(old, row) /\ old.status = "SUPERSEDED"
      /\ old.sources = row.sources /\ old.rank = row.rank /\ old.trust = row.trust
  <2>1. record.from \in Nat /\ "SUPERSEDED" \in RecordStatuses
    BY <1>4 DEF SoundRow, MemoryRows, RecordStatuses
  <2> QED BY <1>3, <1>4, <2>1, RetouchedIs
<1>6. /\ SoundRow(new) /\ new.key = record.key /\ new.value = record.value
      /\ new.version = row.version + 1 /\ new.supersedes = row.id
  BY <1>3, <1>4, ReplacementIs
<1>7. /\ memories' = (memories \ {row}) \cup {old, new} /\ ~Stored(new.id)
      /\ row.value # record.value
  BY <1>3 DEF Supersede, Retouched, SameContent
<1>8. PICK table, copies, gone, table1, copies1, copies2 :
        /\ table = memories /\ copies = Copies /\ gone = graves /\ copies2 = Copies'
        /\ table1 = (memories \ {row}) \cup {old} /\ copies1 = copies \cup {old}
  OBVIOUS
<1>9. Lines(table, copies, gone) /\ Unique(table) /\ table \subseteq copies /\ row \in table
  BY <1>1, <1>8 DEF MemoryInvariant, Lines
<1>10. old.id = row.id /\ old.key = row.key /\ old.version = row.version /\ old.value = row.value
       /\ old.supersedes = row.supersedes
  BY <1>5 DEF SameRow
<1>11. Lines(table1, copies1, gone)
  <2>1. Unique(table1) BY <1>8, <1>9, <1>10 DEF Unique
  <2>2. table1 \subseteq copies1 /\ copies1 \subseteq table1 \cup copies BY <1>8, <1>9
  <2>3. \A n \in table1 :
          /\ \E a \in copies : SameRow(n, a)
          /\ n.status = "ACTIVE" => \E m \in table : m.status = "ACTIVE" /\ m.id = n.id /\ m.key = n.key
    <3> TAKE n \in table1
    <3>1. CASE n = old BY <1>5, <1>9, <3>1
    <3>2. CASE n # old
      <4>1. n \in table BY <1>8, <3>2
      <4> QED BY <1>9, <4>1, SameRowItself
    <3> QED BY <3>1, <3>2
  <2>4. \A m \in table : \E n \in table1 : n.id = m.id
    <3> TAKE m \in table
    <3>1. CASE m = row BY <1>8, <1>10, <3>1
    <3>2. CASE m # row BY <1>8, <3>2
    <3> QED BY <3>1, <3>2
  <2> QED BY <1>9, <2>1, <2>2, <2>3, <2>4, LinesRewritten
<1>12. Lines(table1 \cup {new}, copies1 \cup {new}, gone)
  <2>1. \A m \in table1 : m.id # new.id
    <3>1. \A m \in table : m.id # new.id BY <1>7, <1>8 DEF Stored
    <3> QED BY <1>8, <1>9, <1>10, <3>1
  <2>2. \A m \in table1 : m.status = "ACTIVE" => m.key # new.key
    <3> SUFFICES ASSUME NEW m \in table1, m.status = "ACTIVE", m.key = new.key PROVE FALSE OBVIOUS
    <3>1. m \in table /\ m # row BY <1>5, <1>8
    <3>2. m.key = row.key BY <1>1, <1>6
    <3> QED BY <1>1, <1>9, <3>1, <3>2 DEF Lines
  <2>3. Precedes(old, new)
    <3>1. row.version \in Nat BY <1>4 DEF SoundRow, MemoryRows
    <3>2. old.version = new.version - 1 BY <1>6, <1>10, <3>1
    <3> QED BY <1>1, <1>5, <1>6, <1>7, <1>10, <3>2 DEF Precedes
  <2>4. CASE row.id \in gone
    <3>1. new.supersedes \in gone \cup {<<>>} BY <1>6, <2>4
    <3> QED BY <1>11, <2>1, <2>2, <3>1, LinesGrow
  <2>5. CASE row.id \notin gone
    <3>1. row.id \notin gone \cup {<<>>} BY <1>4, <2>5 DEF SoundRow
    <3>2. \A a \in copies : a.supersedes # row.id
      <4> SUFFICES ASSUME NEW a \in copies, a.supersedes = row.id PROVE FALSE OBVIOUS
      <4>1. PICK m \in table : Precedes(m, a) BY <1>9, <3>1 DEF Lines
      <4>2. m.id = row.id /\ m.status # "ACTIVE" BY <4>1 DEF Precedes
      <4>3. m = row BY <1>9, <4>2 DEF Unique
      <4> QED BY <1>1, <4>2, <4>3
    <3>3. \A a \in copies1 : a.supersedes # row.id
      <4>1. row \in copies BY <1>9
      <4> QED BY <1>8, <1>10, <3>2, <4>1
    <3>4. \A a \in copies1 : a.supersedes # new.supersedes BY <1>6, <3>3
    <3>5. \E m \in table1 : Precedes(m, new) BY <1>8, <2>3
    <3> QED BY <1>11, <2>1, <2>2, <3>4, <3>5, LinesGrow
  <2> QED BY <2>4, <2>5
<1>13. PICK table2 : table2 = table1 \cup {new} OBVIOUS
<1>14. memories' = table2 BY <1>7, <1>8, <1>13
<1>15. Lines(table2, copies2, gone)
  <2>1. PICK copies3 : copies3 = copies1 \cup {new} OBVIOUS
  <2>2. Lines(table2, copies3, gone) /\ Unique(table2) /\ table2 \subseteq copies3
    BY <1>12, <1>13, <2>1 DEF Lines
  <2>3. table2 \subseteq copies2 /\ copies2 \subseteq table2 \cup copies3
    BY <1>8, <1>14, <2>1 DEF Copies, Selected
  <2>4. \A n \in table2 : \E a \in copies3 : SameRow(n, a) BY <2>2, SameRowItself
  <2> QED BY <2>2, <2>3, <2>4, LinesRewritten
<1>16. Lines(memories, Copies, graves)' BY <1>8, <1>14, <1>15
<1>17. \A a \in Copies' : SoundRow(a)
  <2>1. \A a \in Copies' : a \in Copies \/ a \in {old, new} BY <1>7 DEF Copies, Selected
  <2> QED BY <1>5, <1>6, <2>1 DEF MemoryInvariant
<1>18. Forwards(memories')
  <2>1. row.rank \in Nat /\ row.trust \in {3, 4} BY <1>4 DEF SoundRow, MemoryRows
  <2>2. Onward(row, old) BY <1>1, <1>5, <1>10, <2>1 DEF Onward, Quarantined
  <2> QED BY <1>1, <1>2, <1>7, <2>2, OnwardItself DEF Forwards
<1> QED BY <1>16, <1>17, <1>18

LEMMA WriteKeeps ==
    ASSUME MemoryInvariant, NEW w \in Workers, Write(w)
    PROVE  MemoryInvariant' /\ Forwards(memories')
<1>1. PICK x : x = worker[w] OBVIOUS
<1>2. worker \in [Workers -> WorkerStates] /\ x \in WorkerStates BY <1>1 DEF MemoryInvariant
<1>3. PICK record \in x.record :
        /\ WriteStep(record, x.expected)
        /\ worker' = [worker EXCEPT ![w].written = Append(@, WrittenId(record)),
                                    ![w].record = {}, ![w].expected = 0]
  BY <1>1 DEF Write
<1>4. UNCHANGED <<graves, deletion, sweep, period>> BY DEF Write
<1>5. record \in FirstRows BY <1>2 DEF WorkerStates
<1>6. Lines(memories, Copies, graves)' /\ (\A a \in Copies' : SoundRow(a)) /\ Forwards(memories')
  <2>1. CASE InsertFirst(record, x.expected) BY <1>4, <1>5, <2>1, InsertKeeps
  <2>2. ASSUME NEW row \in ActiveRow(record.key), MergeDuplicate(row, record)
        PROVE  /\ Lines(memories, Copies, graves)' /\ \A a \in Copies' : SoundRow(a)
               /\ Forwards(memories')
    BY <1>4, <1>5, <2>2, MergeKeeps
  <2>3. ASSUME NEW row \in ActiveRow(record.key), Supersede(row, record, x.expected)
        PROVE  /\ Lines(memories, Copies, graves)' /\ \A a \in Copies' : SoundRow(a)
               /\ Forwards(memories')
    BY <1>4, <1>5, <2>3, SupersedeKeeps
  <2> QED BY <1>3, <2>1, <2>2, <2>3 DEF WriteStep
<1>7. PICK id : id = WrittenId(record) OBVIOUS
<1>8. id \in MemoryIds
  <2>1. SoundRow(record) BY <1>5 DEF FirstRows
  <2>2. CASE ActiveRow(record.key) = {} BY <1>7, <2>1, <2>2 DEF WrittenId, SoundRow, MemoryRows
  <2>3. CASE ActiveRow(record.key) # {}
    <3>1. PICK row : row = CHOOSE m \in ActiveRow(record.key) : TRUE OBVIOUS
    <3>2. row \in ActiveRow(record.key) BY <2>3, <3>1
    <3>3. row \in Copies BY <3>2 DEF ActiveRow, Copies
    <3>4. SoundRow(row) BY <3>3 DEF MemoryInvariant
    <3>5. PICK new : new = Replacement(row, record) OBVIOUS
    <3>6. SoundRow(new) BY <2>1, <3>4, <3>5, ReplacementIs
    <3>7. row.id \in MemoryIds /\ new.id \in MemoryIds BY <3>4, <3>6 DEF SoundRow, MemoryRows
    <3>8. id \in {row.id, new.id} BY <1>7, <2>3, <3>1, <3>5 DEF WrittenId
    <3> QED BY <3>7, <3>8
  <2> QED BY <2>2, <2>3
<1>9. worker' \in [Workers -> WorkerStates]
  <2>1. PICK written : written = Append(x.written, id) OBVIOUS
  <2>2. written \in Seq(MemoryIds) BY <1>2, <1>8, <2>1 DEF WorkerStates
  <2>3. PICK y : y = [x EXCEPT !.written = written, !.record = {}, !.expected = 0] OBVIOUS
  <2>4. [x EXCEPT !.written = written, !.record = {}, !.expected = 0] \in WorkerStates
    BY <1>2, <2>2 DEF WorkerStates
  <2>5. worker' = [worker EXCEPT ![w].written = written, ![w].record = {}, ![w].expected = 0]
    BY <1>1, <1>3, <1>7, <2>1
  <2>6. worker' = [worker EXCEPT ![w] = y] BY <1>1, <1>2, <2>3, <2>5
  <2> QED BY <1>2, <2>3, <2>4, <2>6, WorkerTurns
<1>10. (\A chosen \in sweep' : Unique(chosen)) /\ period' \in Nat BY <1>4 DEF MemoryInvariant
<1> QED BY <1>6, <1>9, <1>10 DEF MemoryInvariant

LEMMA MemorySteps ==
    ASSUME MemoryInvariant, [MemoryNext]_memoryVars
    PROVE  MemoryInvariant' /\ Forwards(memories')
<1>1. /\ worker \in [Workers -> WorkerStates] /\ period \in Nat
      /\ \A chosen \in sweep : Unique(chosen)
  BY DEF MemoryInvariant
<1>2. ASSUME NEW w \in Workers, NEW job \in DOMAIN Jobs, BeginJob(w, job)
      PROVE  MemoryInvariant' /\ Forwards(memories')
  BY <1>2, JobKeeps
<1>3. ASSUME NEW w \in Workers, Observe(w) \/ SaveJobResult(w) \/ Abandon(w)
      PROVE  MemoryInvariant' /\ Forwards(memories')
  BY <1>3, JobKeeps
<1>4. ASSUME NEW w \in Workers, Write(w) PROVE MemoryInvariant' /\ Forwards(memories')
  BY <1>4, WriteKeeps
<1>5. ASSUME NEW row \in memories, NEW mode, SelectForDelete(row, mode)
      PROVE  MemoryInvariant' /\ Forwards(memories')
  <2>1. UNCHANGED <<memories, graves, worker, sweep, period>> BY <1>5 DEF SelectForDelete
  <2>2. Copies' \subseteq Copies BY <1>5 DEF SelectForDelete, Copies, Selected
  <2> QED BY <1>1, <2>1, <2>2, TableKept
<1>6. ASSUME NEW source \in Sources, Revoke(source) PROVE MemoryInvariant' /\ Forwards(memories')
  <2>1. PICK chosen : chosen = {m \in memories : m.status = "ACTIVE" /\ source \in m.sources} OBVIOUS
  <2>2. sweep' = {chosen} /\ UNCHANGED <<memories, graves, worker, deletion, period>>
    BY <1>6, <2>1 DEF Revoke
  <2>3. Copies' \subseteq Copies BY <2>1, <2>2 DEF Copies, Selected
  <2>4. Unique(chosen) BY <2>1 DEF MemoryInvariant, Lines, Unique
  <2> QED BY <1>1, <2>2, <2>3, <2>4, TableKept
<1>7. CASE Elapse
  <2>1. UNCHANGED <<memories, graves, worker, deletion, sweep>> /\ period' \in Nat
    BY <1>1, <1>7 DEF Elapse
  <2>2. Copies' \subseteq Copies BY <2>1 DEF Copies, Selected
  <2> QED BY <1>1, <2>1, <2>2, TableKept
<1>8. CASE UNCHANGED memoryVars
  <2>1. UNCHANGED <<memories, graves, worker, deletion, sweep, period>> BY <1>8 DEF memoryVars
  <2>2. Copies' \subseteq Copies BY <2>1 DEF Copies, Selected
  <2> QED BY <1>1, <2>1, <2>2, TableKept
<1> QED BY <1>2, <1>3, <1>4, <1>5, <1>6, <1>7, <1>8, DeleteKeeps, HardDeleteKeeps, InvalidateKeeps
        DEF MemoryNext

(* ------------------------------ forgetting ----------------------------- *)

\* What a job's write makes of the table: rows of its record, or rows that stay.
LEMMA WriteMakes ==
    ASSUME MemoryInvariant, NEW w \in Workers, Write(w)
    PROVE  \E record \in FirstRows :
              /\ Delivers(w, record)
              /\ \A m \in memories : \E n \in memories' : n.id = m.id
              /\ \A n \in memories' :
                    \/ n \in memories
                    \/ Stored(n.id) /\ n.status # "ACTIVE"
                    \/ /\ n.status = "ACTIVE" /\ n.key = record.key /\ n.value = record.value
                       /\ n.sources = record.sources
                    \/ \E m \in memories :
                          /\ n.id = m.id /\ m.status = "ACTIVE" /\ n.key = record.key
                          /\ n.sources = m.sources \cup record.sources
<1>1. worker \in [Workers -> WorkerStates] /\ \A n \in memories : SoundRow(n)
  BY DEF MemoryInvariant, Copies
<1>2. PICK record \in worker[w].record :
        /\ WriteStep(record, worker[w].expected)
        /\ worker' = [worker EXCEPT ![w].written = Append(@, WrittenId(record)),
                                    ![w].record = {}, ![w].expected = 0]
  BY DEF Write
<1>3. record \in FirstRows BY <1>1 DEF WorkerStates
<1>4. Delivers(w, record)
  <2>1. worker'[w].record = {} BY <1>1, <1>2 DEF WorkerStates
  <2> QED BY <2>1 DEF Delivers
<1>5. SoundRow(record) /\ record.status = "ACTIVE" BY <1>3 DEF FirstRows
<1>6. CASE InsertFirst(record, worker[w].expected)
  <2>1. memories' = memories \cup {record} BY <1>6 DEF InsertFirst
  <2> QED BY <1>3, <1>4, <1>5, <2>1
<1>7. ASSUME NEW row \in ActiveRow(record.key), MergeDuplicate(row, record)
      PROVE  /\ \A m \in memories : \E n \in memories' : n.id = m.id
             /\ \A n \in memories' : \/ n \in memories
                                     \/ \E m \in memories :
                                           /\ n.id = m.id /\ m.status = "ACTIVE"
                                           /\ n.key = record.key
                                           /\ n.sources = m.sources \cup record.sources
  <2>1. row \in memories /\ row.status = "ACTIVE" /\ row.key = record.key BY DEF ActiveRow
  <2>2. PICK new : new = Merged(row, record) OBVIOUS
  <2>3. SameRow(new, row) /\ new.sources = row.sources \cup record.sources
    BY <1>1, <1>5, <2>1, <2>2, MergedIs
  <2>4. memories' = (memories \ {row}) \cup {new} BY <1>7, <2>2 DEF MergeDuplicate
  <2>5. new.id = row.id /\ new.key = record.key BY <2>1, <2>3 DEF SameRow
  <2> QED BY <2>1, <2>3, <2>4, <2>5
<1>8. ASSUME NEW row \in ActiveRow(record.key), Supersede(row, record, worker[w].expected)
      PROVE  /\ \A m \in memories : \E n \in memories' : n.id = m.id
             /\ \A n \in memories' : \/ n \in memories
                                     \/ Stored(n.id) /\ n.status # "ACTIVE"
                                     \/ /\ n.status = "ACTIVE" /\ n.key = record.key
                                        /\ n.value = record.value /\ n.sources = record.sources
  <2>1. row \in memories BY DEF ActiveRow
  <2>2. PICK old, new : /\ old = Retouched(row, "SUPERSEDED", record.from)
                        /\ new = Replacement(row, record)
    OBVIOUS
  <2>3. SameRow(old, row) /\ old.status = "SUPERSEDED"
    <3>1. record.from \in Nat /\ "SUPERSEDED" \in RecordStatuses
      BY <1>5 DEF SoundRow, MemoryRows, RecordStatuses
    <3> QED BY <1>1, <2>1, <2>2, <3>1, RetouchedIs
  <2>4. /\ new.key = record.key /\ new.value = record.value /\ new.status = record.status
        /\ new.sources = record.sources
    BY <1>1, <1>5, <2>1, <2>2, ReplacementIs
  <2>5. memories' = (memories \ {row}) \cup {old, new} BY <1>8, <2>2 DEF Supersede, Retouched
  <2>6. old.id = row.id /\ Stored(old.id) BY <2>1, <2>3 DEF SameRow, Stored
  <2> QED BY <1>5, <2>1, <2>3, <2>4, <2>5, <2>6
<1> QED BY <1>2, <1>3, <1>4, <1>6, <1>7, <1>8 DEF WriteStep

\* Deletion and invalidation write quarantined copies of stored rows; a hard deletion
\* leaves tombstones.
LEMMA ForgettingMakes ==
    ASSUME MemoryInvariant, Delete \/ HardDelete \/ Invalidate
    PROVE  /\ \A m \in memories : (\E n \in memories' : n.id = m.id) \/ m.id \in graves'
           /\ \A n \in memories' : n \in memories \/ (Stored(n.id) /\ Quarantined(n))
<1>1. CASE Delete
  <2>1. PICK d \in deletion : memories' = Quarantine(d.row, DeletedStatus(d.mode))
    BY <1>1 DEF Delete
  <2>2. PICK status, q : /\ status = DeletedStatus(d.mode)
                         /\ q = [d.row EXCEPT !.status = status]
    OBVIOUS
  <2>3. status \in {"DISPUTED", "SOFT_DELETED"} BY <2>2 DEF DeletedStatus
  <2>4. SoundRow(d.row) /\ status \in RecordStatuses
    BY <2>3 DEF MemoryInvariant, Copies, Selected, RecordStatuses
  <2>5. q.id = d.row.id /\ Quarantined(q)
    <3>1. SameRow(q, d.row) /\ q.status = status BY <2>2, <2>4, RestatusedIs
    <3> QED BY <2>3, <3>1 DEF SameRow, Quarantined
  <2>6. CASE Stored(d.row.id)
    <3>1. memories' = {m \in memories : m.id # d.row.id} \cup {q}
      BY <2>1, <2>2, <2>6 DEF Quarantine
    <3> QED BY <2>5, <2>6, <3>1
  <2>7. CASE ~Stored(d.row.id) BY <2>1, <2>7 DEF Quarantine
  <2> QED BY <2>6, <2>7
<1>2. CASE HardDelete
  <2>1. PICK d \in deletion :
          \/ UNCHANGED <<memories, graves>>
          \/ memories' = {m \in memories : m.id # d.row.id} /\ graves' = graves \cup {d.row.id}
    BY <1>2 DEF HardDelete
  <2> QED BY <2>1
<1>3. CASE Invalidate
  <2>1. PICK selected \in sweep :
          memories' = {m \in memories : m.id \notin {old.id : old \in selected}} \cup
             {[old EXCEPT !.status = "INVALIDATED"] : old \in {o \in selected : Stored(o.id)}}
    BY <1>3 DEF Invalidate
  <2>2. \A old \in selected : /\ [old EXCEPT !.status = "INVALIDATED"].id = old.id
                              /\ Quarantined([old EXCEPT !.status = "INVALIDATED"])
    <3> TAKE old \in selected
    <3>1. SoundRow(old) /\ "INVALIDATED" \in RecordStatuses
      BY DEF MemoryInvariant, Copies, Selected, RecordStatuses
    <3>2. PICK q : q = [old EXCEPT !.status = "INVALIDATED"] OBVIOUS
    <3>3. SameRow(q, old) /\ q.status = "INVALIDATED" BY <3>1, <3>2, RestatusedIs
    <3> QED BY <3>2, <3>3 DEF SameRow, Quarantined
  <2>3. ASSUME NEW m \in memories PROVE \E n \in memories' : n.id = m.id
    <3>1. CASE m.id \in {old.id : old \in selected}
      <4>1. PICK old \in selected : old.id = m.id BY <3>1
      <4>2. Stored(old.id) BY <4>1 DEF Stored
      <4> QED BY <2>1, <2>2, <4>1, <4>2
    <3>2. CASE m.id \notin {old.id : old \in selected} BY <2>1, <3>2
    <3> QED BY <3>1, <3>2
  <2>4. ASSUME NEW n \in memories', n \notin memories PROVE Stored(n.id) /\ Quarantined(n)
    <3>1. PICK old \in selected : Stored(old.id) /\ n = [old EXCEPT !.status = "INVALIDATED"]
      BY <2>1, <2>4
    <3> QED BY <2>2, <3>1
  <2> QED BY <2>3, <2>4
<1> QED BY <1>1, <1>2, <1>3

\* The steps that leave the table alone.
Aside ==
    \/ \E w \in Workers :
          \/ \E job \in DOMAIN Jobs : BeginJob(w, job)
          \/ Observe(w) \/ SaveJobResult(w) \/ Abandon(w)
    \/ \E row \in memories, mode \in {"DISPUTE", "SOFT", "HARD"} : SelectForDelete(row, mode)
    \/ \E source \in Sources : Revoke(source)
    \/ Elapse

LEMMA AsideLeaves == Aside => UNCHANGED memories
BY DEF Aside, BeginJob, Observe, SaveJobResult, Abandon, SelectForDelete, Revoke, Elapse

LEMMA QuarantineStays ==
    ASSUME MemoryInvariant, MemoryNext, Forwards(memories')
    PROVE  QuarantineHolds
<1> SUFFICES ASSUME NEW m \in memories, Quarantined(m)
             PROVE  /\ \A n \in memories' : n.id = m.id => Quarantined(n)
                    /\ (\E n \in memories' : n.id = m.id) \/ m.id \in graves'
                    /\ \A mode \in {"CURRENT", "AS_OF"}, at \in 0 .. Periods :
                          \A n \in Retrievable(mode, at)' : n.id # m.id
  BY DEF QuarantineHolds
<1>1. \A n \in memories' : n.id = m.id => Quarantined(n)
  <2> SUFFICES ASSUME NEW n \in memories', n.id = m.id PROVE Quarantined(n) OBVIOUS
  <2>1. CASE \E old \in memories : Onward(old, n)
    <3>1. PICK old \in memories : Onward(old, n) BY <2>1
    <3>2. old = m BY <3>1 DEF Onward, MemoryInvariant, Lines, Unique
    <3> QED BY <3>1, <3>2 DEF Onward
  <2>2. Stored(n.id) BY DEF Stored
  <2> QED BY <2>1, <2>2 DEF Forwards
<1>2. (\E n \in memories' : n.id = m.id) \/ m.id \in graves'
  <2>1. CASE Aside BY <2>1, AsideLeaves
  <2>2. ASSUME NEW w \in Workers, Write(w) PROVE \E n \in memories' : n.id = m.id
    BY <2>2, WriteMakes
  <2>3. CASE Delete \/ HardDelete \/ Invalidate BY <2>3, ForgettingMakes
  <2> QED BY <2>1, <2>2, <2>3 DEF MemoryNext, Aside
<1>3. \A mode, at : \A n \in Retrievable(mode, at)' : n \in memories' /\ ~Quarantined(n)
  BY DEF Retrievable, Quarantined
<1> QED BY <1>1, <1>2, <1>3

LEMMA ErasedStays ==
    ASSUME MemoryInvariant, MemoryNext
    PROVE  ErasedStaysErased
<1> SUFFICES ASSUME NEW n \in memories', ~Stored(n.id)
             PROVE  \E w \in Workers : \E record \in worker[w].record :
                       /\ Delivers(w, record)
                       /\ n.key = record.key /\ n.value = record.value /\ n.status = "ACTIVE"
  BY DEF ErasedStaysErased
<1>1. n \notin memories BY DEF Stored
<1>2. CASE Aside BY <1>1, <1>2, AsideLeaves
<1>3. CASE Delete \/ HardDelete \/ Invalidate BY <1>1, <1>3, ForgettingMakes
<1>4. ASSUME NEW w \in Workers, Write(w)
      PROVE  \E record \in worker[w].record :
                /\ Delivers(w, record)
                /\ n.key = record.key /\ n.value = record.value /\ n.status = "ACTIVE"
  <2>1. PICK record \in FirstRows :
          /\ Delivers(w, record)
          /\ \/ n.status = "ACTIVE" /\ n.key = record.key /\ n.value = record.value
             \/ \E m \in memories : n.id = m.id
    BY <1>1, <1>4, WriteMakes
  <2> QED BY <2>1 DEF Stored, Delivers
<1> QED BY <1>2, <1>3, <1>4 DEF MemoryNext, Aside

\* Only an admission gives a job a record, and it asks for the sources.
LEMMA AdmissionAsks ==
    ASSUME MemoryInvariant, MemoryNext, NEW s \in Sources \ active, NEW v \in Workers,
           NEW record \in worker'[v].record, s \in record.sources
    PROVE  record \in worker[v].record
<1>1. worker \in [Workers -> WorkerStates] BY DEF MemoryInvariant
<1>2. CASE UNCHANGED worker BY <1>2
<1>3. ASSUME NEW w \in Workers, NEW job \in DOMAIN Jobs, BeginJob(w, job)
      PROVE  record \in worker[v].record
  <2>1. worker'[v].record = worker[v].record BY <1>1, <1>3 DEF BeginJob, WorkerStates
  <2> QED BY <2>1
<1>4. ASSUME NEW w \in Workers, SaveJobResult(w) \/ Abandon(w) PROVE record \in worker[v].record
  <2>1. v # w BY <1>1, <1>4 DEF SaveJobResult, Abandon, IdleWorker
  <2> QED BY <1>1, <1>4, <2>1 DEF SaveJobResult, Abandon
<1>5. ASSUME NEW w \in Workers, Write(w) PROVE record \in worker[v].record
  <2>1. PICK written \in FirstRows : Delivers(w, written) BY <1>5, WriteMakes
  <2>2. v # w BY <2>1 DEF Delivers
  <2> QED BY <1>1, <1>5, <2>2 DEF Write
<1>6. ASSUME NEW w \in Workers, Observe(w) PROVE record \in worker[v].record
  <2>1. CASE v # w BY <1>1, <1>6, <2>1 DEF Observe
  <2>2. CASE v = w
    <3>1. PICK c : c = Current(w) /\ Provenance(c) \subseteq active BY <1>6 DEF Observe, Admitted
    <3>2. worker'[v].record = {BuildRecord(c)} BY <1>1, <1>6, <2>2, <3>1 DEF Observe, WorkerStates
    <3>3. record.sources = Provenance(c) BY <3>2 DEF BuildRecord
    <3> QED BY <3>1, <3>3
  <2> QED BY <2>1, <2>2
<1>7. UNCHANGED worker \/ \E w \in Workers :
         \/ \E job \in DOMAIN Jobs : BeginJob(w, job)
         \/ Observe(w) \/ Write(w) \/ SaveJobResult(w) \/ Abandon(w)
  BY DEF MemoryNext, SelectForDelete, Delete, HardDelete, Revoke, Invalidate, Elapse
<1> QED BY <1>2, <1>3, <1>4, <1>5, <1>6, <1>7

\* A row comes to rest on a revoked source by a job that holds such a record.
LEMMA ActiveRests ==
    ASSUME MemoryInvariant, MemoryNext, NEW s \in Sources \ active,
           NEW n \in memories', n.status = "ACTIVE", s \in n.sources
    PROVE  \/ \E m \in memories : m.id = n.id /\ m.status = "ACTIVE" /\ s \in m.sources
           \/ \E w \in Workers : \E record \in worker[w].record :
                 Delivers(w, record) /\ n.key = record.key /\ s \in record.sources
<1>1. CASE n \in memories BY <1>1
<1>2. CASE n \notin memories
  <2>1. CASE Aside BY <1>2, <2>1, AsideLeaves
  <2>2. CASE Delete \/ HardDelete \/ Invalidate
    <3>1. Quarantined(n) BY <1>2, <2>2, ForgettingMakes
    <3> QED BY <3>1 DEF Quarantined
  <2>3. ASSUME NEW w \in Workers, Write(w)
        PROVE  \/ \E m \in memories : m.id = n.id /\ m.status = "ACTIVE" /\ s \in m.sources
               \/ \E record \in worker[w].record :
                     Delivers(w, record) /\ n.key = record.key /\ s \in record.sources
    <3>1. PICK record \in FirstRows :
            /\ Delivers(w, record)
            /\ \/ n.key = record.key /\ n.sources = record.sources
               \/ \E m \in memories :
                     /\ n.id = m.id /\ m.status = "ACTIVE" /\ n.key = record.key
                     /\ n.sources = m.sources \cup record.sources
      BY <1>2, <2>3, WriteMakes
    <3> QED BY <3>1 DEF Delivers
  <2> QED BY <2>1, <2>2, <2>3 DEF MemoryNext, Aside
<1> QED BY <1>1, <1>2

\* One sweep is under way at a time.
OneSweep == \A a, b \in sweep : a = b

LEMMA SweepsAreOne == OneSweep /\ [MemoryNext]_memoryVars => OneSweep'
<1> SUFFICES ASSUME OneSweep, [MemoryNext]_memoryVars PROVE OneSweep' OBVIOUS
<1>1. UNCHANGED sweep \/ Invalidate \/ \E source \in Sources : Revoke(source)
  BY Zenon DEF MemoryNext, memoryVars, BeginJob, Observe, Write, SaveJobResult, Abandon,
               SelectForDelete, Delete, HardDelete, Elapse
<1> QED BY <1>1, Zenon DEF OneSweep, Invalidate, Revoke

LEMMA SweepEnds ==
    ASSUME MemoryInvariant, OneSweep, MemoryNext, NEW selected \in sweep, sweep' = {},
           NEW old \in selected, NEW n \in memories', n.id = old.id
    PROVE  Quarantined(n)
<1>1. Invalidate
  <2>1. Invalidate \/ UNCHANGED sweep \/ sweep = {}
    BY Zenon DEF MemoryNext, BeginJob, Observe, Write, SaveJobResult, Abandon, SelectForDelete,
                 Delete, HardDelete, Revoke, Elapse
  <2> QED BY <2>1
<1>2. memories' = {m \in memories : m.id \notin {o.id : o \in selected}} \cup
         {[o EXCEPT !.status = "INVALIDATED"] : o \in {x \in selected : Stored(x.id)}}
  BY <1>1 DEF Invalidate, OneSweep
<1>3. PICK o \in selected : n = [o EXCEPT !.status = "INVALIDATED"] BY <1>2
<1>4. SoundRow(o) /\ "INVALIDATED" \in RecordStatuses
  BY DEF MemoryInvariant, Copies, Selected, RecordStatuses
<1> QED BY <1>3, <1>4, RestatusedIs DEF Quarantined

\* What was disputed, deleted or invalidated comes back neither as current nor as history
\* unless it was hard-deleted and a job writes it again, and nothing is admitted on a
\* revoked source (retrieve, delete, write, the lifecycle service).
THEOREM OnlyWritesBringBack == MemorySpec => ForgettingHolds
<1>1. MemoryInvariant /\ OneSweep /\ [MemoryNext]_memoryVars =>
        [QuarantineHolds /\ ErasedStaysErased /\ RevocationHolds]_memoryVars
  <2> SUFFICES ASSUME MemoryInvariant, OneSweep, MemoryNext
               PROVE  QuarantineHolds /\ ErasedStaysErased /\ RevocationHolds
    OBVIOUS
  <2>1. QuarantineHolds BY MemorySteps, QuarantineStays
  <2>2. ErasedStaysErased BY ErasedStays
  <2>3. RevocationHolds BY AdmissionAsks, ActiveRests, SweepEnds DEF RevocationHolds
  <2> QED BY <2>1, <2>2, <2>3
<1>2. MemoryInvariant /\ [MemoryNext]_memoryVars => MemoryInvariant'
  BY MemorySteps
<1>3. MemoryInit => OneSweep BY DEF MemoryInit, OneSweep
<1> QED BY <1>1, <1>2, <1>3, MemoryStarts, SweepsAreOne, PTL DEF MemorySpec, ForgettingHolds

\* Replayed and racing jobs, deletions and revocations keep one active row of a key and one
\* line of versions, and what a value rests on only grows (write, consolidate, invalidate).
THEOREM MemoriesStayInLine == MemorySpec => MemoriesKeepTheirLine
<1>1. MemoryInvariant => OneLineOfVersions
  <2> SUFFICES ASSUME MemoryInvariant PROVE OneLineOfVersions OBVIOUS
  <2>1. Lines(memories, Copies, graves) /\ \A a \in memories : SoundRow(a)
    BY DEF MemoryInvariant, Copies
  <2>2. \A m, n \in memories : m.id = n.id => m = n BY <2>1 DEF Lines, Unique
  <2>3. \A m, n \in memories : m.key = n.key /\ m.status = "ACTIVE" /\ n.status = "ACTIVE" => m = n
    BY <2>1 DEF Lines
  <2>4. \A m, n \in memories :
           m.supersedes = n.supersedes /\ m.supersedes \notin graves \cup {<<>>} => m = n
    BY <2>1, <2>2 DEF Lines
  <2>5. ASSUME NEW m \in memories, NEW old \in memories, m.supersedes = old.id, old.id \notin graves
        PROVE  /\ old.key = m.key /\ old.version = m.version - 1
               /\ old.value # m.value /\ old.status # "ACTIVE"
    <3>1. old.id # <<>> BY <2>1 DEF SoundRow
    <3>2. m \in Copies /\ m.supersedes \notin graves \cup {<<>>} BY <2>5, <3>1 DEF Copies
    <3>3. PICK other \in memories : Precedes(other, m) BY <2>1, <3>2 DEF Lines
    <3>4. other = old BY <2>2, <2>5, <3>3 DEF Precedes
    <3> QED BY <3>3, <3>4 DEF Precedes
  <2> QED BY <2>2, <2>3, <2>4, <2>5 DEF OneLineOfVersions
<1>2. MemoryInvariant /\ MemoryInvariant' /\ Forwards(memories') =>
        \A m \in memories, n \in memories' :
          n.id = m.id /\ ~Quarantined(n) =>
             /\ m.sources \subseteq n.sources /\ n.rank <= m.rank /\ n.trust >= m.trust
             /\ ~Policy[n.key].authority
             /\ \/ Policy[n.key].verifier = NoVerifier
                \/ \E s \in n.sources : SourceType[s] = Policy[n.key].verifier
  <2> SUFFICES ASSUME MemoryInvariant, MemoryInvariant', Forwards(memories'),
                      NEW m \in memories, NEW n \in memories', n.id = m.id, ~Quarantined(n)
               PROVE  /\ m.sources \subseteq n.sources /\ n.rank <= m.rank /\ n.trust >= m.trust
                      /\ ~Policy[n.key].authority
                      /\ \/ Policy[n.key].verifier = NoVerifier
                         \/ \E s \in n.sources : SourceType[s] = Policy[n.key].verifier
    OBVIOUS
  <2>1. Stored(n.id) BY DEF Stored
  <2>2. PICK old \in memories : Onward(old, n) BY <2>1 DEF Forwards
  <2>3. old = m BY <2>2 DEF Onward, MemoryInvariant, Lines, Unique
  <2>4. m.sources \subseteq n.sources /\ n.rank <= m.rank /\ n.trust >= m.trust
    BY <2>2, <2>3 DEF Onward
  <2>5. n \in Copies' BY DEF Copies
  <2>6. SoundRow(n) BY <2>5 DEF MemoryInvariant
  <2> QED BY <2>4, <2>6 DEF SoundRow, Grounded
<1> QED BY <1>1, <1>2, MemoryStarts, MemorySteps, PTL
        DEF MemorySpec, MemoriesKeepTheirLine, ProvenanceIsKept
=============================================================================
