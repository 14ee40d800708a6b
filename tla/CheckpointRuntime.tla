------------------------- MODULE CheckpointRuntime -------------------------
(***************************************************************************)
(* The durable incident runtime of intermediate/10: IncidentRuntime over   *)
(* SQLiteCheckpointRepository, a human's decision on its proposal, and the *)
(* idempotent executor an approved run is handed to.                       *)
(*                                                                         *)
(* A runtime works on the state it holds in memory; every operation ends   *)
(* in a save: one statement reads the next sequence number, another        *)
(* inserts the row.  A runtime may die, or the insert fail, between them.  *)
(* Several runtimes may be on one thread: an old process and the one that  *)
(* replaces it.  Time is counted in half hours; a checkpoint is kept for   *)
(* two of them instead of a day, so that it outlives the deadline only.    *)
(***************************************************************************)
EXTENDS Naturals, FiniteSets

CONSTANTS
    Runtimes,     \* processes that hold an IncidentRuntime
    Reads,        \* the read tools the callers use
    ToolBudget, RetryBudget,
    Targets,      \* deployments a proposal may name
    Histories,    \* what the thread may hold at first: tables left by earlier processes
    Horizon,      \* bound: the clock stops here
    MaxRows       \* bound: checkpoints ever inserted

VARIABLES
    rows,       \* table checkpoints
    tombstones, \* table checkpoint_tombstones
    inserted,   \* how many checkpoints were ever inserted
    runtime,    \* what each process holds in memory
    decisions,  \* the decisions reviewers have made
    commits,    \* the executor's commits: operation and mode of each
    clock

ckptVars == <<rows, tombstones, inserted, runtime, decisions, commits, clock>>

(* ----------------------------- the records ----------------------------- *)

ThreadIds == {"incident", "fork"}
EvidenceSources == {"read-health", "read-logs", "read-deployment", "cache-monitor"}
Nodes == Reads \cup {"form-hypothesis", "prepare-proposal", "approval-validated"}
RunStatuses == {"RUNNING", "INTERRUPTED", "NEEDS_HUMAN_REVIEW", "BUDGET_EXHAUSTED",
             "CANCELLED", "APPROVED_FOR_EXECUTION", "FAILED"}
Deadline == 2
Retention == 2
Nothing == "none"
\* operation is the logical operation id, which names a target as well.
Proposals == [target: Targets, operation: Targets, made: 0 .. Horizon, expires: 0 .. Horizon + 1]
NoProposal == [target |-> Nothing, operation |-> Nothing, made |-> 0, expires |-> 0]

States ==
    [done: SUBSET Nodes, twice: BOOLEAN, evidence: SUBSET EvidenceSources,
     calls: 0 .. ToolBudget, budget: 0 .. ToolBudget, retries: 0 .. RetryBudget,
     hypothesis: BOOLEAN, confidence: 0 .. 2,
     proposal: Proposals \cup {NoProposal}, audit: Proposals \cup {NoProposal},
     operation: Targets, status: RunStatuses, mode: {"LIVE", "REPLAY"}, last: 0 .. MaxRows]

Rows == [id: 1 .. MaxRows, thread: ThreadIds, seq: 1 .. MaxRows, parent: 0 .. MaxRows,
         expires: 0 .. Horizon + Retention, state: States]

\* thread and state are those of the last load or operation; seq is the number
\* read for the save under way, 0 if there is none.
NoState == [status |-> Nothing]
NoRuntime == [thread |-> "incident", state |-> NoState, seq |-> 0]

TheTarget == CHOOSE t \in Targets : TRUE
FirstState ==
    [done |-> {}, twice |-> FALSE, evidence |-> {}, calls |-> 0, budget |-> ToolBudget,
     retries |-> RetryBudget, hypothesis |-> FALSE, confidence |-> 0,
     proposal |-> NoProposal, audit |-> NoProposal, operation |-> TheTarget,
     status |-> "RUNNING", mode |-> "LIVE", last |-> 0]

\* How a state goes on from an earlier one: what is done and what is known only grow, and
\* a completed read is paid for.
CarriesOn(old, new) ==
    /\ old.done \subseteq new.done /\ old.evidence \subseteq new.evidence
    /\ new.retries <= old.retries
    /\ new.calls - old.calls >= Cardinality((new.done \ old.done) \cap Reads)

\* What an investigation that nobody has approved yet may have left in the table.
LeftBehind(table) ==
    /\ IsFiniteSet(table) /\ table \subseteq Rows
    /\ \A row \in table :
          /\ row.id <= Cardinality(table) /\ row.parent < row.id /\ row.thread = "incident"
          /\ row.state.last = row.id /\ row.state.calls + row.state.budget = ToolBudget
          /\ row.state.audit = NoProposal /\ row.state.status # "APPROVED_FOR_EXECUTION"
          /\ row.state.proposal.operation \in {Nothing, row.state.operation}
          /\ \A other \in table :
                /\ other.id = row.id => other = row
                /\ other.id = row.parent => CarriesOn(other.state, row.state)

ASSUME CkptAssumption ==
    /\ {ToolBudget, RetryBudget, Horizon, MaxRows} \subseteq Nat
    /\ Targets # {} /\ Nothing \notin Targets
    /\ Reads \subseteq EvidenceSources \ {"cache-monitor"}
    /\ \A table \in Histories : LeftBehind(table)

(* --------------------------- the repository ---------------------------- *)

Of(thread) == {r \in rows : r.thread = thread}
NextSequence(thread) ==
    1 + (IF Of(thread) = {} THEN 0
         ELSE CHOOSE n \in {r.seq : r \in Of(thread)} : \A r \in Of(thread) : r.seq <= n)
\* ORDER BY sequence DESC LIMIT 1: rows with equal numbers come in any order.
Newest(thread) == {r \in Of(thread) : \A q \in Of(thread) : q.seq <= r.seq}
\* What load refuses: a tombstone, an expired row, a payload that fails validation.
Loads(row) == row.id \notin tombstones /\ clock <= row.expires /\ ~row.state.twice

Insert(row) ==
    /\ rows' = rows \cup {row}
    /\ inserted' = inserted + 1

Row(thread, seq, parent, state) ==
    [id |-> inserted + 1, thread |-> thread, seq |-> seq, parent |-> parent,
     expires |-> clock + Retention, state |-> [state EXCEPT !.last = inserted + 1]]

\* The second statement of a save, and the runtime's copy of what was saved.
Save(p) ==
    LET r == runtime[p] row == Row(r.thread, r.seq, r.state.last, r.state) IN
    /\ r.seq > 0
    /\ inserted < MaxRows
    /\ Insert(row)
    /\ runtime' = [runtime EXCEPT ![p].state = row.state, ![p].seq = 0]
    /\ UNCHANGED <<tombstones, decisions, commits, clock>>

\* The payload is too large or the database is locked: memory is ahead of the table.
SaveFails(p) ==
    /\ runtime[p].seq > 0
    /\ runtime' = [runtime EXCEPT ![p].seq = 0]
    /\ UNCHANGED <<rows, tombstones, inserted, decisions, commits, clock>>

\* A read-only copy of an earlier state on a thread of its own.
Fork(row) ==
    /\ row \in Of("incident")
    /\ Loads(row)
    /\ inserted < MaxRows
    /\ Insert(Row("fork", NextSequence("fork"), row.id,
              [row.state EXCEPT !.mode = "REPLAY", !.proposal = NoProposal,
                                !.audit = NoProposal, !.status = "RUNNING", !.last = 0]))
    /\ UNCHANGED <<tombstones, runtime, decisions, commits, clock>>

DeleteCheckpoint(row) ==
    /\ Loads(row)
    /\ tombstones' = tombstones \cup {row.id}
    /\ UNCHANGED <<rows, inserted, runtime, decisions, commits, clock>>

Purge(thread) ==
    LET gone == {r \in Of(thread) : r.id \in tombstones \/ clock > r.expires} IN
    /\ gone # {}
    /\ rows' = rows \ gone
    /\ tombstones' = tombstones \ {r.id : r \in gone}
    /\ UNCHANGED <<inserted, runtime, decisions, commits, clock>>

(* ----------------------------- the runtime ----------------------------- *)

Ready(p) == runtime[p].seq = 0 /\ runtime[p].state # NoState

\* An operation changes the state in memory and reads the number of its row.
Becomes(p, thread, state) ==
    /\ runtime' = [runtime EXCEPT ![p] =
                     [thread |-> thread, state |-> state, seq |-> NextSequence(thread)]]
    /\ UNCHANGED <<rows, tombstones, inserted, decisions, commits, clock>>
Update(p, state) == Becomes(p, runtime[p].thread, state)

\* completed_nodes is a tuple: a second completion leaves a duplicate in it.
Completed(state, node) ==
    [state EXCEPT !.done = @ \cup {node}, !.twice = @ \/ node \in state.done]
\* Wrong: a failed call is counted, but the budget is left as it was.
CountCall(state) == [state EXCEPT !.calls = @ + 1]
Charged(state) == [state EXCEPT !.calls = @ + 1, !.budget = @ - 1]

Start(p) ==
    /\ runtime[p] = NoRuntime
    /\ Becomes(p, "incident", FirstState)

Resume(p, thread) ==
    /\ runtime[p].seq = 0
    /\ \E row \in Newest(thread) :
          /\ Loads(row)
          /\ runtime' = [runtime EXCEPT ![p] =
                           [thread |-> thread, state |-> row.state, seq |-> 0]]
    /\ UNCHANGED <<rows, tombstones, inserted, decisions, commits, clock>>

\* _read_tool goes on to the call: the read is neither done nor the run over.
Open(p, node) ==
    /\ Ready(p)
    /\ node \notin runtime[p].state.done
    /\ runtime[p].state.status = "RUNNING"

\* The deadline has not passed and the budget is not used up.
Affordable(p) == clock <= Deadline /\ runtime[p].state.budget > 0

Read(p, node) ==
    /\ Open(p, node)
    /\ Affordable(p)
    /\ Update(p, Completed(Charged([runtime[p].state EXCEPT !.evidence = @ \cup {node}]), node))

ReadTimesOut(p) ==
    LET state == runtime[p].state IN
    /\ "read-logs" \in Reads
    /\ Open(p, "read-logs")
    /\ Affordable(p)
    /\ \/ /\ state.retries > 0
          /\ Update(p, Charged([state EXCEPT !.retries = @ - 1]))
       \/ /\ state.retries = 0
          /\ Update(p, Charged([state EXCEPT !.status = "FAILED"]))

ReadIsRefused(p, node) ==
    /\ Open(p, node)
    /\ ~Affordable(p)
    /\ Update(p, [runtime[p].state EXCEPT !.status = "BUDGET_EXHAUSTED"])

AddEvidence(p) ==
    /\ Ready(p)
    /\ Update(p, [runtime[p].state EXCEPT !.evidence = @ \cup {"cache-monitor"}])

\* Groups that support the deployment as the cause, of the two there are.
Support(evidence) == Cardinality(evidence \cap {"read-logs", "read-deployment"})
Conflict(evidence) == "cache-monitor" \in evidence /\ Support(evidence) > 0

FormHypothesis(p) ==
    LET state == Completed(runtime[p].state, "form-hypothesis") IN
    /\ Ready(p)
    /\ "form-hypothesis" \notin runtime[p].state.done
    /\ \/ /\ Conflict(state.evidence)
          /\ Update(p, [state EXCEPT !.status = "NEEDS_HUMAN_REVIEW"])
       \/ /\ ~Conflict(state.evidence)
          /\ Update(p, [state EXCEPT !.hypothesis = Support(state.evidence) > 0,
                                     !.confidence = Support(state.evidence)])

Proposes(state, proposal) ==
    [state EXCEPT !.proposal = proposal, !.operation = proposal.operation]

\* Target and times of a first proposal are fixed: it is good for the first half hour.
PrepareProposal(p) ==
    LET state == runtime[p].state IN
    /\ Ready(p)
    /\ state.status # "NEEDS_HUMAN_REVIEW"
    /\ state.hypothesis /\ state.confidence = 2
    /\ Update(p, Completed([Proposes(state, [target |-> TheTarget, made |-> 0, expires |-> 1,
                                            operation |-> state.operation])
                           EXCEPT !.status = "INTERRUPTED"], "prepare-proposal"))

ReviseProposal(p, target) ==
    LET state == runtime[p].state IN
    /\ Ready(p)
    /\ state.proposal # NoProposal
    /\ state.status = "INTERRUPTED"
    /\ Update(p, Proposes(state, [target |-> target, operation |-> target, made |-> clock,
                                  expires |-> clock + 1]))

Cancel(p) ==
    /\ Ready(p)
    /\ Update(p, [runtime[p].state EXCEPT !.status = "CANCELLED"])

\* Wrong: the decision is matched by its operation, not by the proposal it was made on.
ValidForOperation(state, decision) ==
    /\ state.status = "INTERRUPTED"
    /\ state.proposal # NoProposal
    /\ decision.proposal.operation = state.proposal.operation
    /\ decision.at >= state.proposal.made /\ decision.at <= state.proposal.expires
    /\ clock <= state.proposal.expires
    /\ decision.approves

\* validate_approval_decision
Valid(state, decision) ==
    /\ state.status = "INTERRUPTED"
    /\ state.proposal # NoProposal
    /\ decision.proposal = state.proposal
    /\ decision.at >= state.proposal.made /\ decision.at <= state.proposal.expires
    /\ clock <= state.proposal.expires
    /\ decision.approves

ApprovedState(state) ==
    Completed([state EXCEPT !.proposal = NoProposal, !.audit = state.proposal,
                           !.status = "APPROVED_FOR_EXECUTION"], "approval-validated")

\* The newest checkpoint is loaded again, then the decision is validated on it.
ResumeWithApproval(p, thread, decision) ==
    /\ runtime[p].seq = 0
    /\ \E row \in Newest(thread) :
          /\ Loads(row)
          /\ Valid(row.state, decision)
          /\ Becomes(p, thread, ApprovedState(row.state))

Crash(p) ==
    /\ runtime[p] # NoRuntime
    /\ runtime' = [runtime EXCEPT ![p] = NoRuntime]
    /\ UNCHANGED <<rows, tombstones, inserted, decisions, commits, clock>>

(* --------------------------- around the runtime ------------------------ *)

\* A reviewer decides on a proposal that some checkpoint holds or held.
Decide(proposal, approves) ==
    /\ \E row \in rows : row.state.proposal = proposal
    /\ proposal # NoProposal
    /\ decisions' = decisions \cup {[proposal |-> proposal, approves |-> approves, at |-> clock]}
    /\ UNCHANGED <<rows, tombstones, inserted, runtime, commits, clock>>

\* An approved checkpoint is executed, any number of times: one receipt per operation.
Execute(row) ==
    /\ row.state.status = "APPROVED_FOR_EXECUTION"
    /\ row.state.mode = "LIVE"
    /\ \A c \in commits : c.operation # row.state.operation
    /\ commits' = commits \cup {[operation |-> row.state.operation, audit |-> row.state.audit,
                                 thread |-> row.thread]}
    /\ UNCHANGED <<rows, tombstones, inserted, runtime, decisions, clock>>

Tick ==
    /\ clock < Horizon
    /\ clock' = clock + 1
    /\ UNCHANGED <<rows, tombstones, inserted, runtime, decisions, commits>>

CkptInit ==
    /\ rows \in Histories
    /\ tombstones = {}
    /\ inserted = Cardinality(rows)
    /\ runtime = [p \in Runtimes |-> NoRuntime]
    /\ decisions = {}
    /\ commits = {}
    /\ clock = 0

RuntimeStep(p) ==
    \/ Start(p) \/ Save(p) \/ SaveFails(p) \/ Crash(p)
    \/ ReadTimesOut(p) \/ AddEvidence(p) \/ FormHypothesis(p) \/ PrepareProposal(p) \/ Cancel(p)
    \/ \E node \in Reads : Read(p, node) \/ ReadIsRefused(p, node)
    \/ \E target \in Targets : ReviseProposal(p, target)
    \/ \E thread \in ThreadIds :
          \/ Resume(p, thread)
          \/ \E d \in decisions : ResumeWithApproval(p, thread, d)

CkptNext ==
    \/ \E p \in Runtimes : RuntimeStep(p)
    \/ \E row \in rows : Fork(row) \/ DeleteCheckpoint(row) \/ Execute(row)
    \/ \E row \in rows, approves \in BOOLEAN : Decide(row.state.proposal, approves)
    \/ \E thread \in ThreadIds : Purge(thread)
    \/ Tick

CkptSpec == CkptInit /\ [][CkptNext]_ckptVars

(* ------------------------------ properties ----------------------------- *)

CkptTypeOK ==
    /\ rows \subseteq Rows
    /\ tombstones \subseteq 1 .. MaxRows
    /\ inserted \in 0 .. MaxRows
    /\ \A p \in Runtimes :
          /\ runtime[p].thread \in ThreadIds
          /\ runtime[p].state \in States \cup {NoState}
          /\ runtime[p].seq \in 0 .. MaxRows + 1
    /\ clock \in 0 .. Horizon

Parents(row) == {q \in rows : q.id = row.parent}

\* Work survives restarts, forks and failed saves: along every lineage evidence and
\* completed nodes only grow, a completed read is paid for once, and what was spent and
\* what is left add up to the budget (README: counters live in the checkpoint).
WorkIsKept ==
    \A row \in rows :
       /\ row.state.calls + row.state.budget = ToolBudget
       /\ \A q \in Parents(row) : CarriesOn(q.state, row.state)

\* An approval is of what was checkpointed: an approved row replaces an interrupted one
\* that held the very proposal, whoever revised or cancelled it elsewhere meanwhile.
ApprovalFollowsInterrupt ==
    \A row \in rows : \A q \in Parents(row) :
       row.state.audit # NoProposal /\ row.state.audit # q.state.audit
          => q.state.status = "INTERRUPTED" /\ q.state.proposal = row.state.audit

\* ... and what is executed was approved by a person, of that operation, within the
\* proposal's life, and never comes from a fork.
CommitsAreApproved ==
    /\ ApprovalFollowsInterrupt
    /\ \A c \in commits :
          /\ c.thread = "incident"
          /\ \E d \in decisions :
                /\ d.approves /\ d.proposal = c.audit
                /\ d.at \in c.audit.made .. c.audit.expires
                /\ c.operation = c.audit.operation

\* An investigation keeps its work and its approval through its checkpoints.
CheckpointsKeepTheRun == WorkIsKept /\ CommitsAreApproved
=============================================================================
