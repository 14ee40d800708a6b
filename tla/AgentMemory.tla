---------------------------- MODULE AgentMemory ----------------------------
(***************************************************************************)
(* The memory repository of advanced/06 and the jobs that write to it:     *)
(* admission of a candidate, versioned write, deletion, revocation of a    *)
(* source, retrieval and replayed consolidation, for one user.             *)
(*                                                                         *)
(* A write is one transaction (BEGIN IMMEDIATE).  Everything else reads in *)
(* one statement and acts in a later one: a job reads the version it will  *)
(* expect before it writes, deletion and invalidation change the rows they *)
(* selected, and a worker may die anywhere in between.                     *)
(* Time is counted in retention periods.                                   *)
(***************************************************************************)
EXTENDS Naturals, FiniteSets, Sequences

CONSTANTS
    Workers,      \* processes that run consolidation jobs
    SourceType,   \* source -> its type
    Candidates,   \* [id, key, value, sources, label, verified] of an extraction
    Jobs,         \* job -> sequence of candidates
    MaxVersion,   \* bound: versions of one key
    Periods       \* bound: the clock stops here

VARIABLES
    memories,    \* table memories
    graves,      \* table tombstones
    results,     \* table consolidation_jobs: job -> ids, <<>> if absent
    worker,      \* what each worker is doing
    active,      \* sources that are not revoked
    deletion,    \* the row and mode of a deletion under way, as a set
    sweep,       \* the rows an invalidation under way has selected, in a set; {} if none
    period

memoryVars == <<memories, graves, results, worker, active, deletion, sweep, period>>

NoVerifier == "none"
NoJob == "none"
Sources == DOMAIN SourceType

(* ------------------------------- admission ----------------------------- *)

\* Key policies; order lists the allowed sources, strongest first.
Policy ==
    [communication_style |->
        [conflict |-> "LATEST_EXPLICIT_WINS", order |-> <<"HUMAN_REVIEW", "USER_STATEMENT">>,
         verifier |-> NoVerifier, retention |-> "USER_MANAGED", authority |-> FALSE],
     account_tier |->
        [conflict |-> "AUTHORITATIVE_SOURCE_WINS", order |-> <<"ACCOUNT_API", "USER_STATEMENT">>,
         verifier |-> "ACCOUNT_API", retention |-> "TIME_BOUND", authority |-> FALSE],
     incident_trace |->
        [conflict |-> "HUMAN_REVIEW_REQUIRED", order |-> <<"HUMAN_REVIEW", "INCIDENT_POSTMORTEM">>,
         verifier |-> "HUMAN_REVIEW", retention |-> "AUDIT", authority |-> FALSE],
     security_role |->
        [conflict |-> "AUTHORITATIVE_SOURCE_WINS", order |-> <<"IAM_API">>,
         verifier |-> "IAM_API", retention |-> "SESSION", authority |-> TRUE]]
Keys == DOMAIN Policy

Allowed(key) == {Policy[key].order[i] : i \in DOMAIN Policy[key].order}
RankIn(key, type) == CHOOSE i \in DOMAIN Policy[key].order : Policy[key].order[i] = type
Strongest(key, sources) ==
    CHOOSE i \in DOMAIN Policy[key].order :
       /\ \E s \in sources : RankIn(key, SourceType[s]) = i
       /\ \A s \in sources : i <= RankIn(key, SourceType[s])

\* What the schemas validate: a candidate has sources, all of them registered, and a
\* verification names a source of the type its key demands (validate_verification_receipt).
ASSUME MemoryAssumption ==
    /\ Periods \in Nat
    /\ \A s \in Sources : SourceType[s] # NoVerifier
    /\ Jobs \in [DOMAIN Jobs -> Seq(Candidates)] /\ NoJob \notin DOMAIN Jobs
    /\ \A c \in Candidates :
          /\ c.key \in Keys /\ c.sources \subseteq Sources /\ c.sources # {}
          /\ c.verified /\ Policy[c.key].verifier # NoVerifier =>
                \E s \in Sources : SourceType[s] = Policy[c.key].verifier

Decision(c) ==
    IF Policy[c.key].authority THEN "REJECT"
    ELSE IF c.label \in {"AMBIGUOUS", "QUOTED", "TEMPORARY"} THEN "EPHEMERAL_ONLY"
    ELSE IF ~({SourceType[s] : s \in c.sources} \subseteq Allowed(c.key)) THEN "REJECT"
    ELSE IF Policy[c.key].verifier # NoVerifier /\ ~c.verified THEN "REQUIRE_VERIFICATION"
    ELSE "ALLOW"

\* The source a verification receipt names becomes a source of the record.
Provenance(c) ==
    c.sources \cup {s \in Sources : c.verified /\ SourceType[s] = Policy[c.key].verifier}
Admitted(c) == Provenance(c) \subseteq active /\ Decision(c) = "ALLOW"

Trust(c) ==
    IF Policy[c.key].verifier # NoVerifier THEN 4
    ELSE IF Policy[c.key].order[Strongest(c.key, Provenance(c))] = "USER_STATEMENT" THEN 3 ELSE 4

Expiry(c) == IF Policy[c.key].retention \in {"TIME_BOUND", "SESSION"} THEN period + 1 ELSE Periods + 1

\* A first record is named by what it was admitted from, a replacement by its place.
FirstId(c) == <<c.key, c.id, 0>>
NextId(record, version) == <<record.key, record.value, version>>

BuildRecord(c) ==
    [id |-> FirstId(c), key |-> c.key, value |-> c.value, status |-> "ACTIVE", version |-> 1,
     supersedes |-> <<>>, sources |-> Provenance(c), rank |-> Strongest(c.key, Provenance(c)),
     trust |-> Trust(c), from |-> period, to |-> Periods + 1, expires |-> Expiry(c)]

(* ------------------------------ repository ----------------------------- *)

Least(a, b) == IF a < b THEN a ELSE b
Most(a, b) == IF a > b THEN a ELSE b

\* Wrong: the newest row that is not history counts as the active one.
OpenRow(key) == {m \in memories : m.key = key /\ m.status # "SUPERSEDED"}
ActiveRow(key) == {m \in memories : m.key = key /\ m.status = "ACTIVE"}
Stored(id) == \E m \in memories : m.id = id

InsertFirst(record, expected) ==
    /\ ActiveRow(record.key) = {}
    /\ expected = 0
    /\ ~Stored(record.id)
    /\ memories' = memories \cup {record}

\* Wrong: duplicates are recognised by their id.
SameId(row, record) == row.id = record.id
SameContent(row, record) == row.value = record.value
\* Wrong: a duplicate brings its own sources and drops the others.
Reassigned(row, record) == [row EXCEPT !.sources = record.sources]
Merged(row, record) ==
    [row EXCEPT !.sources = @ \cup record.sources, !.rank = Least(@, record.rank),
                !.trust = Most(@, record.trust)]
MergeDuplicate(row, record) ==
    /\ SameContent(row, record)
    /\ memories' = (memories \ {row}) \cup {Merged(row, record)}

MayReplace(row, record) ==
    CASE Policy[row.key].conflict = "AUTHORITATIVE_SOURCE_WINS" -> record.rank <= row.rank
      [] Policy[row.key].conflict = "HUMAN_REVIEW_REQUIRED" ->
            Policy[row.key].order[record.rank] = "HUMAN_REVIEW"
      [] OTHER -> TRUE
Replacement(row, record) ==
    [record EXCEPT !.id = NextId(record, row.version + 1), !.version = row.version + 1,
                   !.supersedes = row.id]
Supersede(row, record, expected) ==
    /\ ~SameContent(row, record)
    /\ expected = row.version
    /\ MayReplace(row, record)
    /\ ~Stored(Replacement(row, record).id)
    /\ row.version < MaxVersion
    /\ memories' = (memories \ {row}) \cup
          {[row EXCEPT !.status = "SUPERSEDED", !.to = record.from], Replacement(row, record)}

\* What a write returns: the id of the row it made or merged into.
WrittenId(record) ==
    LET row == CHOOSE m \in ActiveRow(record.key) : TRUE IN
    IF ActiveRow(record.key) = {} THEN record.id
    ELSE IF SameContent(row, record) THEN row.id ELSE Replacement(row, record).id

WriteStep(record, expected) ==
    \/ InsertFirst(record, expected)
    \/ \E row \in ActiveRow(record.key) :
          MergeDuplicate(row, record) \/ Supersede(row, record, expected)

\* What retrieve may return of one user's memories, before ranking and the context budget.
Quarantined(m) == m.status \in {"DISPUTED", "SOFT_DELETED", "INVALIDATED"}
Retrievable(mode, at) ==
    {m \in memories :
        /\ ~Quarantined(m)
        /\ m.expires > at
        /\ IF mode = "CURRENT" THEN m.status = "ACTIVE" ELSE m.from <= at /\ at < m.to}

\* The version get_active reports; an expired row is not there for it.
VisibleVersion(key) ==
    IF \E m \in ActiveRow(key) : m.expires > period
    THEN (CHOOSE m \in ActiveRow(key) : TRUE).version ELSE 0

(* ---------------------------- consolidation ---------------------------- *)

IdleWorker == [job |-> NoJob, written |-> <<>>, record |-> {}, expected |-> 0]
Current(w) == Jobs[worker[w].job][Len(worker[w].written) + 1]
HasMore(w) == Len(worker[w].written) < Len(Jobs[worker[w].job])

BeginJob(w, job) ==
    /\ worker[w] = IdleWorker
    /\ results[job] = <<>>
    /\ worker' = [worker EXCEPT ![w].job = job]
    /\ UNCHANGED <<memories, graves, results, active, deletion, sweep, period>>

\* admit_and_build_record, then get_active.
Observe(w) ==
    /\ worker[w].job # NoJob
    /\ worker[w].record = {}
    /\ HasMore(w)
    /\ Admitted(Current(w))
    /\ worker' = [worker EXCEPT ![w].record = {BuildRecord(Current(w))},
                                ![w].expected = VisibleVersion(Current(w).key)]
    /\ UNCHANGED <<memories, graves, results, active, deletion, sweep, period>>

Write(w) ==
    /\ \E record \in worker[w].record :
          /\ WriteStep(record, worker[w].expected)
          /\ worker' = [worker EXCEPT ![w].written = Append(@, WrittenId(record)),
                                      ![w].record = {}, ![w].expected = 0]
    /\ UNCHANGED <<graves, results, active, deletion, sweep, period>>

SaveJobResult(w) ==
    /\ worker[w].job # NoJob
    /\ ~HasMore(w)
    /\ results' = [results EXCEPT ![worker[w].job] = IF @ = <<>> THEN worker[w].written ELSE @]
    /\ worker' = [worker EXCEPT ![w] = IdleWorker]
    /\ UNCHANGED <<memories, graves, active, deletion, sweep, period>>

\* An admission or a write raises, or the process dies: what was written stays.
Abandon(w) ==
    /\ worker[w] # IdleWorker
    /\ worker' = [worker EXCEPT ![w] = IdleWorker]
    /\ UNCHANGED <<memories, graves, results, active, deletion, sweep, period>>

(* -------------------------- forgetting, sources ------------------------ *)

\* delete selects the row in one statement ...
SelectForDelete(row, mode) ==
    /\ deletion = {}
    /\ deletion' = {[row |-> row, mode |-> mode]}
    /\ UNCHANGED <<memories, graves, results, worker, active, sweep, period>>

\* ... and writes the copy it selected in another, whatever the row is now.
Quarantine(old, status) ==
    IF Stored(old.id)
    THEN {m \in memories : m.id # old.id} \cup {[old EXCEPT !.status = status]}
    ELSE memories
DeletedStatus(mode) == IF mode = "DISPUTE" THEN "DISPUTED" ELSE "SOFT_DELETED"
Delete ==
    /\ \E d \in deletion :
          /\ d.mode # "HARD"
          /\ memories' = Quarantine(d.row, DeletedStatus(d.mode))
    /\ deletion' = {}
    /\ UNCHANGED <<graves, results, worker, active, sweep, period>>

HardDelete ==
    /\ \E d \in deletion :
          /\ d.mode = "HARD"
          /\ IF Policy[d.row.key].retention = "AUDIT" THEN UNCHANGED <<memories, graves>>
             ELSE /\ memories' = {m \in memories : m.id # d.row.id}
                  /\ graves' = graves \cup {d.row.id}
    /\ deletion' = {}
    /\ UNCHANGED <<results, worker, active, sweep, period>>

\* A source is revoked; the lifecycle service then looks for what rests on it.
Revoke(source) ==
    /\ source \in active
    /\ sweep = {}
    /\ active' = active \ {source}
    /\ sweep' = {{m \in memories : m.status = "ACTIVE" /\ source \in m.sources}}
    /\ UNCHANGED <<memories, graves, results, worker, deletion, period>>

\* Wrong: the sweep saves the copies it has selected, also of rows that are gone.
InvalidateSaves ==
    /\ \E selected \in sweep :
          memories' = {m \in memories : m.id \notin {old.id : old \in selected}} \cup
             {[old EXCEPT !.status = "INVALIDATED"] : old \in selected}
    /\ sweep' = {}
    /\ UNCHANGED <<graves, results, worker, active, deletion, period>>

\* The updates of one sweep are one transaction.
Invalidate ==
    /\ \E selected \in sweep :
          memories' = {m \in memories : m.id \notin {old.id : old \in selected}} \cup
             {[old EXCEPT !.status = "INVALIDATED"] : old \in {o \in selected : Stored(o.id)}}
    /\ sweep' = {}
    /\ UNCHANGED <<graves, results, worker, active, deletion, period>>

Elapse ==
    /\ period < Periods
    /\ period' = period + 1
    /\ UNCHANGED <<memories, graves, results, worker, active, deletion, sweep>>

MemoryInit ==
    /\ memories = {}
    /\ graves = {}
    /\ results = [j \in DOMAIN Jobs |-> <<>>]
    /\ worker = [w \in Workers |-> IdleWorker]
    /\ active = Sources
    /\ deletion = {}
    /\ sweep = {}
    /\ period = 0

MemoryNext ==
    \/ \E w \in Workers :
          \/ \E job \in DOMAIN Jobs : BeginJob(w, job)
          \/ Observe(w) \/ Write(w) \/ SaveJobResult(w) \/ Abandon(w)
    \/ \E row \in memories, mode \in {"DISPUTE", "SOFT", "HARD"} : SelectForDelete(row, mode)
    \/ Delete \/ HardDelete
    \/ \E source \in Sources : Revoke(source)
    \/ Invalidate
    \/ Elapse

MemorySpec == MemoryInit /\ [][MemoryNext]_memoryVars

(* ------------------------------ properties ----------------------------- *)

RecordStatuses == {"ACTIVE", "SUPERSEDED", "DISPUTED", "SOFT_DELETED", "INVALIDATED"}
Ids == Keys \X ({c.id : c \in Candidates} \cup {c.value : c \in Candidates}) \X (0 .. MaxVersion)
Records ==
    [id : Ids, key : Keys, value : {c.value : c \in Candidates}, status : RecordStatuses,
     version : 1 .. MaxVersion, supersedes : Ids \cup {<<>>}, sources : SUBSET Sources,
     rank : 1 .. 2, trust : {3, 4}, from : 0 .. Periods, to : 0 .. Periods + 1,
     expires : 1 .. Periods + 1]

MemoryTypeOK ==
    /\ memories \subseteq Records
    /\ graves \subseteq Ids
    /\ \A j \in DOMAIN Jobs : \A i \in DOMAIN results[j] : results[j][i] \in Ids
    /\ \A w \in Workers :
          /\ worker[w].job \in DOMAIN Jobs \cup {NoJob}
          /\ worker[w].record \subseteq Records
          /\ worker[w].expected \in 0 .. MaxVersion
    /\ \A d \in deletion : d.row \in Records
    /\ \A s \in sweep : s \subseteq Records
    /\ active \subseteq Sources
    /\ period \in 0 .. Periods

\* Replaying or racing jobs never duplicates a truth: a key has one active row, and each
\* row replaced one of its key, one version older, saying something else and no longer
\* active; no two rows replace the same one.  (A late job can write a hard-deleted first
\* record again, under its old id: nothing that names such an id is claimed.)
OneLineOfVersions ==
    \A m \in memories :
       /\ \A n \in memories :
             /\ m.id = n.id => m = n
             /\ m.key = n.key /\ m.status = "ACTIVE" /\ n.status = "ACTIVE" => m = n
             /\ m.supersedes = n.supersedes /\ m.supersedes \notin graves \cup {<<>>} => m = n
       /\ \A old \in memories :
             m.supersedes = old.id /\ old.id \notin graves =>
                /\ old.key = m.key /\ old.version = m.version - 1
                /\ old.value # m.value /\ old.status # "ACTIVE"

\* A row in quarantine stays there, whatever stale copy a deletion or a sweep writes over
\* it, and no query returns its id; only a hard deletion takes it away, with a tombstone.
QuarantineHolds ==
    \A m \in memories : Quarantined(m) =>
       /\ \A n \in memories' : n.id = m.id => Quarantined(n)
       /\ (\E n \in memories' : n.id = m.id) \/ m.id \in graves'
       /\ \A mode \in {"CURRENT", "AS_OF"}, at \in 0 .. Periods :
             \A n \in Retrievable(mode, at)' : n.id # m.id

\* The step in which a job writes the record it was admitted with.
Delivers(w, record) == record \in worker[w].record /\ worker'[w].record = {}

\* What is not stored, because it was erased or never was, is stored only by a job that
\* writes its own record of it: no copy that a deletion or a sweep holds brings it back.
ErasedStaysErased ==
    \A n \in memories' : ~Stored(n.id) =>
       \E w \in Workers : \E record \in worker[w].record :
          /\ Delivers(w, record)
          /\ n.key = record.key /\ n.value = record.value /\ n.status = "ACTIVE"

\* Nothing is admitted on a revoked source any more, and an active row comes to rest on one
\* only by a job that was admitted before; the rows that a sweep has found active end it in
\* quarantine, if they are still there.
RevocationHolds ==
    /\ \A s \in Sources \ active :
          /\ \A w \in Workers : \A record \in worker'[w].record :
                s \in record.sources => record \in worker[w].record
          /\ \A n \in memories' : n.status = "ACTIVE" /\ s \in n.sources =>
                \/ \E m \in memories : m.id = n.id /\ m.status = "ACTIVE" /\ s \in m.sources
                \/ \E w \in Workers : \E record \in worker[w].record :
                      Delivers(w, record) /\ n.key = record.key /\ s \in record.sources
    /\ \A selected \in sweep : sweep' = {} =>
          \A old \in selected, n \in memories' : n.id = old.id => Quarantined(n)

\* What was disputed, deleted or invalidated comes back neither as current nor as history
\* unless it was hard-deleted and a job writes it again.  (A job does: it asks for neither
\* tombstones nor, after its admission, revocations.  Versions superseded before a
\* revocation stay in history.)
ForgettingHolds == [][QuarantineHolds /\ ErasedStaysErased /\ RevocationHolds]_memoryVars

\* What a current or past value rests on only grows, and its strongest source with it (a
\* revocation looks for rows by their sources); a fact of a key with a system of record
\* rests on that system; no memory grants authority.
ProvenanceIsKept ==
    [][\A m \in memories, n \in memories' :
          n.id = m.id /\ ~Quarantined(n) =>
             /\ m.sources \subseteq n.sources /\ n.rank <= m.rank /\ n.trust >= m.trust
             /\ ~Policy[n.key].authority
             /\ \/ Policy[n.key].verifier = NoVerifier
                \/ \E s \in n.sources : SourceType[s] = Policy[n.key].verifier]_memoryVars

\* A memory stands in one line of versions and keeps what it rests on, whichever jobs,
\* deletions and revocations write it.
MemoriesKeepTheirLine == []OneLineOfVersions /\ ProvenanceIsKept
=============================================================================
