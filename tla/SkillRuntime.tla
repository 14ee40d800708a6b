---------------------------- MODULE SkillRuntime ----------------------------
(***************************************************************************)
(* The skill runtime of advanced/14 (NorthstarSkillRuntime) for one        *)
(* principal: a routed skill is activated together with the skills it      *)
(* depends on, each activation with at most the authority of its parent,   *)
(* and every later use looks again at what is granted, healthy and         *)
(* approved.                                                               *)
(*                                                                         *)
(* Only the budget is guarded by a lock.  Administrators withdraw grants,  *)
(* quarantine skills and change packages between any two steps of a call.  *)
(* An activation is known by its root and its path: the skills from the    *)
(* root of its tree down to itself.                                        *)
(***************************************************************************)
EXTENDS Naturals, FiniteSets, Sequences

CONSTANTS
    Threads,
    Requests,       \* request -> whether the host established explicit user intent
    Catalog,        \* skill -> [required, optional, delegable, deps, readOnly, high]
    ReadOnly,          \* capabilities whose effect is READ
    Permissions,    \* what the principal may ever hold
    Budget,         \* [activations, tools, models] of a request
    MaxRoots,       \* bound: activation trees
    MaxDigest       \* bound: versions of a package

ASSUME SkillAssumption ==
    /\ Budget \in [activations : Nat, tools : Nat, models : Nat]
    /\ IsFiniteSet(DOMAIN Catalog)

VARIABLES
    granted, allowed, healthy,    \* capabilities granted, allowed to the tenant, healthy
    lifecycle,                    \* registry: skill -> lifecycle
    published, approved, live,    \* digests: skill -> manifest, approved, package on disk
    usage,                        \* request -> what it has spent
    activations,                  \* registered activations
    handed,                       \* those some caller holds
    uses,                         \* <<activation, capability>> authorised so far
    artifacts,                    \* roots that completed
    thread                        \* the call each thread is in

admin == <<granted, allowed, healthy, lifecycle, published, approved, live>>
skillVars == <<admin, usage, activations, handed, uses, artifacts, thread>>

Skills == DOMAIN Catalog
Capabilities == UNION {Catalog[s].required \cup Catalog[s].optional \cup Catalog[s].delegable : s \in Skills}
MaxDepth == 3

(* ------------------------------ the registry --------------------------- *)

\* Chains of declared dependencies from a skill downwards, itself first.
Chains ==
    [skill \in Skills |->
       {c \in UNION {[1 .. n -> Skills] : n \in 1 .. MaxDepth} :
           c[1] = skill /\ \A i \in 1 .. Len(c) - 1 : c[i + 1] \in Catalog[c[i]].deps}]
Last(chain) == chain[Len(chain)]
Closure == [skill \in Skills |-> {Last(c) : c \in Chains[skill]}]
Pinned == 1
Resolves(skill) ==
    /\ \A c \in Chains[skill] : Len(c) = MaxDepth => Catalog[Last(c)].deps = {}
    /\ \A d \in Closure[skill] \ {skill} : published[d] = Pinned

Request(skill) == Catalog[skill].required \cup Catalog[skill].optional \cup Catalog[skill].delegable
Delegated(skill) ==
    \A parent \in Closure[skill] : \A child \in Catalog[parent].deps :
       Catalog[child].required \subseteq Request(parent)
HighRisk(skill) == \E s \in Closure[skill] : Catalog[s].high \/ ~(Request(s) \subseteq ReadOnly)

Available == Permissions \cap granted \cap allowed \cap healthy
Approved(skill) == approved[skill] = published[skill]
Unchanged(skill) == live[skill] = published[skill]

Eligible(skill, request) ==
    /\ lifecycle[skill] = "ACTIVE"
    /\ Approved(skill) /\ Unchanged(skill)
    /\ Resolves(skill)
    /\ HighRisk(skill) => Requests[request]
    /\ Delegated(skill)
    /\ \A s \in Closure[skill] : lifecycle[s] = "ACTIVE" /\ Catalog[s].required \subseteq Available

StaticallySound(skill) ==
    /\ Catalog[skill].readOnly => Request(skill) \subseteq ReadOnly
    /\ \A s \in Closure[skill] : Approved(s) /\ Unchanged(s)

(* --------------------------- activation state -------------------------- *)

Below(a) == {b \in activations : b.root = a.root /\ Len(b.path) >= Len(a.path)
                                 /\ SubSeq(b.path, 1, Len(a.path)) = a.path}
Effective(a) == a.caps \cap granted \cap allowed \cap healthy
\* Why an activation is blocked by itself: revoked, changed, or a requirement is gone.
Revoked(a) == lifecycle[Last(a.path)] \in {"QUARANTINED", "RETIRED"}
Changed(a) ==
    LET s == Last(a.path) IN
    published[s] # a.digest \/ approved[s] # a.digest \/ live[s] # published[s]
Starved(a) == ~(Catalog[Last(a.path)].required \subseteq Effective(a))
Blocked(a) == \E b \in Below(a) : Revoked(b) \/ Changed(b) \/ Starved(b)

MayUse(a, capability) ==
    /\ ~Blocked(a)
    /\ capability \in Effective(a)
    /\ Catalog[Last(a.path)].readOnly => capability \in ReadOnly

(* ------------------------------ activation ----------------------------- *)

IdleCall == [at |-> "idle"]
Moves(t, state) == thread' = [thread EXCEPT ![t] = state]

Route(t, request, skill) ==
    /\ thread[t] = IdleCall
    /\ Eligible(skill, request)
    /\ Moves(t, [at |-> "routed", request |-> request, skill |-> skill])
    /\ UNCHANGED <<admin, usage, activations, handed, uses, artifacts>>

\* activate looks at the registry again: the decision may be old.
Check(t) ==
    /\ thread[t].at = "routed"
    /\ Moves(t, IF Eligible(thread[t].skill, thread[t].request) /\ StaticallySound(thread[t].skill)
                THEN [thread[t] EXCEPT !.at = "checked"] ELSE IdleCall)
    /\ UNCHANGED <<admin, usage, activations, handed, uses, artifacts>>

Fits(request, cost) ==
    \A kind \in DOMAIN Budget : usage[request][kind] + cost[kind] <= Budget[kind]
Spent(request, cost) ==
    [usage EXCEPT ![request] = [kind \in DOMAIN Budget |-> @[kind] + cost[kind]]]
\* Wrong: only the skill that was asked for is charged.
RootCost(skill) == [activations |-> 1, tools |-> 0, models |-> 0]
\* The whole closure is charged at once.
ActivationCost(skill) == [activations |-> Cardinality(Closure[skill]), tools |-> 0, models |-> 0]

Charge(t) ==
    LET cost == ActivationCost(thread[t].skill) IN
    /\ thread[t].at = "checked"
    /\ \/ /\ Fits(thread[t].request, cost)
          /\ usage' = Spent(thread[t].request, cost)
          /\ Moves(t, [thread[t] EXCEPT !.at = "charged"])
       \/ /\ ~Fits(thread[t].request, cost)
          /\ Moves(t, IdleCall)
          /\ UNCHANGED usage
    /\ UNCHANGED <<admin, activations, handed, uses, artifacts>>

\* Wrong: a child has what it asks for, whatever its parents have.
OwnAuthority(chain) == Available \cap Request(Last(chain))
\* A node's authority is what it asks for, within its parent's, within what is available.
Authority(chain) == {c \in Available : \A i \in 1 .. Len(chain) : c \in Request(chain[i])}
Node(n, chain, request) ==
    [root |-> n, path |-> chain, caps |-> Authority(chain),
     digest |-> published[Last(chain)], request |-> request]
Tree(n, skill, request) == {Node(n, chain, request) : chain \in Chains[skill]}
Roots == {a.root : a \in activations}

\* Raises, with the budget spent, when a node cannot have what it requires.
Build(t) ==
    LET skill == thread[t].skill
        new == Tree(Cardinality(Roots) + 1, skill, thread[t].request) IN
    /\ thread[t].at = "charged"
    /\ Cardinality(Roots) < MaxRoots
    /\ IF \A node \in new : Catalog[Last(node.path)].required \subseteq node.caps
       THEN /\ activations' = activations \cup new
            /\ handed' = handed \cup {node \in new : Len(node.path) = 1}
       ELSE UNCHANGED <<activations, handed>>
    /\ Moves(t, IdleCall)
    /\ UNCHANGED <<admin, usage, uses, artifacts>>

\* propose_child_activation and authorize_child_activation: whatever part of its request is
\* asked for (nothing will do), the child that was built with its parent is handed out.
HandOutChild(parent, child) ==
    /\ parent \in handed
    /\ ~Blocked(parent)
    /\ child \in Below(parent) /\ Len(child.path) = Len(parent.path) + 1
    /\ child \notin handed
    /\ handed' = handed \cup {child}
    /\ UNCHANGED <<admin, usage, activations, uses, artifacts, thread>>

(* ------------------------------- execution ----------------------------- *)

\* authorize_capability_use, by whoever holds the activation.
Use(a, capability) ==
    /\ a \in handed
    /\ MayUse(a, capability)
    /\ <<a, capability>> \notin uses
    /\ uses' = uses \cup {<<a, capability>>}
    /\ UNCHANGED <<admin, usage, activations, handed, artifacts, thread>>

\* execute_incident_skill: the required tools and the optional ones there are.
Tools(a) == Catalog[Last(a.path)].required \cup (Catalog[Last(a.path)].optional \cap Effective(a))
ExecutionCost(a) == [activations |-> 0, tools |-> Cardinality(Tools(a)), models |-> 1]

Authorize(t, a) ==
    /\ thread[t] = IdleCall
    /\ a \in handed /\ Len(a.path) = 1
    /\ \A c \in Tools(a) : MayUse(a, c)
    /\ uses' = uses \cup {<<a, c>> : c \in Tools(a)}
    /\ Moves(t, [at |-> "authorised", activation |-> a, cost |-> ExecutionCost(a)])
    /\ UNCHANGED <<admin, usage, activations, handed, artifacts>>

Consume(t) ==
    LET request == thread[t].activation.request IN
    /\ thread[t].at = "authorised"
    /\ \/ /\ Fits(request, thread[t].cost)
          /\ usage' = Spent(request, thread[t].cost)
          /\ Moves(t, [thread[t] EXCEPT !.at = "paid"])
       \/ /\ ~Fits(request, thread[t].cost)
          /\ Moves(t, IdleCall)
          /\ UNCHANGED usage
    /\ UNCHANGED <<admin, activations, handed, uses, artifacts>>

\* The output is valid and becomes the activation's artifact, or it is not.
Complete(t, valid) ==
    /\ thread[t].at = "paid"
    /\ artifacts' = IF valid THEN artifacts \cup {thread[t].activation.root} ELSE artifacts
    /\ Moves(t, IdleCall)
    /\ UNCHANGED <<admin, usage, activations, handed, uses>>

(* ---------------------------- administration --------------------------- *)

Toggle(set, c) == IF c \in set THEN set \ {c} ELSE set \cup {c}
Regrant(c) ==
    /\ granted' = Toggle(granted, c)
    /\ UNCHANGED <<allowed, healthy, lifecycle, published, approved, live, usage, activations,
                   handed, uses, artifacts, thread>>
ChangeTenantPolicy(c) ==
    /\ allowed' = Toggle(allowed, c)
    /\ UNCHANGED <<granted, healthy, lifecycle, published, approved, live, usage, activations,
                   handed, uses, artifacts, thread>>
HealthChanges(c) ==
    /\ healthy' = Toggle(healthy, c)
    /\ UNCHANGED <<granted, allowed, lifecycle, published, approved, live, usage, activations,
                   handed, uses, artifacts, thread>>
Transition(skill, state) ==
    /\ lifecycle[skill] # state
    /\ lifecycle' = [lifecycle EXCEPT ![skill] = state]
    /\ UNCHANGED <<granted, allowed, healthy, published, approved, live, usage, activations,
                   handed, uses, artifacts, thread>>
Tamper(skill) ==
    /\ live' = [live EXCEPT ![skill] = 0]
    /\ UNCHANGED <<granted, allowed, healthy, lifecycle, published, approved, usage, activations,
                   handed, uses, artifacts, thread>>
Republish(skill) ==
    /\ published[skill] < MaxDigest
    /\ published' = [published EXCEPT ![skill] = @ + 1]
    /\ live' = [live EXCEPT ![skill] = published[skill] + 1]
    /\ approved' \in {approved, [approved EXCEPT ![skill] = published[skill] + 1]}
    /\ UNCHANGED <<granted, allowed, healthy, lifecycle, usage, activations,
                   handed, uses, artifacts, thread>>

SkillInit ==
    /\ granted = Permissions
    /\ allowed = Capabilities
    /\ healthy = Capabilities
    /\ lifecycle = [s \in Skills |-> "ACTIVE"]
    /\ published = [s \in Skills |-> Pinned]
    /\ approved = published
    /\ live = published
    /\ usage = [r \in DOMAIN Requests |-> [kind \in DOMAIN Budget |-> 0]]
    /\ activations = {}
    /\ handed = {}
    /\ uses = {}
    /\ artifacts = {}
    /\ thread = [t \in Threads |-> IdleCall]

SkillNext ==
    \/ \E t \in Threads :
          \/ \E r \in DOMAIN Requests, s \in Skills : Route(t, r, s)
          \/ Check(t) \/ Charge(t) \/ Build(t) \/ Consume(t)
          \/ \E a \in handed : Authorize(t, a)
          \/ \E valid \in BOOLEAN : Complete(t, valid)
    \/ \E parent \in handed, child \in activations : HandOutChild(parent, child)
    \/ \E a \in handed, c \in Capabilities : Use(a, c)
    \/ \E c \in Capabilities : Regrant(c) \/ ChangeTenantPolicy(c) \/ HealthChanges(c)
    \/ \E s \in Skills :
          \/ \E state \in {"ACTIVE", "DEPRECATED", "QUARANTINED", "RETIRED"} : Transition(s, state)
          \/ Tamper(s) \/ Republish(s)

SkillSpec == SkillInit /\ [][SkillNext]_skillVars

(* ------------------------------ properties ----------------------------- *)

Activations ==
    [root : 1 .. MaxRoots, path : UNION {Chains[s] : s \in Skills}, caps : SUBSET Capabilities,
     digest : 1 .. MaxDigest, request : DOMAIN Requests]
SkillTypeOK ==
    /\ granted \subseteq Capabilities \cup Permissions
    /\ allowed \subseteq Capabilities /\ healthy \subseteq Capabilities
    /\ \A s \in Skills :
          /\ lifecycle[s] \in {"ACTIVE", "DEPRECATED", "QUARANTINED", "RETIRED"}
          /\ {published[s], approved[s]} \subseteq 1 .. MaxDigest
          /\ live[s] \in 0 .. MaxDigest
    /\ activations \subseteq Activations
    /\ handed \subseteq activations
    /\ uses \subseteq activations \X Capabilities
    /\ artifacts \subseteq Roots

\* No delegation, stale decision or handed-out child widens authority: every use is of a
\* capability the principal may hold and every skill from the root down asked for, and a
\* read-only skill only ever reads.
UsesStayWithinAuthority ==
    \A u \in uses :
       /\ u[2] \in Permissions
       /\ \A i \in DOMAIN u[1].path : u[2] \in Request(u[1].path[i])
       /\ Catalog[Last(u[1].path)].readOnly => u[2] \in ReadOnly

\* Two threads, a failed build or a failed execution never overdraw a request: what it
\* has spent stays within the budget and covers every skill activated and every artifact.
SpendIsCovered ==
    \A r \in DOMAIN Requests :
       /\ \A kind \in DOMAIN Budget : usage[r][kind] <= Budget[kind]
       /\ Cardinality({<<a.root, Last(a.path)>> : a \in {x \in activations : x.request = r}})
             <= usage[r].activations
       /\ Cardinality({a.root : a \in {x \in activations : x.request = r /\ x.root \in artifacts}})
             <= usage[r].models

\* A request stays within its authority and its budget, whatever is withdrawn meanwhile.
SkillsStayInBounds == UsesStayWithinAuthority /\ SpendIsCovered
=============================================================================
