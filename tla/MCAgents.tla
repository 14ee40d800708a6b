------------------------------ MODULE MCAgents ------------------------------
(***************************************************************************)
(* Small instances of the labs that spend a budget while they recover from *)
(* failures: tool calls (advanced/13), routed requests (advanced/09),      *)
(* an incident (advanced/05), a research plan (intermediate/08) and a      *)
(* team (advanced/02).  They share nothing; the first state says which     *)
(* one runs.                                                               *)
(***************************************************************************)
EXTENDS ToolGatewaySafety, ModelRouter, IncidentResponse, PlanExecutor, SelectorTeam, TLC

\* The callers, clients and coordinators of whichever lab runs.
CONSTANTS p1, p2

VARIABLE lab

AgentsInit ==
    /\ lab \in {"gateway", "router", "response", "planner", "team"}
    /\ Init /\ RouterInit /\ IncidentInit /\ PlannerInit /\ TeamInit
    /\ lab # "router" => breakers = CHOOSE b \in Seeds : TRUE
    /\ lab # "planner" => /\ goal = CHOOSE g \in GoalContracts : TRUE
                          /\ fixture = CHOOSE o \in RunOptions : TRUE

GatewayLab ==
    /\ lab = "gateway"
    /\ Next
    /\ UNCHANGED <<lab, routerVars, responseVars, plannerVars, teamVars>>
RouterLab ==
    /\ lab = "router"
    /\ RouterNext
    /\ UNCHANGED <<lab, vars, responseVars, plannerVars, teamVars>>
ResponseLab ==
    /\ lab = "response"
    /\ ResponseNext
    /\ UNCHANGED <<lab, vars, routerVars, plannerVars, teamVars>>
PlannerLab ==
    /\ lab = "planner"
    /\ PlannerNext
    /\ UNCHANGED <<lab, vars, routerVars, responseVars, teamVars>>
TeamLab ==
    /\ lab = "team"
    /\ TeamNext
    /\ UNCHANGED <<lab, vars, routerVars, responseVars, plannerVars>>

AgentsNext == GatewayLab \/ RouterLab \/ ResponseLab \/ PlannerLab \/ TeamLab

AgentsSpec ==
    AgentsInit /\ [][AgentsNext]_<<lab, vars, routerVars, responseVars, plannerVars, teamVars>>

AgentSymmetry == Permutations({p1, p2})

Bit(b) == IF b THEN 1 ELSE 0

(* ------------------------------- tool calls ---------------------------- *)

Draft == [op |-> "draft", tool |-> "WRITE", session |-> "s1", approval |-> NoApproval]
Query == [op |-> "query", tool |-> "READ", session |-> "s1", approval |-> NoApproval]
MCProposals == {Draft, Query}
MCApprovalOp == [a \in Approvals |-> "draft"]

\* At most one of the things around the calls is not as it should be.
FewChanges ==
    Bit(server # "HEALTHY") + Bit(context # "GRANTED") + Cardinality(cancelled) + Cardinality(absent) <= 1

(* -------------------------------- routing ------------------------------ *)

Model(provider, quality, price) ==
    [provider |-> provider, group |-> "json", quality |-> quality, price |-> price, p95 |-> 1]
MCRoutes == [fastA |-> Model("a", 1, 1), fastB |-> Model("b", 1, 1), best |-> Model("a", 2, 2)]
Limits(calls, providers, fallbacks, cost, deadline) ==
    [attempts |-> calls, providers |-> providers, fallbacks |-> fallbacks,
     cost |-> cost, deadline |-> deadline]
MCContexts == {Limits(3, 2, 1, 4, 3), Limits(2, 1, 1, 2, 2)}
MCPolicy == [retries |-> 1, contentFallback |-> TRUE]
MCCircuit == [threshold |-> 2, window |-> 1, open |-> 1]
MCSeeds == {[ClosedRoutes EXCEPT !.fastA = Breaker("OPEN", at)] :
              at \in 0 .. 1, ClosedRoutes \in {[r \in Routes |-> ClosedBreaker]}}

Oddities(q) == Bit(q.cancelled) + Bit(q.updated > 0) + Bit(q.context.attempts = 2)
FewCalls ==
    made < 2 \/ /\ Len(routing[p1].calls) + Len(routing[p2].calls) <= 2
                /\ \A c \in Clients : Oddities(routing[c]) = 0

(* -------------------------------- incident ----------------------------- *)

\* What a coordinator may meet, counted.
Desks == {desks[p] : p \in {q \in Coordinators : AtWork(q)}}
FewTroubles ==
    2 * Bit(saved # NoState) + 2 * hour
    + Bit(grant.given /\ ~grant.valid)
    + Cardinality({p \in Coordinators : AtWork(p) /\ desks[p].status \in InHands \cup {"ESCALATED"}})
    + Cardinality({p \in Coordinators : AtWork(p) /\ desks[p].verified = "FAIL"})
    + Bit(\A p \in Coordinators : AtWork(p))
    + Cardinality({p \in Coordinators : AtWork(p) /\ desks[p].gap = "NONE" /\ desks[p].replans > 0})
      <= 3

\* A run is saved once.
OneSave == saved # NoState => saved' = saved

(* --------------------------------- plan -------------------------------- *)

Contract(a, r, c) == [attempts |-> a, perTask |-> 2, replans |-> r, cost |-> c]
MCGoals == {Contract(16, r, 200) : r \in 1 .. 4} \cup {Contract(16, 2, 28), Contract(16, 3, 36), Contract(8, 2, 200)}
MCOptions ==
    [conflict : BOOLEAN, missing : BOOLEAN,
     timeout : {NoTask, "read-adaptive-rag-primary", Check},
     invalid : {NoTask, "read-adaptive-rag-primary", "compare-routes"},
     gated : {{}, {"synthesize-report"}}, approvals : {{<<"synthesize-report", 2>>}}]

(* --------------------------------- team -------------------------------- *)

MCOwners == [health |-> "ObservabilityAgent", deployment |-> "DeploymentAgent"]
MCTeamBudget ==
    [messages |-> 5, selector |-> 2, worker |-> 5, perAgent |-> 3, repeated |-> 2, deadline |-> 5]
FewSignals == Cardinality(controls) + selectorCalls <= 1 \/ Len(turns) = 0

(* ------------------------------------------------------------------------ *)

FewAtOnce ==
    CASE lab = "gateway" -> FewChanges
      [] lab = "router" -> FewCalls
      [] lab = "response" -> FewTroubles
      [] lab = "planner" -> TRUE
      [] lab = "team" -> FewSignals
=============================================================================
