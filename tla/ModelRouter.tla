---------------------------- MODULE ModelRouter ----------------------------
(***************************************************************************)
(* The model router of advanced/09 (run_routing_case): a request calls one *)
(* model route after another, by retry, fallback to another provider and   *)
(* promotion to a better model, within the budgets of its context.  The    *)
(* circuit breakers are one registry that all requests share; everything   *)
(* else belongs to the request, its clock included: a request's time is    *)
(* when it was made plus the latencies and delays it has met.              *)
(*                                                                         *)
(* Another request may run between the look at the routes and the question *)
(* to the breaker (allow_call), and while a model answers.                 *)
(***************************************************************************)
EXTENDS Naturals, FiniteSets, Sequences

CONSTANTS
    Clients,
    ModelRoutes,    \* route -> [provider, group, quality, price, p95]
    Contexts,       \* [attempts, providers, fallbacks, cost, deadline] of a request
    Policy,         \* FailurePolicy: [retries, contentFallback]
    Circuit,        \* CircuitBreakerRegistry: [threshold, window, open]
    Seeds,          \* states of the breakers at the first request
    Capacity,       \* calls a route has room for when a request is made
    Latencies, Delays, Prices,   \* what an answer may take and cost
    MadeAt,         \* the times at which a request may be made
    MaxMade         \* bound: requests

VARIABLES
    breakers,       \* route -> its breaker
    routing,        \* client -> the request it runs
    made            \* number of requests so far

routerVars == <<breakers, routing, made>>

Routes == DOMAIN ModelRoutes

ASSUME RouterAssumption ==
    /\ Routes # {} /\ Contexts # {}
    /\ Contexts \subseteq [attempts : Nat \ {0}, providers : Nat \ {0}, fallbacks : Nat,
                          cost : Nat \ {0}, deadline : Nat]
    /\ Policy \in [retries : Nat, contentFallback : BOOLEAN]
    /\ Latencies \subseteq Nat /\ Delays \subseteq Nat /\ Prices \subseteq Nat
    /\ MadeAt \subseteq Nat /\ Capacity \in Nat /\ MaxMade \in Nat

Provider(r) == ModelRoutes[r].provider
SameContract(r, s) == ModelRoutes[r].group = ModelRoutes[s].group
Better(r, s) == ModelRoutes[r].quality > ModelRoutes[s].quality

\* normalised provider errors, by what the failure policy makes of them
Recoverable == {"RETRYABLE", "UNAVAILABLE"}
Errors == Recoverable \cup {"TERMINAL", "CONTENT_REJECTED"}
Replies == Errors \cup {"ACCEPTED", "BELOW_GATE"}
Reasons == {"INITIAL", "POLICY_REROUTE", "RETRY", "PROVIDER_FALLBACK", "CASCADE_PROMOTION"}
Ends == {"SUCCEEDED", "CANCELLED", "NO_ELIGIBLE_ROUTE", "BUDGET_EXCEEDED", "BUDGET_OVERRUN",
         "DEADLINE_EXCEEDED", "PROVIDER_FAILURE", "QUALITY_GATE_FAILED"}

(* ---------------------------- circuit breakers ------------------------- *)

Breaker(state, opened) == [state |-> state, failures |-> << >>, opened |-> opened, probe |-> FALSE]
ClosedBreaker == Breaker("CLOSED", 0)

\* refresh_state
Refreshed(b, now) ==
    IF b.state = "OPEN" /\ now >= b.opened + Circuit.open
    THEN [b EXCEPT !.state = "HALF_OPEN", !.probe = FALSE] ELSE b

\* allow_call
Allows(b) == b.state = "CLOSED" \/ (b.state = "HALF_OPEN" /\ ~b.probe)
Probed(b) == [b EXCEPT !.probe = (b.state = "HALF_OPEN")]

\* record_failure
Recent(b, now) == Append(SelectSeq(b.failures, LAMBDA at : at + Circuit.window >= now), now)
OpenedAt(b, now) == [b EXCEPT !.state = "OPEN", !.opened = now]
WithFailure(b, now) ==
    IF b.state = "HALF_OPEN" THEN [OpenedAt(b, now) EXCEPT !.probe = FALSE]
    ELSE IF Len(Recent(b, now)) >= Circuit.threshold
         THEN [OpenedAt(b, now) EXCEPT !.failures = Recent(b, now)]
         ELSE [b EXCEPT !.failures = Recent(b, now)]

\* What a reply leaves in the breaker: errors that are not recoverable leave nothing.
Recorded(b, reply, now) ==
    IF reply \in Recoverable THEN WithFailure(b, now)
    ELSE IF reply \in Errors THEN b ELSE ClosedBreaker

View(now) == [r \in Routes |-> Refreshed(breakers[r], now)]

(* ----------------------------- which route next ------------------------ *)

Attempted(q) == {q.calls[i].route : i \in DOMAIN q.calls}

\* evaluate_eligibility; headroom stands for lifecycle, health and capacity.
EligibleRoutes(q, view, spent) ==
    {r \in Routes :
        /\ q.headroom[r] > 0
        /\ view[r].state # "OPEN"
        /\ ModelRoutes[r].price + spent <= q.context.cost
        /\ q.now + ModelRoutes[r].p95 <= q.since + q.context.deadline}

\* Wrong: the provider that would be added is not counted.
ProvidersSoFar(q, r) == Cardinality({Provider(s) : s \in Attempted(q)}) <= q.context.providers

ProviderFits(q, r) ==
    Cardinality({Provider(s) : s \in Attempted(q) \cup {r}}) <= q.context.providers

\* compatible_fallbacks, before the provider budget
FallbacksFor(primary, eligible) ==
    {r \in eligible : Provider(r) # Provider(primary) /\ SameContract(r, primary)}

\* _promotion_route
Stronger(q, origin) == {r \in Routes \ Attempted(q) : SameContract(r, origin) /\ Better(r, origin)}
PromotionsFor(q, origin, eligible) ==
    LET fit == {r \in Stronger(q, origin) \cap eligible : ProviderFits(q, r)} IN
    {r \in fit : \A s \in fit : ~Better(s, r)}

(* ------------------------------- one request --------------------------- *)

FirstOf(context, now) ==
    [phase |-> "DECIDING", end |-> "NONE", context |-> context, since |-> now, now |-> now,
     route |-> CHOOSE r \in Routes : TRUE, reason |-> "INITIAL", calls |-> << >>, spent |-> 0,
     fallbacks |-> 0, primary |-> CHOOSE r \in Routes : TRUE,
     origin |-> CHOOSE r \in Routes : TRUE, retries |-> [r \in Routes |-> 0],
     headroom |-> [r \in Routes |-> Capacity], updated |-> 0, cancelled |-> FALSE]

RouterInit ==
    /\ breakers \in Seeds
    /\ routing = [c \in Clients |-> [FirstOf(CHOOSE x \in Contexts : TRUE, 0) EXCEPT !.phase = "DONE"]]
    /\ made = 0

Ended(q, end) == [q EXCEPT !.phase = "DONE", !.end = end]
Towards(q, r, reason) == [q EXCEPT !.phase = "DECIDING", !.route = r, !.reason = reason]

\* The client goes on as q.
Becomes(c, q) == routing' = [routing EXCEPT ![c] = q]

\* The request is made: the first decision is taken at once, by an objective
\* that may rank the eligible routes in any way.
Make(c) ==
    /\ routing[c].phase = "DONE"
    /\ made < MaxMade
    /\ made' = made + 1
    /\ \E context \in Contexts, now \in MadeAt, cancelled \in BOOLEAN :
        LET q == FirstOf(context, now)
            eligible == EligibleRoutes(q, View(now), 0) IN
        /\ breakers' = View(now)
        /\ \/ cancelled /\ Becomes(c, Ended(q, "CANCELLED"))
           \/ ~cancelled /\ eligible = {} /\ Becomes(c, Ended(q, "NO_ELIGIBLE_ROUTE"))
           \/ ~cancelled /\ \E r \in eligible : Becomes(c, Towards(q, r, "INITIAL"))

\* Whoever holds the token cancels the request, or the fixture does after an attempt.
CancelRequest(c) ==
    /\ routing[c].phase # "DONE"
    /\ ~routing[c].cancelled
    /\ routing' = [routing EXCEPT ![c].cancelled = TRUE]
    /\ UNCHANGED <<breakers, made>>

\* The top of the loop: nothing is left to spend, or nobody waits any more.
StopBeforeCall(c) ==
    LET q == routing[c] IN
    /\ q.phase = "DECIDING"
    /\ \/ q.cancelled /\ Becomes(c, Ended(q, "CANCELLED"))
       \/ /\ ~q.cancelled
          /\ Len(q.calls) >= q.context.attempts \/ q.spent >= q.context.cost
          /\ Becomes(c, Ended(q, "BUDGET_EXCEEDED"))
    /\ UNCHANGED <<breakers, made>>

\* What the routes are like before the next call: once per call they may change.
Measured(q, r, n) == [q EXCEPT !.headroom[r] = n, !.updated = Len(q.calls) + 1]
Unmeasured(q) == {r \in Routes : q.updated <= Len(q.calls)}
Live(q) == {q} \cup {Measured(q, r, n) : r \in Unmeasured(q), n \in {0, Capacity}}

\* A route that is not admitted is replaced, in the way it was come by.
Replaced(q, eligible) ==
    CASE q.reason = "CASCADE_PROMOTION" ->
            LET better == PromotionsFor(q, q.origin, eligible) IN
            IF better = {} THEN {Ended(q, "QUALITY_GATE_FAILED")}
            ELSE {Towards(q, r, "CASCADE_PROMOTION") : r \in better}
      [] q.reason \in {"PROVIDER_FALLBACK", "RETRY"} ->
            LET other == {r \in FallbacksFor(q.primary, eligible) \ (Attempted(q) \cup {q.route}) :
                            ProviderFits(q, r)} IN
            IF other = {} \/ q.fallbacks >= q.context.fallbacks
            THEN {Ended(q, "PROVIDER_FAILURE")}
            ELSE {[Towards(q, r, "PROVIDER_FALLBACK")
                   EXCEPT !.fallbacks = IF q.reason = "RETRY" THEN @ + 1 ELSE @] : r \in other}
      [] OTHER ->
            IF eligible = {} THEN {Ended(q, "NO_ELIGIBLE_ROUTE")}
            ELSE {Towards(q, r, "POLICY_REROUTE") : r \in eligible}

Decide(c) ==
    /\ routing[c].phase = "DECIDING" /\ ~routing[c].cancelled
    /\ Len(routing[c].calls) < routing[c].context.attempts
    /\ routing[c].spent < routing[c].context.cost
    /\ \E q \in Live(routing[c]) :
        LET eligible == EligibleRoutes(q, View(q.now), q.spent) IN
        IF q.route \in eligible /\ ProviderFits(q, q.route)
        THEN Becomes(c, [q EXCEPT !.phase = "ADMITTED"])
        ELSE \E next \in Replaced(q, eligible) : Becomes(c, next)
    /\ breakers' = View(routing[c].now)
    /\ UNCHANGED made

\* allow_call; the deadline and the reservation are compared once more with
\* the numbers that Decide has compared.
AskBreaker(c) ==
    LET q == routing[c]
        b == Refreshed(breakers[q.route], q.now) IN
    /\ q.phase = "ADMITTED"
    /\ IF Allows(b)
       THEN Becomes(c, [q EXCEPT !.phase = "CALLING"])
            /\ breakers' = [breakers EXCEPT ![q.route] = Probed(b)]
       ELSE Becomes(c, Ended(q, "PROVIDER_FAILURE"))
            /\ breakers' = [breakers EXCEPT ![q.route] = b]
    /\ UNCHANGED made

(* -------------------------------- the answer --------------------------- *)

\* The request after an answer: time, money and headroom are taken.
Least0(n, m) == IF n >= m THEN n - m ELSE 0
AfterCall(q, reply, latency, price) ==
    [q EXCEPT !.now = @ + latency, !.spent = @ + price, !.headroom[q.route] = Least0(@, 1),
              !.calls = Append(@, [route |-> q.route, reason |-> q.reason, result |-> reply])]

\* Usage beyond the route's limits, or beyond the money: nothing follows.
Overdrawn(q, excessive) == excessive \/ q.spent > q.context.cost
StopOverdrawn(q, excessive) == Ended(q, IF excessive THEN "PROVIDER_FAILURE" ELSE "BUDGET_OVERRUN")

\* decide_failure_action with what run_routing_case makes of it; before is
\* the request when it called.  With nothing left to spend, the fallbacks are
\* those that the money before the call could have paid.
AfterFailure(q, before, view, reply, delay) ==
    LET eligible == EligibleRoutes(q, view, IF q.spent < q.context.cost THEN q.spent ELSE before.spent)
        raw == FallbacksFor(q.route, eligible) \ Attempted(q)
        open == IF q.fallbacks < q.context.fallbacks THEN {r \in raw : ProviderFits(q, r)} ELSE {}
        retry == /\ reply = "RETRYABLE" /\ q.retries[q.route] < Policy.retries
                 /\ q.now + delay < q.since + q.context.deadline
        fallback == reply \in Recoverable \/ (reply = "CONTENT_REJECTED" /\ Policy.contentFallback)
    IN
    IF retry
    THEN {[Towards(q, q.route, "RETRY")
           EXCEPT !.now = @ + delay, !.retries[q.route] = @ + 1, !.primary = q.route]}
    ELSE IF fallback /\ open # {}
    THEN {[Towards(q, r, "PROVIDER_FALLBACK")
           EXCEPT !.fallbacks = @ + 1, !.primary = q.route] : r \in open}
    ELSE {Ended(q, IF raw # {} /\ \A r \in raw : ~ProviderFits(q, r)
                   THEN "BUDGET_EXCEEDED" ELSE "PROVIDER_FAILURE")}

\* The gate rejected the output.
AfterRejection(q, view) ==
    LET better == PromotionsFor(q, q.route, EligibleRoutes(q, view, q.spent))
        stronger == Stronger(q, q.route) IN
    IF q.spent >= q.context.cost THEN {Ended(q, "BUDGET_EXCEEDED")}
    ELSE IF better # {}
    THEN {[Towards(q, r, "CASCADE_PROMOTION") EXCEPT !.origin = q.route] : r \in better}
    ELSE IF \E r \in stronger : ModelRoutes[r].price + q.spent > q.context.cost
    THEN {Ended(q, "BUDGET_EXCEEDED")}
    ELSE IF \E r \in stronger : q.now + ModelRoutes[r].p95 > q.since + q.context.deadline
    THEN {Ended(q, "DEADLINE_EXCEEDED")}
    ELSE {Ended(q, "QUALITY_GATE_FAILED")}

\* Which of these follows; some look at the breakers again.
Looked(now, seen) == [r \in Routes |-> Refreshed(seen[r], now)]
AnsweredWith(c, reply, latency, price, delay, excessive) ==
    LET before == routing[c]
        q == AfterCall(before, reply, latency, price)
        recorded == [breakers EXCEPT ![q.route] = Recorded(@, reply, q.now)]
        view == Looked(q.now, recorded) IN
    \/ /\ Overdrawn(q, excessive)
       /\ Becomes(c, StopOverdrawn(q, excessive)) /\ breakers' = recorded
    \/ /\ ~Overdrawn(q, excessive) /\ reply = "ACCEPTED"
       /\ Becomes(c, Ended(q, "SUCCEEDED")) /\ breakers' = recorded
    \/ /\ ~Overdrawn(q, excessive) /\ reply = "BELOW_GATE"
       /\ \E next \in AfterRejection(q, view) : Becomes(c, next)
       /\ breakers' = view
    \/ /\ ~Overdrawn(q, excessive) /\ reply \in Errors
       /\ \E next \in AfterFailure(q, before, view, reply, delay) : Becomes(c, next)
       /\ breakers' = view

Answered(c) ==
    /\ routing[c].phase = "CALLING"
    /\ \E reply \in Replies, latency \in Latencies, price \in Prices, delay \in Delays, excessive \in BOOLEAN :
        AnsweredWith(c, reply, latency, price, delay, excessive)
    /\ UNCHANGED made

RouterNext ==
    \E c \in Clients :
        \/ Make(c) \/ CancelRequest(c) \/ StopBeforeCall(c) \/ Decide(c)
        \/ AskBreaker(c) \/ Answered(c)

RouterSpec == RouterInit /\ [][RouterNext]_routerVars

(* ------------------------------- properties ---------------------------- *)

\* A request: where it stands, and the call that comes next.
Request ==
    [phase : {"DECIDING", "ADMITTED", "CALLING", "DONE"}, end : Ends \cup {"NONE"},
     context : Contexts, since : Nat, now : Nat, route : Routes, reason : Reasons,
     calls : Seq([route : Routes, reason : Reasons, result : Replies]), spent : Nat,
     fallbacks : Nat, primary : Routes, origin : Routes, retries : [Routes -> Nat],
     headroom : [Routes -> Nat], updated : Nat, cancelled : BOOLEAN]

RouterTypeOK == routing \in [Clients -> Request] /\ made \in 0 .. MaxMade

CallsOf(q, reason) == {i \in DOMAIN q.calls : q.calls[i].reason = reason}

\* A request keeps the budgets of its context whatever fails, is promoted or
\* replaced on the way: attempts, providers, fallbacks and the retries of each
\* route, in calls really made (run_routing_case, RoutingContext).  It spends
\* more than its ceiling only in the call that ends it.
RequestsStayWithinLimits ==
    \A c \in Clients :
        LET q == routing[c] IN
        /\ Len(q.calls) <= q.context.attempts
        /\ Cardinality({Provider(r) : r \in Attempted(q)}) <= q.context.providers
        /\ Cardinality(CallsOf(q, "PROVIDER_FALLBACK")) <= q.fallbacks
        /\ q.fallbacks <= q.context.fallbacks
        /\ \A r \in Routes :
             Cardinality({i \in DOMAIN q.calls : q.calls[i].route = r}) <= 1 + Policy.retries
        /\ q.spent > q.context.cost => q.phase = "DONE"

\* Every call after the first has its reason in the call before it: a retry
\* in a retryable error of the same route; a fallback in a recoverable error,
\* at another provider under the same contract; a promotion in a rejected
\* output, at a better model.  Only a retry returns to a route
\* (FALLBACKS_AND_RELIABILITY.md, "Compatibility is explicit"; README.md,
\* reasons of attempts).
RecoveryHasItsReason ==
    \A c \in Clients : \A i \in DOMAIN routing[c].calls \ {1} :
        LET call == routing[c].calls[i]
            last == routing[c].calls[i - 1] IN
        /\ call.reason \in {"RETRY", "PROVIDER_FALLBACK", "CASCADE_PROMOTION"}
        /\ call.reason = "RETRY" => call.route = last.route /\ last.result = "RETRYABLE"
        /\ call.reason # "RETRY" =>
             /\ SameContract(call.route, last.route)
             /\ \A j \in 1 .. i - 1 : routing[c].calls[j].route # call.route
        /\ call.reason = "PROVIDER_FALLBACK" =>
             /\ Provider(call.route) # Provider(last.route)
             /\ last.result \in Recoverable \cup {"CONTENT_REJECTED"}
        /\ call.reason = "CASCADE_PROMOTION" =>
             last.result = "BELOW_GATE" /\ Better(call.route, last.route)

\* What a request does to recover is both within its budgets and justified.
RequestsRecoverInBounds == RequestsStayWithinLimits /\ RecoveryHasItsReason
=============================================================================
