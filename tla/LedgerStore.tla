---------------------------- MODULE LedgerStore ----------------------------
(***************************************************************************)
(* The PostgreSQL request ledger and route registry as the gateway, the    *)
(* provisioning command and the health worker see them: tenant_routes,     *)
(* inference_targets, inference_requests and provider_attempts, with the   *)
(* triggers and checks of migrations 0001-0004 and 0015 as the conditions  *)
(* under which a statement is accepted.                                    *)
(*                                                                         *)
(* A request of the model is one logical inference request.  Its principal *)
(* and its model alias select at most one tenant route, RouteOf[r]; all    *)
(* that the ledger keeps of the principal is the route's organisation.     *)
(***************************************************************************)
EXTENDS Integers, FiniteSets

CONSTANTS
    Requests,       \* logical inference requests
    Routes,         \* rows of tenant_routes
    Targets,        \* rows of inference_targets
    Organisations,  \* tenants
    RouteOf,        \* the route a request's scope and alias name, or NoRoute
    RouteOrg,       \* tenant_routes.organisation_id
    TargetOwner,    \* owner of a dedicated target, NoOwner for a shared one
    MaxAttempts,    \* inference_targets.max_attempts
    InitialTarget,  \* the target a route is first provisioned with
    MaxGeneration,  \* bound: how far binding_generation may advance
    NoRoute, NoTarget, NoOwner

AttemptNumbers == 1 .. 4

\* Mutant: any target serves any route.
TenancyAllowsAny(rt, t) == TRUE

\* A dedicated target serves routes of its owner only.
TenancyAllows(rt, t) == TargetOwner[t] \in {NoOwner, RouteOrg[rt]}

ASSUME LedgerAssumption ==
    /\ NoRoute \notin Routes
    /\ NoTarget \notin Targets
    /\ NoOwner \notin Organisations
    /\ RouteOf \in [Requests -> Routes \cup {NoRoute}]
    /\ RouteOrg \in [Routes -> Organisations]
    /\ TargetOwner \in [Targets -> Organisations \cup {NoOwner}]
    /\ MaxAttempts \in [Targets -> AttemptNumbers]
    /\ InitialTarget \in [Routes -> Targets]
    /\ \A rt \in Routes : TenancyAllows(rt, InitialTarget[rt])
    /\ MaxGeneration \in Nat \ {0}

VARIABLES
    routeTarget,  \* [Routes -> Targets]: tenant_routes.target_id
    routeGen,     \* [Routes -> Nat]: tenant_routes.binding_generation
    retarget,     \* [Routes -> Targets \cup {NoTarget}]: the target an open
                  \*   provisioning transaction has written while it holds
                  \*   the row lock of the route
    disabled,     \* the routes and targets with enabled = false
    health,       \* [Targets -> HealthStatuses]: health_status
    status,       \* [Requests -> RowStatuses]: inference_requests.status,
                  \*   "absent" for a request without a row
    errorClass,   \* [Requests -> ErrorClasses]: error_class, "none" for NULL
    usage,        \* [Requests -> UsageShapes]: the token columns
    boundTarget,  \* [Requests -> Targets \cup {NoTarget}]: bound_target_id
    boundGen,     \* [Requests -> Nat]: route_binding_generation, 0 for NULL
    attemptCount, \* [Requests -> Nat]: attempt_count
    attStatus,    \* [Requests -> [AttemptNumbers -> AttemptStatuses]]:
                  \*   provider_attempts.status, "absent" where there is none
    attClass,     \* their error_class
    attTarget     \* their target_id

registryVars == <<routeTarget, routeGen, retarget, disabled, health>>
requestVars  == <<status, errorClass, usage, boundTarget, boundGen, attemptCount,
                  attStatus, attClass, attTarget>>
ledgerVars   == <<registryVars, requestVars>>

HealthStatuses == {"unknown", "operational", "degraded", "unavailable"}
Terminal       == {"succeeded", "failed", "blocked", "cancelled"}
RowStatuses    == {"absent", "in_progress"} \cup Terminal
AttemptStatuses == RowStatuses \ {"blocked"}

\* What the provider reported of token usage, as far as the usage checks of
\* the two tables tell the reports apart: nothing, only a total, some of the
\* input/output/cached/reasoning dimensions, or both input and output.
UsageShapes == {"unknown", "total_only", "partial", "final"}

\* The error classes the gateway records.
RouteClasses    == {"target_unavailable", "route_forbidden",
                    "model_not_authorised", "route_unavailable"}
StatusClasses   == {"upstream_rejected", "upstream_rate_limited",
                    "upstream_unavailable", "target_configuration",
                    "upstream_error"}
ResponseClasses == {"invalid_upstream_response", "upstream_response_too_large"}
NetworkClasses  == {"upstream_timeout", "upstream_transport"}
UpstreamClasses == StatusClasses \cup ResponseClasses \cup NetworkClasses
ErrorClasses    == RouteClasses \cup UpstreamClasses \cup
                   {"none", "insufficient_scope", "ledger_error",
                    "internal_error", "streaming_unavailable",
                    "client_cancelled"}

RegistryTypeOK ==
    /\ routeTarget \in [Routes -> Targets]
    /\ routeGen \in [Routes -> Nat]
    /\ retarget \in [Routes -> Targets \cup {NoTarget}]
    /\ disabled \subseteq Routes \cup Targets
    /\ health \in [Targets -> HealthStatuses]

RequestTypeOK ==
    /\ status \in [Requests -> RowStatuses]
    /\ errorClass \in [Requests -> ErrorClasses]
    /\ usage \in [Requests -> UsageShapes]
    /\ boundTarget \in [Requests -> Targets \cup {NoTarget}]
    /\ boundGen \in [Requests -> Nat]
    /\ attemptCount \in [Requests -> Nat]
    /\ attStatus \in [Requests -> [AttemptNumbers -> AttemptStatuses]]
    /\ attClass \in [Requests -> [AttemptNumbers -> ErrorClasses]]
    /\ attTarget \in [Requests -> [AttemptNumbers -> Targets \cup {NoTarget}]]

LedgerInit ==
    /\ routeTarget = InitialTarget
    /\ routeGen = [rt \in Routes |-> 1]
    /\ retarget = [rt \in Routes |-> NoTarget]
    /\ disabled = {}
    /\ health = [t \in Targets |-> "unknown"]
    /\ status = [r \in Requests |-> "absent"]
    /\ errorClass = [r \in Requests |-> "none"]
    /\ usage = [r \in Requests |-> "unknown"]
    /\ boundTarget = [r \in Requests |-> NoTarget]
    /\ boundGen = [r \in Requests |-> 0]
    /\ attemptCount = [r \in Requests |-> 0]
    /\ attStatus = [r \in Requests |-> [n \in AttemptNumbers |-> "absent"]]
    /\ attClass = [r \in Requests |-> [n \in AttemptNumbers |-> "none"]]
    /\ attTarget = [r \in Requests |-> [n \in AttemptNumbers |-> NoTarget]]

----------------------------------------------------------------------------
(* Statements the gateway issues: when the database accepts one, and what  *)
(* it does to the tables.                                                  *)

\* Attempts of request r with a row, and those still in progress.
Attempted(r)  == {n \in AttemptNumbers : attStatus[r][n] # "absent"}
Unfinished(r) == {n \in AttemptNumbers : attStatus[r][n] = "in_progress"}

CreateInferenceRequest(r) ==
    /\ status' = [status EXCEPT ![r] = "in_progress"]
    /\ UNCHANGED <<errorClass, usage, boundTarget, boundGen, attemptCount,
                   attStatus, attClass, attTarget>>

\* A route is attached once, before any attempt, and copies the route's
\* current target and generation.
SetInferenceRequestRouteOk(r) ==
    /\ status[r] = "in_progress"
    /\ boundTarget[r] = NoTarget
    /\ attemptCount[r] = 0

SetInferenceRequestRoute(r) ==
    /\ boundTarget' = [boundTarget EXCEPT ![r] = routeTarget[RouteOf[r]]]
    /\ boundGen' = [boundGen EXCEPT ![r] = routeGen[RouteOf[r]]]
    /\ UNCHANGED <<status, errorClass, usage, attemptCount,
                   attStatus, attClass, attTarget>>

\* One transaction counts the attempt on its request and inserts it.  The
\* attempt triggers require an in-progress request whose route, binding and
\* attempt agree on the target, the next number, and the target's limit.
CreateProviderAttemptOk(r, t, n) ==
    /\ status[r] = "in_progress"
    /\ boundTarget[r] # NoTarget
    /\ t = routeTarget[RouteOf[r]]
    /\ t = boundTarget[r]
    /\ n = Cardinality(Attempted(r)) + 1
    /\ n = attemptCount[r] + 1
    /\ n <= MaxAttempts[routeTarget[RouteOf[r]]]

CreateProviderAttempt(r, t, n) ==
    /\ attemptCount' = [attemptCount EXCEPT ![r] = @ + 1]
    /\ attStatus' = [attStatus EXCEPT ![r][n] = "in_progress"]
    /\ attTarget' = [attTarget EXCEPT ![r][n] = t]
    /\ UNCHANGED <<status, errorClass, usage, boundTarget, boundGen, attClass>>

CompleteProviderAttemptOk(r, n) ==
    /\ attStatus[r][n] = "in_progress"
    /\ status[r] = "in_progress"

CompleteProviderAttempt(r, n, s, class) ==
    /\ attStatus' = [attStatus EXCEPT ![r][n] = s]
    /\ attClass' = [attClass EXCEPT ![r][n] = class]
    /\ UNCHANGED <<status, errorClass, usage, boundTarget, boundGen, attemptCount,
                   attTarget>>

\* The usage check of inference_requests does not count total_tokens as a
\* known dimension; the one of provider_attempts does.
RequestUsageOk(s, u) ==
    \/ u = "unknown"
    \/ s = "succeeded" /\ u \in {"partial", "final"}

CompleteInferenceRequestOk(r, s, u) ==
    /\ status[r] = "in_progress"
    /\ attemptCount[r] = Cardinality(Attempted(r))
    /\ Unfinished(r) = {}
    /\ RequestUsageOk(s, u)

CompleteInferenceRequest(r, s, class, u) ==
    /\ status' = [status EXCEPT ![r] = s]
    /\ errorClass' = [errorClass EXCEPT ![r] = class]
    /\ usage' = [usage EXCEPT ![r] = u]
    /\ UNCHANGED <<boundTarget, boundGen, attemptCount, attStatus, attClass, attTarget>>

UpdateTargetHealth(t, s) ==
    health' = [health EXCEPT ![t] = s]

\* Resolving and attaching a route wait for the row lock of an open
\* provisioning transaction.
RouteLocked(r) == RouteOf[r] # NoRoute /\ retarget[RouteOf[r]] # NoTarget

\* The class of the error ResolveRoute returns, or "none".
ResolveRouteError(r) ==
    IF RouteOf[r] = NoRoute THEN "model_not_authorised"
    ELSE LET t == routeTarget[RouteOf[r]] IN
         IF RouteOf[r] \in disabled \/ t \in disabled \/ health[t] = "unavailable"
         THEN "target_unavailable"
         ELSE IF ~TenancyAllows(RouteOf[r], t) THEN "route_forbidden" ELSE "none"

----------------------------------------------------------------------------
(* The registry's other writers.                                           *)

\* Mutant: a request that has no route yet does not pin one.
ActiveRouted(r, rt) ==
    status[r] = "in_progress" /\ RouteOf[r] = rt /\ boundTarget[r] # NoTarget

\* A request that pins a route: in progress, and routed to it or still
\* unrouted with the route's scope and alias.
Active(r, rt) == status[r] = "in_progress" /\ RouteOf[r] = rt

\* Provisioning locks the route and points it at target t, which the
\* triggers refuse while the route is pinned or if t is another tenant's;
\* the change is visible, and the lock released, at commit.
ProvisionRetarget(rt, t) ==
    /\ retarget[rt] = NoTarget
    /\ t # routeTarget[rt]
    /\ routeGen[rt] < MaxGeneration
    /\ TenancyAllows(rt, t)
    /\ \A r \in Requests : ~Active(r, rt)
    /\ retarget' = [retarget EXCEPT ![rt] = t]
    /\ UNCHANGED <<routeTarget, routeGen, disabled, health, requestVars>>

ProvisionCommit(rt) ==
    /\ retarget[rt] # NoTarget
    /\ routeTarget' = [routeTarget EXCEPT ![rt] = retarget[rt]]
    /\ routeGen' = [routeGen EXCEPT ![rt] = @ + 1]
    /\ disabled' = disabled \ {rt}
    /\ retarget' = [retarget EXCEPT ![rt] = NoTarget]
    /\ UNCHANGED <<health, requestVars>>

ProvisionRollback(rt) ==
    /\ retarget[rt] # NoTarget
    /\ retarget' = [retarget EXCEPT ![rt] = NoTarget]
    /\ UNCHANGED <<routeTarget, routeGen, disabled, health, requestVars>>

\* Reprovisioning the same target keeps the generation and enables the route.
ProvisionSame(rt) ==
    /\ retarget[rt] = NoTarget
    /\ disabled' = disabled \ {rt}
    /\ UNCHANGED <<routeTarget, routeGen, retarget, health, requestVars>>

\* An operator switches a route or a target off or on with SQL.
OperatorToggle(x) ==
    /\ x \in Routes => retarget[x] = NoTarget
    /\ disabled' = IF x \in disabled THEN disabled \ {x} ELSE disabled \cup {x}
    /\ UNCHANGED <<routeTarget, routeGen, retarget, health, requestVars>>

\* The worker's probe writes what it observed, whatever the health was.
RecordProbeObservation(t, s) ==
    /\ UpdateTargetHealth(t, s)
    /\ UNCHANGED <<routeTarget, routeGen, retarget, disabled, requestVars>>
============================================================================
