-------------------------- MODULE EndpointWorkflow --------------------------
(***************************************************************************)
(* From an endpoint configuration to a serving endpoint, for the endpoints *)
(* of one model in one environment of one organisation: configurations,    *)
(* deployment requests, quotes, the payment requirements of accepted       *)
(* quotes, deployments, capacity revisions and the route they compete for. *)
(* Every operation is one transaction that locks what it checks before it  *)
(* checks it, so it is one action; only the edit of a configuration reads  *)
(* before it locks and is two.  An endpoint has one configuration and at   *)
(* most one deployment and is identified with them.  A request that is     *)
(* repeated with its idempotency key is answered from its row and changes  *)
(* nothing; a request id stands for the key.                               *)
(***************************************************************************)
EXTENDS Integers, FiniteSets

CONSTANTS
    Endpoints,
    OfferKind,   \* [Endpoints -> OfferKinds]: the offer a configuration names
    Requests,    \* ids of deployment_requests
    Quotes,      \* ids of deployment_quotes
    MaxUnits,    \* the profile's max_capacity_units; the minimum is 1
    MaxEdits,    \* bound: edits of configurations under way at a time
    None

OfferKinds == {"shared_evaluation", "shared_subscription", "dedicated_quote"}

ASSUME WorkflowAssumption ==
    /\ OfferKind \in [Endpoints -> OfferKinds]
    /\ MaxUnits \in Nat \ {0} /\ MaxEdits \in Nat
    /\ Requests \cap Quotes = {}
    /\ None \notin Endpoints \cup Requests \cup Quotes

Units == 1 .. MaxUnits

\* A payment requirement belongs to an accepted quote, or to the request of a
\* shared subscription.
Bills == Quotes \cup Requests

VARIABLES
    config,      \* [Endpoints -> ConfigStates]: endpoint_configurations.status
    units,       \* [Endpoints -> Units]: capacity_units of configuration and endpoint
    commercial,  \* [Endpoints -> CommercialStates]
    runtime,     \* [Endpoints -> RuntimeStates]
    routed,      \* the endpoints with a route_id
    routeTarget, \* RouteTargets: what the model's route is bound to
    request,     \* [Requests -> RequestRows]
    quote,       \* [Quotes -> QuoteRows]
    expired,     \* the quotes whose expires_at has passed
    bill,        \* [Bills -> BillStates]: payment_requirements.state
    deployment,  \* [Endpoints -> DeploymentRows]
    revision,    \* [Endpoints -> RevisionRows]: the active capacity revision
    edits        \* edits that have read their draft: <<endpoint, units to write>>

vars == <<config, units, commercial, runtime, routed, routeTarget, request, quote,
          expired, bill, deployment, revision, edits>>

ConfigStates     == {"absent", "draft", "submitted", "activated"}
CommercialStates == {"absent", "not_required", "quote_pending", "quote_offered",
                     "quote_accepted", "payment_action_required", "paid", "refunded"}
Stages           == {"allocating", "deploying", "validating"}
RuntimeStates    == {"absent", "awaiting_submission", "awaiting_payment",
                     "awaiting_allocation", "route_bound", "ready", "failed"} \cup Stages
RouteTargets     == {"none", "shared", "dedicated"}
RequestStates    == {"submitted", "quoted", "accepted", "approved", "ready", "failed"}
                        \cup Stages
\* Checkout, invoice and invoice with terms open the same requirement.
CollectionModes  == {"payment", "not_required"}
BillStates       == {"none", "action_required", "paid", "refunded"}

NoRequest == [status |-> "absent", endpoint |-> None, change |-> FALSE, units |-> 1,
              quote |-> None]
RequestRows == [status : RequestStates, endpoint : Endpoints, change : BOOLEAN,
                units : Units, quote : Quotes \cup {None}] \cup {NoRequest}
NoQuote == [status |-> "absent", request |-> None, units |-> 1, mode |-> "not_required"]
QuoteRows == [status : {"offered", "accepted", "superseded"}, request : Requests,
              units : Units, mode : CollectionModes] \cup {NoQuote}
NoDeployment == [state |-> "absent", quote |-> None]
DeploymentRows == [state : {"requested", "ready", "failed"} \cup Stages, quote : Quotes]
                      \cup {NoDeployment}
NoRevision == [units |-> 0, quote |-> None]
RevisionRows == [units : Units, quote : Quotes] \cup {NoRevision}

TypeOK ==
    /\ config \in [Endpoints -> ConfigStates]
    /\ units \in [Endpoints -> Units]
    /\ commercial \in [Endpoints -> CommercialStates]
    /\ runtime \in [Endpoints -> RuntimeStates]
    /\ routed \subseteq Endpoints
    /\ routeTarget \in RouteTargets
    /\ request \in [Requests -> RequestRows]
    /\ quote \in [Quotes -> QuoteRows]
    /\ expired \subseteq Quotes
    /\ bill \in [Bills -> BillStates]
    /\ deployment \in [Endpoints -> DeploymentRows]
    /\ revision \in [Endpoints -> RevisionRows]
    /\ edits \subseteq Endpoints \X Units

Init ==
    /\ config = [e \in Endpoints |-> "absent"]
    /\ units = [e \in Endpoints |-> 1]
    /\ commercial = [e \in Endpoints |-> "absent"]
    /\ runtime = [e \in Endpoints |-> "absent"]
    /\ routed = {} /\ routeTarget = "none"
    /\ request = [r \in Requests |-> NoRequest]
    /\ quote = [q \in Quotes |-> NoQuote]
    /\ expired = {}
    /\ bill = [b \in Bills |-> "none"]
    /\ deployment = [e \in Endpoints |-> NoDeployment]
    /\ revision = [e \in Endpoints |-> NoRevision]
    /\ edits = {}

----------------------------------------------------------------------------
(* The customer.                                                           *)

CreateEndpointConfiguration(e, n) ==
    /\ config[e] = "absent"
    /\ config' = [config EXCEPT ![e] = "draft"]
    /\ units' = [units EXCEPT ![e] = n]
    /\ UNCHANGED <<commercial, runtime, routed, routeTarget, request, quote, expired,
                   bill, deployment, revision, edits>>

\* An edit takes the draft as it finds it, without a lock: n is the units it was
\* given or those it has read.
StartUpdate(e, n) ==
    /\ config[e] = "draft"
    /\ Cardinality(edits) < MaxEdits
    /\ edits' = edits \cup {<<e, n>>}
    /\ UNCHANGED <<config, units, commercial, runtime, routed, routeTarget, request, quote,
                   expired, bill, deployment, revision>>

\* Mutant: the write does not ask again whether the configuration is a draft.
EditableUnlessActive(e) == config[e] \in {"draft", "submitted"}

Editable(e) == config[e] = "draft"

\* The write, under the lock: over whatever another edit has written since the
\* read, and without effect when the configuration was submitted meanwhile.
UpdateEndpointConfiguration(e, n) ==
    /\ <<e, n>> \in edits
    /\ edits' = edits \ {<<e, n>>}
    /\ units' = [units EXCEPT ![e] = IF Editable(e) THEN n ELSE @]
    /\ UNCHANGED <<config, commercial, runtime, routed, routeTarget, request, quote,
                   expired, bill, deployment, revision>>

\* The route of the model serves one endpoint, and a shared endpoint only
\* from the target of its offer.
activateSharedEndpointOk(e) == routed \subseteq {e} /\ routeTarget # "dedicated"

\* The endpoint, its first request and, for a shared offer, its activation or
\* its payment requirement.
SubmitEndpointConfiguration(e, r) ==
    LET kind == OfferKind[e] IN
    /\ config[e] = "draft" /\ request[r] = NoRequest
    /\ kind = "shared_evaluation" => activateSharedEndpointOk(e)
    /\ request' = [request EXCEPT ![r] =
           [status |-> "submitted", endpoint |-> e, change |-> FALSE, units |-> units[e],
            quote |-> None]]
    /\ config' = [config EXCEPT ![e] =
           IF kind = "shared_evaluation" THEN "activated" ELSE "submitted"]
    /\ commercial' = [commercial EXCEPT ![e] =
           CASE kind = "shared_evaluation" -> "not_required"
             [] kind = "shared_subscription" -> "payment_action_required"
             [] kind = "dedicated_quote" -> "quote_pending"]
    /\ runtime' = [runtime EXCEPT ![e] =
           CASE kind = "shared_evaluation" -> "route_bound"
             [] kind = "shared_subscription" -> "awaiting_payment"
             [] kind = "dedicated_quote" -> "awaiting_allocation"]
    /\ routed' = IF kind = "shared_evaluation" THEN routed \cup {e} ELSE routed
    /\ routeTarget' = IF kind = "shared_evaluation" THEN "shared" ELSE routeTarget
    /\ bill' = [bill EXCEPT ![r] =
           IF kind = "shared_subscription" THEN "action_required" ELSE @]
    /\ UNCHANGED <<units, quote, expired, deployment, revision, edits>>

ActiveStates == {"submitted", "quoted", "accepted", "approved"} \cup Stages

\* No capacity change of the endpoint's deployment is under way.
NoActiveChange(e) ==
    \A r \in Requests :
        request[r].endpoint = e /\ request[r].change => request[r].status \notin ActiveStates

CreateCapacityRequest(e, r, n) ==
    /\ request[r] = NoRequest
    /\ OfferKind[e] = "dedicated_quote" /\ deployment[e] # NoDeployment
    /\ runtime[e] = "ready"
    /\ n # units[e]
    /\ NoActiveChange(e)
    /\ request' = [request EXCEPT ![r] =
           [status |-> "submitted", endpoint |-> e, change |-> TRUE, units |-> n,
            quote |-> None]]
    /\ UNCHANGED <<config, units, commercial, runtime, routed, routeTarget, quote,
                   expired, bill, deployment, revision, edits>>

\* Mutant: an expired quote is accepted.
AcceptOkLate(q) ==
    quote[q].status = "offered" /\ ~request[quote[q].request].change

\* A quote on the table, reached through the configuration of its request: a
\* capacity change has none.
AcceptOk(q) ==
    /\ quote[q].status = "offered" /\ q \notin expired
    /\ request[quote[q].request].quote = q
    /\ ~request[quote[q].request].change

AcceptDeploymentQuote(q) ==
    LET r == quote[q].request
        e == request[r].endpoint
        free == quote[q].mode = "not_required"
    IN /\ AcceptOk(q)
       /\ quote' = [quote EXCEPT ![q].status = "accepted"]
       /\ request' = [request EXCEPT ![r].status = "accepted"]
       /\ bill' = [bill EXCEPT ![q] = IF free THEN @ ELSE "action_required"]
       /\ commercial' = [commercial EXCEPT ![e] =
              IF free THEN "quote_accepted" ELSE "payment_action_required"]
       /\ runtime' = [runtime EXCEPT ![e] =
              IF free THEN "awaiting_allocation" ELSE "awaiting_payment"]
       /\ UNCHANGED <<config, units, routed, routeTarget, expired, deployment, revision,
                      edits>>

----------------------------------------------------------------------------
(* The operator.                                                           *)

\* A new quote supersedes the one on the table.
IssueDeploymentQuote(r, q, mode) ==
    /\ request[r].status \in {"submitted", "quoted"}
    /\ quote[q] = NoQuote
    /\ quote' = [p \in Quotes |->
           IF p = q THEN [status |-> "offered", request |-> r, units |-> request[r].units,
                          mode |-> mode]
           ELSE IF p = request[r].quote /\ quote[p].status = "offered"
                THEN [quote[p] EXCEPT !.status = "superseded"]
           ELSE quote[p]]
    /\ request' = [request EXCEPT ![r].status = "quoted", ![r].quote = q]
    /\ commercial' = [commercial EXCEPT ![request[r].endpoint] =
           IF request[r].change THEN @ ELSE "quote_offered"]
    /\ UNCHANGED <<config, units, runtime, routed, routeTarget, expired, bill,
                   deployment, revision, edits>>

BillsOf(r) == {r} \cup {q \in Quotes : quote[q].request = r}

\* Mutant: a requirement that was refunded counts as settled.
SettledUnlessDue(r) == \A b \in BillsOf(r) : bill[b] # "action_required"

Settled(r) == \A b \in BillsOf(r) : bill[b] \in {"none", "paid"}

\* Approval of a new endpoint creates its deployment, which a shared endpoint
\* cannot have.
Approve(r) ==
    LET e == request[r].endpoint IN
    /\ request[r].status = "accepted"
    /\ Settled(r)
    /\ OfferKind[e] = "dedicated_quote"
    /\ request' = [request EXCEPT ![r].status = "approved"]
    /\ IF request[r].change THEN UNCHANGED <<deployment, runtime>>
       ELSE /\ deployment' = [deployment EXCEPT ![e] =
                   [state |-> "requested", quote |-> request[r].quote]]
            /\ runtime' = [runtime EXCEPT ![e] = "awaiting_allocation"]
    /\ UNCHANGED <<config, units, commercial, routed, routeTarget, quote, expired, bill,
                   revision, edits>>

StageAfter(status) ==
    CASE status = "approved" -> "allocating"
      [] status = "allocating" -> "deploying"
      [] status = "deploying" -> "validating"

Advance(r) ==
    LET e == request[r].endpoint
        s == StageAfter(request[r].status)
    IN /\ request[r].status \in {"approved", "allocating", "deploying"}
       /\ request' = [request EXCEPT ![r].status = s]
       /\ deployment' = [deployment EXCEPT ![e].state = s]
       /\ runtime' = [runtime EXCEPT ![e] = s]
       /\ UNCHANGED <<config, units, commercial, routed, routeTarget, quote, expired,
                      bill, revision, edits>>

\* Mutant: the route is not reserved for one endpoint.
completeDedicatedDeploymentAnyRoute(r) ==
    quote[deployment[request[r].endpoint].quote].units = request[r].units

\* The route must not serve another endpoint, and the revision is recorded
\* under the deployment's own quote, whose units it must match.
completeDedicatedDeploymentOk(r) ==
    LET e == request[r].endpoint IN
    /\ routed \subseteq {e}
    /\ quote[deployment[e].quote].units = request[r].units

Ready(r) ==
    LET e == request[r].endpoint IN
    /\ request[r].status = "validating"
    /\ completeDedicatedDeploymentOk(r)
    /\ request' = [request EXCEPT ![r].status = "ready"]
    /\ deployment' = [deployment EXCEPT ![e].state = "ready"]
    /\ revision' = [revision EXCEPT ![e] =
           [units |-> request[r].units, quote |-> deployment[e].quote]]
    /\ routed' = routed \cup {e}
    /\ routeTarget' = "dedicated"
    /\ runtime' = [runtime EXCEPT ![e] = "ready"]
    /\ config' = [config EXCEPT ![e] = "activated"]
    /\ UNCHANGED <<units, commercial, quote, expired, bill, edits>>

\* Mutant: the failure of a change is not shown on the endpoint.
FailRequestQuietly(r) ==
    LET e == request[r].endpoint IN
    /\ request[r].status \notin {"absent", "failed"}
    /\ request[r].quote # None
    /\ request' = [request EXCEPT ![r].status = "failed"]
    /\ deployment' = [deployment EXCEPT ![e].state = IF request[r].change THEN "failed" ELSE @]
    /\ UNCHANGED <<config, units, commercial, runtime, routed, routeTarget, quote, expired,
                   bill, revision, edits>>

\* Any request that has a quote can be failed, a finished one too.  Only the
\* request of a capacity change knows its deployment.
FailRequest(r) ==
    LET e == request[r].endpoint IN
    /\ request[r].status \notin {"absent", "failed"}
    /\ request[r].quote # None
    /\ request' = [request EXCEPT ![r].status = "failed"]
    /\ deployment' = [deployment EXCEPT ![e].state = IF request[r].change THEN "failed" ELSE @]
    /\ runtime' = [runtime EXCEPT ![e] = "failed"]
    /\ UNCHANGED <<config, units, commercial, routed, routeTarget, quote, expired, bill,
                   revision, edits>>

----------------------------------------------------------------------------
(* Time, and the payment events that module BillingLedger describes.       *)

QuoteExpires(q) ==
    /\ quote[q].status = "offered" /\ q \notin expired
    /\ expired' = expired \cup {q}
    /\ UNCHANGED <<config, units, commercial, runtime, routed, routeTarget, request, quote,
                   bill, deployment, revision, edits>>

EndpointOf(b) ==
    IF b \in Requests THEN request[b].endpoint ELSE request[quote[b].request].endpoint

\* A paid requirement activates a shared subscription and nothing else.
markPaymentPaid(b) ==
    LET e == EndpointOf(b)
        shared == OfferKind[e] = "shared_subscription"
    IN /\ bill[b] \in {"action_required", "refunded"}
       /\ shared => activateSharedEndpointOk(e)
       /\ bill' = [bill EXCEPT ![b] = "paid"]
       /\ commercial' = [commercial EXCEPT ![e] = "paid"]
       /\ IF shared
          THEN /\ runtime' = [runtime EXCEPT ![e] = "route_bound"]
               /\ routed' = routed \cup {e}
               /\ routeTarget' = "shared"
               /\ config' = [config EXCEPT ![e] = "activated"]
          ELSE UNCHANGED <<runtime, routed, routeTarget, config>>
       /\ UNCHANGED <<units, request, quote, expired, deployment, revision, edits>>

Refunded(b) ==
    /\ bill[b] \in {"action_required", "paid"}
    /\ bill' = [bill EXCEPT ![b] = "refunded"]
    /\ commercial' = [commercial EXCEPT ![EndpointOf(b)] = "refunded"]
    /\ UNCHANGED <<config, units, runtime, routed, routeTarget, request, quote, expired,
                   deployment, revision, edits>>

Customer ==
    \/ \E e \in Endpoints, n \in Units :
          \/ CreateEndpointConfiguration(e, n)
          \/ StartUpdate(e, n) \/ UpdateEndpointConfiguration(e, n)
    \/ \E e \in Endpoints, r \in Requests : SubmitEndpointConfiguration(e, r)
    \/ \E e \in Endpoints, r \in Requests, n \in Units : CreateCapacityRequest(e, r, n)
    \/ \E q \in Quotes : AcceptDeploymentQuote(q)

Operator ==
    \/ \E r \in Requests, q \in Quotes, mode \in CollectionModes :
          IssueDeploymentQuote(r, q, mode)
    \/ \E r \in Requests : Approve(r) \/ Advance(r) \/ Ready(r) \/ FailRequest(r)

Next ==
    \/ Customer
    \/ Operator
    \/ \E q \in Quotes : QuoteExpires(q)
    \/ \E b \in Bills : markPaymentPaid(b) \/ Refunded(b)

Spec == Init /\ [][Next]_vars
============================================================================
