------------------------ MODULE EndpointProperties ------------------------
(***************************************************************************)
(* What the endpoint workflow promises.                                    *)
(***************************************************************************)
EXTENDS EndpointWorkflow

\* Once a configuration is submitted, its endpoint, its request and every quote
\* for that request speak of the same capacity, whatever is edited or quoted
\* again in between (the draft-only update of UpdateEndpointConfiguration and the
\* snapshot taken by IssueDeploymentQuote).
SubmittedFactsAgree ==
    /\ \A r \in Requests : request[r] # NoRequest /\ ~request[r].change =>
           request[r].units = units[request[r].endpoint]
    /\ \A q \in Quotes : quote[q] # NoQuote => quote[q].units = request[quote[q].request].units

\* A dedicated endpoint says ready only with a validated deployment, an active
\* capacity revision under an accepted quote for those units, and the model's
\* route bound to dedicated capacity and to it alone
\* (completeDedicatedDeployment; no payment, failure or later request leaves a
\* ready endpoint without them).
ReadyHasEvidence ==
    \A e \in Endpoints : runtime[e] = "ready" =>
        /\ deployment[e].state = "ready"
        /\ revision[e] # NoRevision /\ revision[e].quote = deployment[e].quote
        /\ quote[revision[e].quote].status = "accepted"
        /\ revision[e].units = quote[revision[e].quote].units
        /\ routed = {e} /\ routeTarget = "dedicated"

\* What it takes to create the deployment of e.
DeployedWhenPaid(e) ==
    deployment[e] = NoDeployment /\ deployment'[e] # NoDeployment =>
        LET q == deployment'[e].quote IN
        /\ quote[q].status = "accepted"
        /\ quote[q].mode = "not_required" \/ bill[q] = "paid"
AllDeployedWhenPaid == \A e \in Endpoints : DeployedWhenPaid(e)

\* The deployment of an endpoint comes into being only when the quote it runs
\* under is accepted and either asks for no payment or is paid at that moment,
\* however payment, refund, approval and failure are ordered
\* (TransitionDeploymentRequest to approved).
PaidBeforeDeployment == [][AllDeployedWhenPaid]_vars

\* A request past acceptance stands on the one accepted quote it has, which is
\* the last one issued for it and had not expired; superseded and expired quotes
\* never carry a request (AcceptDeploymentQuote).
AcceptedQuoteValid ==
    /\ \A r \in Requests :
           request[r].status \in {"accepted", "approved", "ready"} \cup Stages =>
               quote[request[r].quote].status = "accepted"
    /\ \A q \in Quotes : quote[q].status = "accepted" =>
           request[quote[q].request].quote = q /\ q \notin expired

\* The route of a model serves at most one endpoint, and dedicated capacity
\* serves only a dedicated endpoint, also when shared and dedicated endpoints of
\* the model are activated in any order (activateSharedEndpoint, the unique
\* route_id, completeDedicatedDeployment).
RouteExclusive ==
    /\ Cardinality(routed) <= 1
    /\ \A e \in routed : routeTarget =
           IF OfferKind[e] = "dedicated_quote" THEN "dedicated" ELSE "shared"

\* At most one capacity change of a deployment is under way
\* (deployment_requests_one_active_change_0008_idx).
OneActiveChange ==
    \A r, s \in Requests :
        r # s /\ request[r].change /\ request[s].change
              /\ request[r].endpoint = request[s].endpoint =>
            request[r].status \notin ActiveStates \/ request[s].status \notin ActiveStates

----------------------------------------------------------------------------
(* The inductive invariant, one part per table.                            *)

Deploying == {"approved", "ready"} \cup Stages
Carried   == {"accepted"} \cup Deploying

\* A request belongs to a submitted configuration and to the quotes issued for it;
\* a capacity change never gets past its quote; what is past acceptance stands on
\* an accepted quote, and what is past approval has a deployment.
RequestsInv ==
    \A r \in Requests : request[r] # NoRequest =>
        LET row == request[r] IN
        /\ ~row.change => config[row.endpoint] \in {"submitted", "activated"}
        /\ row.change => row.status \in {"submitted", "quoted", "failed"}
                           /\ deployment[row.endpoint] # NoDeployment
        /\ row.quote # None => quote[row.quote] # NoQuote /\ quote[row.quote].request = r
        /\ row.status \in Carried => row.quote # None /\ quote[row.quote].status = "accepted"
        /\ row.status \in Deploying => OfferKind[row.endpoint] = "dedicated_quote"
                                         /\ deployment[row.endpoint] # NoDeployment

\* An accepted quote is the last of its request, which it has moved on, and has a
\* payment requirement if it asks for one.
QuotesInv ==
    \A q \in Quotes : quote[q] # NoQuote =>
        LET r == quote[q].request IN
        /\ request[r] # NoRequest
        /\ quote[q].status = "accepted" =>
              /\ request[r].quote = q /\ q \notin expired
              /\ request[r].status \in Carried \cup {"failed"}
              /\ quote[q].mode # "not_required" => bill[q] # "none"

\* A payment requirement belongs to a quote or request that is there, and a
\* deployment to an accepted quote.
OriginsInv ==
    /\ \A b \in Bills : bill[b] # "none" =>
           IF b \in Requests THEN request[b] # NoRequest ELSE quote[b] # NoQuote
    /\ \A e \in Endpoints : deployment[e] # NoDeployment =>
           quote[deployment[e].quote].status = "accepted"

\* The route is that of one endpoint and of its kind.
RouteInv ==
    \A e \in routed :
        /\ routed = {e}
        /\ routeTarget = IF OfferKind[e] = "dedicated_quote" THEN "dedicated" ELSE "shared"

\* The records of the workflow fit together: well formed, of one capacity from
\* configuration to quote, with one capacity change at a time, and each standing on
\* the records it came from, whatever the customer, the operator and billing do in
\* between (UpdateEndpointConfiguration, IssueDeploymentQuote, CreateCapacityRequest,
\* TransitionDeploymentRequest).
EndpointInv ==
    /\ TypeOK /\ SubmittedFactsAgree /\ OneActiveChange
    /\ RequestsInv /\ QuotesInv /\ OriginsInv /\ RouteInv
============================================================================
