--------------------------- MODULE EndpointProofs ---------------------------
(***************************************************************************)
(* Machine-checked proofs about the endpoint workflow, for any number of   *)
(* endpoints, requests, quotes and capacity units.                         *)
(***************************************************************************)
EXTENDS EndpointProperties, TLAPS, FiniteSetTheorems

\* A row is absent or has all its columns.
LEMMA Rows ==
    ASSUME TypeOK
    PROVE  /\ \A r \in Requests :
                  /\ request[r] # NoRequest =>
                       /\ request[r].status \in RequestStates /\ request[r].endpoint \in Endpoints
                       /\ request[r].change \in BOOLEAN /\ request[r].units \in Units
                       /\ request[r].quote \in Quotes \cup {None}
                  /\ request[r] = NoRequest <=> request[r].status = "absent"
                  /\ request[r] = NoRequest => ~request[r].change
           /\ \A q \in Quotes :
                  /\ quote[q] # NoQuote =>
                       /\ quote[q].status \in {"offered", "accepted", "superseded"}
                       /\ quote[q].request \in Requests /\ quote[q].units \in Units
                       /\ quote[q].mode \in CollectionModes
                  /\ quote[q] = NoQuote <=> quote[q].status = "absent"
           /\ \A e \in Endpoints :
                  /\ deployment[e] # NoDeployment =>
                       /\ deployment[e].state \in {"requested", "ready", "failed"} \cup Stages
                       /\ deployment[e].quote \in Quotes
                  /\ deployment[e] = NoDeployment <=> deployment[e].state = "absent"
  <1>1. ASSUME NEW r \in Requests
        PROVE  /\ request[r] # NoRequest =>
                       /\ request[r].status \in RequestStates /\ request[r].endpoint \in Endpoints
                       /\ request[r].change \in BOOLEAN /\ request[r].units \in Units
                       /\ request[r].quote \in Quotes \cup {None}
               /\ request[r] = NoRequest <=> request[r].status = "absent"
               /\ request[r] = NoRequest => ~request[r].change
    <2>1. request[r] \in RequestRows
      BY DEF TypeOK
    <2>2. CASE request[r] = NoRequest
      BY <2>2 DEF NoRequest
    <2>3. CASE request[r] # NoRequest
      <3>1. request[r] \in [status : RequestStates, endpoint : Endpoints, change : BOOLEAN,
                            units : Units, quote : Quotes \cup {None}]
        BY <2>1, <2>3 DEF RequestRows
      <3>2. request[r].status # "absent"
        BY <3>1 DEF RequestStates, Stages
      <3> QED BY <2>3, <3>1, <3>2
    <2> QED BY <2>2, <2>3
  <1>2. ASSUME NEW q \in Quotes
        PROVE  /\ quote[q] # NoQuote =>
                       /\ quote[q].status \in {"offered", "accepted", "superseded"}
                       /\ quote[q].request \in Requests /\ quote[q].units \in Units
                       /\ quote[q].mode \in CollectionModes
               /\ quote[q] = NoQuote <=> quote[q].status = "absent"
    <2>1. quote[q] \in QuoteRows
      BY DEF TypeOK
    <2> QED BY <2>1 DEF QuoteRows, NoQuote
  <1>3. ASSUME NEW e \in Endpoints
        PROVE  /\ deployment[e] # NoDeployment =>
                       /\ deployment[e].state \in {"requested", "ready", "failed"} \cup Stages
                       /\ deployment[e].quote \in Quotes
               /\ deployment[e] = NoDeployment <=> deployment[e].state = "absent"
    <2>1. deployment[e] \in DeploymentRows
      BY DEF TypeOK
    <2> QED BY <2>1 DEF DeploymentRows, NoDeployment, Stages
  <1> QED BY <1>1, <1>2, <1>3

\* What a change of the status of a request makes of its row.
LEMMA RequestStatus ==
    ASSUME TypeOK, NEW r \in Requests, request[r] # NoRequest, NEW x \in RequestStates
    PROVE  LET row == [request[r] EXCEPT !.status = x] IN
           /\ row \in RequestRows /\ row # NoRequest
           /\ row.status = x /\ row.quote = request[r].quote
           /\ row.endpoint = request[r].endpoint
           /\ row.change = request[r].change /\ row.units = request[r].units
  <1>1. request[r] \in [status : RequestStates, endpoint : Endpoints, change : BOOLEAN,
                        units : Units, quote : Quotes \cup {None}]
    BY DEF TypeOK, RequestRows
  <1>2. x # "absent"
    BY DEF RequestStates, Stages
  <1> QED BY <1>1, <1>2 DEF RequestRows, NoRequest

\* What a new quote makes of the row of its request.
LEMMA RequestQuoted ==
    ASSUME TypeOK, NEW r \in Requests, request[r] # NoRequest, NEW q \in Quotes
    PROVE  LET row == [[request[r] EXCEPT !.status = "quoted"] EXCEPT !.quote = q] IN
           /\ row \in RequestRows /\ row # NoRequest
           /\ row.status = "quoted" /\ row.quote = q /\ row.endpoint = request[r].endpoint
           /\ row.change = request[r].change /\ row.units = request[r].units
  <1>1. request[r] \in [status : RequestStates, endpoint : Endpoints, change : BOOLEAN,
                        units : Units, quote : Quotes \cup {None}]
    BY DEF TypeOK, RequestRows
  <1>2. "quoted" \in RequestStates
    BY DEF RequestStates
  <1> QED BY <1>1, <1>2 DEF RequestRows, NoRequest

\* What a change of the status of a quote makes of its row.
LEMMA QuoteStatus ==
    ASSUME TypeOK, NEW q \in Quotes, quote[q] # NoQuote, NEW x \in {"offered", "accepted", "superseded"}
    PROVE  LET row == [quote[q] EXCEPT !.status = x] IN
           /\ row \in QuoteRows /\ row # NoQuote
           /\ row.status = x /\ row.request = quote[q].request /\ row.units = quote[q].units
           /\ row.mode = quote[q].mode
  <1>1. quote[q] \in [status : {"offered", "accepted", "superseded"}, request : Requests,
                      units : Units, mode : CollectionModes]
    BY DEF TypeOK, QuoteRows
  <1> QED BY <1>1 DEF QuoteRows, NoQuote

\* What a change of the state of a deployment makes of its row.
LEMMA DeploymentState ==
    ASSUME TypeOK, NEW e \in Endpoints, deployment[e] # NoDeployment,
           NEW x \in {"requested", "ready", "failed"} \cup Stages
    PROVE  LET row == [deployment[e] EXCEPT !.state = x] IN
           row \in DeploymentRows /\ row # NoDeployment /\ row.state = x
           /\ row.quote = deployment[e].quote
  <1>1. deployment[e] \in [state : {"requested", "ready", "failed"} \cup Stages, quote : Quotes]
    BY DEF TypeOK, DeploymentRows
  <1> QED BY <1>1 DEF DeploymentRows, NoDeployment, Stages

\* Before any configuration the invariant holds.
LEMMA InitInv == Init => EndpointInv
  <1> SUFFICES ASSUME Init PROVE EndpointInv
    OBVIOUS
  <1> USE WorkflowAssumption DEF Init
  <1>1. TypeOK
    BY DEF TypeOK, ConfigStates, Units, CommercialStates, RuntimeStates, RouteTargets,
           RequestRows, QuoteRows, BillStates, DeploymentRows, RevisionRows
  <1>2. SubmittedFactsAgree /\ OneActiveChange /\ RequestsInv /\ QuotesInv /\ OriginsInv /\ RouteInv
    BY DEF SubmittedFactsAgree, OneActiveChange, RequestsInv, QuotesInv, OriginsInv, RouteInv,
           NoRequest, NoQuote
  <1> QED BY <1>1, <1>2 DEF EndpointInv

----------------------------------------------------------------------------
(* One lemma per group of steps.                                           *)

\* A configuration is edited only before its request is made.
LEMMA ConfigurationStep ==
    ASSUME EndpointInv, NEW e \in Endpoints, NEW n \in Units,
           CreateEndpointConfiguration(e, n) \/ StartUpdate(e, n) \/ UpdateEndpointConfiguration(e, n)
    PROVE  EndpointInv'
  <1> USE DEF EndpointInv
  <1>1. /\ units' \in {units, [units EXCEPT ![e] = n]}
        /\ units' = units \/ config[e] \in {"absent", "draft"}
        /\ config' = config \/ /\ config[e] = "absent"
                               /\ config' = [config EXCEPT ![e] = "draft"]
        /\ edits' \in {edits, edits \cup {<<e, n>>}, edits \ {<<e, n>>}}
        /\ UNCHANGED <<commercial, runtime, routed, routeTarget, request, quote, expired,
                       bill, deployment, revision>>
    BY DEF CreateEndpointConfiguration, StartUpdate, UpdateEndpointConfiguration, Editable, TypeOK
  <1>2. TypeOK'
    BY <1>1 DEF TypeOK, ConfigStates
  <1>3. ASSUME NEW f \in Endpoints, config[f] \in {"submitted", "activated"}
        PROVE  config'[f] = config[f] /\ units'[f] = units[f]
    BY <1>1, <1>3 DEF TypeOK
  <1>4. SubmittedFactsAgree' /\ RequestsInv'
    BY <1>1, <1>3, Rows DEF SubmittedFactsAgree, RequestsInv
  <1>5. OneActiveChange' /\ QuotesInv' /\ OriginsInv' /\ RouteInv'
    BY <1>1 DEF OneActiveChange, QuotesInv, OriginsInv, RouteInv
  <1> QED BY <1>2, <1>4, <1>5

\* The first request of a configuration starts with no quote and no deployment.
LEMMA SubmitStep ==
    ASSUME EndpointInv, NEW e \in Endpoints, NEW r \in Requests, SubmitEndpointConfiguration(e, r)
    PROVE  EndpointInv'
  <1> USE WorkflowAssumption DEF EndpointInv
  <1> DEFINE row == [status |-> "submitted", endpoint |-> e, change |-> FALSE, units |-> units[e],
                     quote |-> None]
  <1>1. /\ config[e] = "draft" /\ request[r] = NoRequest
        /\ request' = [request EXCEPT ![r] = row]
        /\ UNCHANGED <<units, quote, expired, deployment, revision, edits>>
        /\ \A f \in Endpoints : f # e => config'[f] = config[f]
        /\ config'[e] \in {"submitted", "activated"}
    BY DEF SubmitEndpointConfiguration, TypeOK
  <1>2. row \in RequestRows /\ row # NoRequest
    BY DEF RequestRows, RequestStates, NoRequest, TypeOK
  <1>3. TypeOK'
    <2>1. OfferKind[e] \in OfferKinds
      OBVIOUS
    <2>2. request' \in [Requests -> RequestRows]
      BY <1>1, <1>2 DEF TypeOK
    <2>3. config' \in [Endpoints -> ConfigStates]
      BY DEF SubmitEndpointConfiguration, TypeOK, ConfigStates
    <2>4. commercial' \in [Endpoints -> CommercialStates] /\ runtime' \in [Endpoints -> RuntimeStates]
      BY <2>1 DEF SubmitEndpointConfiguration, TypeOK, CommercialStates, RuntimeStates, OfferKinds
    <2>5. routed' \subseteq Endpoints /\ routeTarget' \in RouteTargets /\ bill' \in [Bills -> BillStates]
      BY DEF SubmitEndpointConfiguration, TypeOK, RouteTargets, BillStates, Bills
    <2> QED BY <1>1, <2>2, <2>3, <2>4, <2>5 DEF TypeOK
  <1>4. /\ request'[r] = row /\ request'[r] # NoRequest
        /\ row.status = "submitted" /\ row.endpoint = e /\ ~row.change /\ row.units = units[e]
        /\ row.quote = None
        /\ \A s \in Requests : s # r => request'[s] = request[s]
    BY <1>1, <1>2 DEF TypeOK
  <1> HIDE DEF row
  <1>5. SubmittedFactsAgree'
    BY <1>1, <1>4, Rows DEF SubmittedFactsAgree, QuotesInv
  <1>6. OneActiveChange'
    BY <1>4 DEF OneActiveChange
  <1>7. RequestsInv'
    BY <1>1, <1>4, Rows DEF RequestsInv, Carried, Deploying, Stages
  <1>8. QuotesInv'
    <2>1. \A q \in Quotes : bill'[q] = bill[q]
      BY DEF SubmitEndpointConfiguration, TypeOK, Bills
    <2> QED BY <1>1, <1>4, <2>1, Rows DEF QuotesInv
  <1>9. OriginsInv'
    <2>1. \A b \in Bills : b # r => bill'[b] = bill[b]
      BY DEF SubmitEndpointConfiguration, TypeOK, Bills
    <2> QED BY <1>1, <1>4, <2>1 DEF OriginsInv, Bills
  <1>10. RouteInv'
    BY DEF SubmitEndpointConfiguration, activateSharedEndpointOk, RouteInv
  <1> QED BY <1>3, <1>5, <1>6, <1>7, <1>8, <1>9, <1>10

\* A capacity change starts only when its deployment has no other under way.
LEMMA CapacityStep ==
    ASSUME EndpointInv, NEW e \in Endpoints, NEW r \in Requests, NEW n \in Units,
           CreateCapacityRequest(e, r, n)
    PROVE  EndpointInv'
  <1> USE WorkflowAssumption DEF EndpointInv
  <1> DEFINE row == [status |-> "submitted", endpoint |-> e, change |-> TRUE, units |-> n,
                     quote |-> None]
  <1>1. /\ request[r] = NoRequest /\ deployment[e] # NoDeployment /\ NoActiveChange(e)
        /\ request' = [request EXCEPT ![r] = row]
        /\ UNCHANGED <<config, units, commercial, runtime, routed, routeTarget, quote,
                       expired, bill, deployment, revision, edits>>
    BY DEF CreateCapacityRequest
  <1>2. row \in RequestRows /\ row # NoRequest
    BY DEF RequestRows, RequestStates, NoRequest, TypeOK
  <1>3. TypeOK'
    BY <1>1, <1>2 DEF TypeOK
  <1>4. /\ request'[r] = row /\ request'[r] # NoRequest
        /\ row.status = "submitted" /\ row.endpoint = e /\ row.change /\ row.quote = None
        /\ \A s \in Requests : s # r => request'[s] = request[s]
    BY <1>1, <1>2 DEF TypeOK
  <1> HIDE DEF row
  <1>5. SubmittedFactsAgree'
    BY <1>1, <1>4, Rows DEF SubmittedFactsAgree, QuotesInv
  <1>6. OneActiveChange'
    BY <1>1, <1>4 DEF OneActiveChange, NoActiveChange
  <1>7. RequestsInv'
    BY <1>1, <1>4, Rows DEF RequestsInv, Carried, Deploying, Stages
  <1>8. QuotesInv' /\ RouteInv'
    BY <1>1, <1>4, Rows DEF QuotesInv, RouteInv
  <1>9. OriginsInv'
    BY <1>1, <1>4 DEF OriginsInv
  <1> QED BY <1>3, <1>5, <1>6, <1>7, <1>8, <1>9

\* Only the quote on the table is accepted, before it expires.
LEMMA AcceptStep ==
    ASSUME EndpointInv, NEW q \in Quotes, AcceptDeploymentQuote(q)
    PROVE  EndpointInv'
  <1> USE WorkflowAssumption DEF EndpointInv
  <1> DEFINE r == quote[q].request
  <1>1. /\ quote[q] # NoQuote /\ r \in Requests /\ request[r] # NoRequest
        /\ request[r].endpoint \in Endpoints
        /\ quote[q].status = "offered" /\ q \notin expired
        /\ request[r].quote = q /\ ~request[r].change
        /\ UNCHANGED <<config, units, routed, routeTarget, expired, deployment, revision, edits>>
    BY Rows DEF AcceptDeploymentQuote, AcceptOk, QuotesInv
  <1>2. /\ quote'[q] # NoQuote /\ quote'[q].status = "accepted" /\ quote'[q].request = r
        /\ quote'[q].units = quote[q].units /\ quote'[q].mode = quote[q].mode
        /\ \A p \in Quotes : p # q => quote'[p] = quote[p]
        /\ quote' \in [Quotes -> QuoteRows]
    BY <1>1, QuoteStatus DEF AcceptDeploymentQuote, TypeOK
  <1>3. /\ request'[r] # NoRequest /\ request'[r].status = "accepted" /\ request'[r].quote = q
        /\ request'[r].endpoint = request[r].endpoint /\ ~request'[r].change
        /\ request'[r].units = request[r].units
        /\ \A s \in Requests : s # r => request'[s] = request[s]
        /\ request' \in [Requests -> RequestRows]
    <2>1. "accepted" \in RequestStates
      BY DEF RequestStates
    <2>2. request' = [request EXCEPT ![r] = [request[r] EXCEPT !.status = "accepted"]]
      BY DEF AcceptDeploymentQuote
    <2> QED BY <1>1, <2>1, <2>2, RequestStatus DEF TypeOK
  <1>4. /\ \A b \in Bills : b # q => bill'[b] = bill[b]
        /\ quote[q].mode # "not_required" => bill'[q] # "none"
        /\ bill' \in [Bills -> BillStates]
    BY DEF AcceptDeploymentQuote, TypeOK, Bills, BillStates
  <1>5. TypeOK'
    <2>1. commercial' \in [Endpoints -> CommercialStates] /\ runtime' \in [Endpoints -> RuntimeStates]
      BY DEF AcceptDeploymentQuote, TypeOK, CommercialStates, RuntimeStates
    <2> QED BY <1>1, <1>2, <1>3, <1>4, <2>1 DEF TypeOK
  <1> HIDE DEF r
  <1>6. SubmittedFactsAgree'
    BY <1>1, <1>2, <1>3, Rows DEF SubmittedFactsAgree, r
  <1>7. OneActiveChange'
    BY <1>1, <1>3 DEF OneActiveChange
  <1>8. RequestsInv'
    BY <1>1, <1>2, <1>3, Rows DEF RequestsInv, Carried, Deploying, Stages
  <1>9. QuotesInv'
    BY <1>1, <1>2, <1>3, <1>4, Rows DEF QuotesInv, Carried, Bills
  <1>10. OriginsInv'
    BY <1>1, <1>2, <1>3, <1>4, Rows DEF OriginsInv, Bills
  <1>11. RouteInv'
    BY <1>1 DEF RouteInv
  <1> QED BY <1>5, <1>6, <1>7, <1>8, <1>9, <1>10, <1>11

\* A new quote leaves every accepted one as it is.
LEMMA IssueStep ==
    ASSUME EndpointInv, NEW r \in Requests, NEW q \in Quotes, NEW mode \in CollectionModes,
           IssueDeploymentQuote(r, q, mode)
    PROVE  EndpointInv'
  <1> USE WorkflowAssumption DEF EndpointInv
  <1>1. /\ request[r] # NoRequest /\ request[r].status \in {"submitted", "quoted"}
        /\ request[r].endpoint \in Endpoints /\ request[r].units \in Units
        /\ quote[q] = NoQuote
        /\ UNCHANGED <<config, units, runtime, routed, routeTarget, expired, bill, deployment,
                       revision, edits>>
    BY Rows DEF IssueDeploymentQuote
  <1> DEFINE row == [status |-> "offered", request |-> r, units |-> request[r].units, mode |-> mode]
  <1>2. row \in QuoteRows /\ row # NoQuote /\ row.status = "offered" /\ row.request = r
        /\ row.units = request[r].units
    BY <1>1 DEF QuoteRows, NoQuote
  <1>3. ASSUME NEW p \in Quotes
        PROVE  /\ quote'[p] \in QuoteRows
               /\ p = q => quote'[p] = row
               /\ p # q => /\ quote'[p] = NoQuote <=> quote[p] = NoQuote
                           /\ quote'[p].request = quote[p].request
                           /\ quote'[p].units = quote[p].units /\ quote'[p].mode = quote[p].mode
                           /\ quote'[p].status = "accepted" <=> quote[p].status = "accepted"
    <2>1. CASE p = q
      BY <1>2, <2>1 DEF IssueDeploymentQuote
    <2>2. CASE p # q /\ p = request[r].quote /\ quote[p].status = "offered"
      <3>1. quote[p] # NoQuote
        BY <2>2, Rows
      <3>2. quote'[p] = [quote[p] EXCEPT !.status = "superseded"]
        BY <2>2 DEF IssueDeploymentQuote
      <3>3. /\ quote'[p] \in QuoteRows /\ quote'[p] # NoQuote
            /\ quote'[p].status = "superseded" /\ quote'[p].request = quote[p].request
            /\ quote'[p].units = quote[p].units /\ quote'[p].mode = quote[p].mode
        BY <3>1, <3>2, QuoteStatus, ZenonT(40)
      <3> QED BY <2>2, <3>1, <3>3
    <2>3. CASE p # q /\ ~(p = request[r].quote /\ quote[p].status = "offered")
      BY <2>3 DEF IssueDeploymentQuote, TypeOK
    <2> QED BY <2>1, <2>2, <2>3
  <1>4. /\ request'[r] # NoRequest /\ request'[r].status = "quoted" /\ request'[r].quote = q
        /\ request'[r].endpoint = request[r].endpoint /\ request'[r].change = request[r].change
        /\ request'[r].units = request[r].units
        /\ \A s \in Requests : s # r => request'[s] = request[s]
        /\ request' \in [Requests -> RequestRows]
    <2> DEFINE new == [[request[r] EXCEPT !.status = "quoted"] EXCEPT !.quote = q]
    <2>1. request' = [request EXCEPT ![r] = new]
      BY DEF IssueDeploymentQuote, TypeOK
    <2>2. /\ new \in RequestRows /\ new # NoRequest
          /\ new.status = "quoted" /\ new.quote = q /\ new.endpoint = request[r].endpoint
          /\ new.change = request[r].change /\ new.units = request[r].units
      BY <1>1, RequestQuoted
    <2> HIDE DEF new
    <2> QED BY <2>1, <2>2 DEF TypeOK
  <1> HIDE DEF row
  <1>5. TypeOK'
    <2>1. quote' \in [Quotes -> QuoteRows]
      BY <1>3 DEF IssueDeploymentQuote
    <2>2. commercial' \in [Endpoints -> CommercialStates]
      BY DEF IssueDeploymentQuote, TypeOK, CommercialStates
    <2> QED BY <1>1, <1>4, <2>1, <2>2 DEF TypeOK
  <1>6. SubmittedFactsAgree'
    <2>1. \A p \in Quotes : quote'[p] # NoQuote => quote'[p].units = request'[quote'[p].request].units
      BY <1>1, <1>2, <1>3, <1>4, Rows DEF SubmittedFactsAgree
    <2>2. \A s \in Requests : request'[s] # NoRequest /\ ~request'[s].change =>
              request'[s].units = units[request'[s].endpoint]
      BY <1>1, <1>4, Rows DEF SubmittedFactsAgree
    <2> QED BY <1>1, <2>1, <2>2 DEF SubmittedFactsAgree
  <1>7. OneActiveChange'
    BY <1>1, <1>4 DEF OneActiveChange, ActiveStates
  <1>8. RequestsInv'
    <2>1. ASSUME NEW s \in Requests, s # r, request[s] # NoRequest, request[s].quote # None
          PROVE  /\ quote'[request[s].quote] # NoQuote /\ quote'[request[s].quote].request = s
                 /\ quote'[request[s].quote].status = "accepted" <=>
                        quote[request[s].quote].status = "accepted"
      BY <1>1, <1>3, <2>1, Rows DEF RequestsInv
    <2> QED BY <1>1, <1>2, <1>3, <1>4, <2>1, Rows DEF RequestsInv, Carried, Deploying, Stages
  <1>9. QuotesInv'
    BY <1>1, <1>2, <1>3, <1>4, Rows DEF QuotesInv, Carried, Deploying, Stages
  <1>10. OriginsInv'
    BY <1>1, <1>2, <1>3, <1>4, Rows DEF OriginsInv, Bills
  <1>11. RouteInv'
    BY <1>1 DEF RouteInv
  <1> QED BY <1>5, <1>6, <1>7, <1>8, <1>9, <1>10, <1>11

\* A change of status leaves the rest of a request and all others alone.
LEMMA StatusOnly ==
    ASSUME TypeOK, NEW r \in Requests, request[r] # NoRequest, NEW x \in RequestStates,
           request' = [request EXCEPT ![r].status = x]
    PROVE  /\ request' \in [Requests -> RequestRows]
           /\ \A s \in Requests :
                 /\ request'[s] = NoRequest <=> request[s] = NoRequest
                 /\ request'[s].quote = request[s].quote /\ request'[s].units = request[s].units
                 /\ request'[s].endpoint = request[s].endpoint
                 /\ request'[s].change = request[s].change
                 /\ request'[s].status = IF s = r THEN x ELSE request[s].status
  <1> DEFINE new == [request[r] EXCEPT !.status = x]
  <1>1. request' = [request EXCEPT ![r] = new]
    OBVIOUS
  <1>2. /\ new \in RequestRows /\ new # NoRequest /\ new.status = x
        /\ new.quote = request[r].quote /\ new.endpoint = request[r].endpoint
        /\ new.change = request[r].change /\ new.units = request[r].units
    BY RequestStatus
  <1> HIDE DEF new
  <1> QED BY <1>1, <1>2 DEF TypeOK

\* What the later steps of a request need to preserve the invariant: quotes and bills
\* as they were, a status the request may have, and its deployment.
LEMMA OperatorStep ==
    ASSUME EndpointInv, NEW r \in Requests, request[r] # NoRequest, NEW x \in RequestStates,
           request' = [request EXCEPT ![r].status = x],
           UNCHANGED <<units, commercial, quote, expired, bill, edits>>,
           config' \in [Endpoints -> ConfigStates],
           runtime' \in [Endpoints -> RuntimeStates],
           deployment' \in [Endpoints -> DeploymentRows],
           revision' \in [Endpoints -> RevisionRows],
           routed' \subseteq Endpoints, routeTarget' \in RouteTargets,
           \A e \in Endpoints : config'[e] = config[e] \/ config'[e] = "activated",
           \A e \in Endpoints :
               deployment[e] # NoDeployment => deployment'[e] # NoDeployment,
           \A e \in Endpoints : deployment'[e] # NoDeployment =>
               quote[deployment'[e].quote].status = "accepted",
           x \in Deploying \cup {"failed"},
           x = "failed" \/ /\ request[r].status \in Carried
                           /\ deployment'[request[r].endpoint] # NoDeployment
                           /\ OfferKind[request[r].endpoint] = "dedicated_quote",
           RouteInv'
    PROVE  EndpointInv'
  <1> USE WorkflowAssumption DEF EndpointInv
  <1>1. TypeOK'
    BY StatusOnly DEF TypeOK
  <1>2. \A s \in Requests :
                 /\ request'[s] = NoRequest <=> request[s] = NoRequest
                 /\ request'[s].quote = request[s].quote /\ request'[s].units = request[s].units
                 /\ request'[s].endpoint = request[s].endpoint
                 /\ request'[s].change = request[s].change
                 /\ request'[s].status = IF s = r THEN x ELSE request[s].status
    <2>1. TypeOK
      OBVIOUS
    <2> QED BY ONLY <2>1, StatusOnly, request[r] # NoRequest,
                    request' = [request EXCEPT ![r].status = x], Zenon
  <1>3. request[r].endpoint \in Endpoints /\ request[r].change \in BOOLEAN
    BY Rows
  <1>4. SubmittedFactsAgree'
    BY <1>2, Rows DEF SubmittedFactsAgree
  <1>5. x = "failed" \/ ~request[r].change
    BY DEF RequestsInv, Carried, Deploying, Stages
  <1>6. OneActiveChange'
    BY <1>2, <1>5 DEF OneActiveChange, ActiveStates, Stages
  <1>7. RequestsInv'
    BY <1>2, <1>3, <1>5, Rows DEF RequestsInv, Carried, Deploying, Stages
  <1>8. QuotesInv'
    BY <1>2, Rows DEF QuotesInv, Carried
  <1>9. OriginsInv'
    BY <1>2 DEF OriginsInv
  <1> QED BY <1>1, <1>4, <1>6, <1>7, <1>8, <1>9

\* Approval creates a deployment under the accepted quote of the request.
LEMMA ApproveStep ==
    ASSUME EndpointInv, NEW r \in Requests, Approve(r)
    PROVE  EndpointInv'
  <1> USE WorkflowAssumption DEF EndpointInv
  <1> DEFINE e == request[r].endpoint
             row == [state |-> "requested", quote |-> request[r].quote]
  <1>1. /\ request[r] # NoRequest /\ e \in Endpoints /\ ~request[r].change
        /\ request[r].status = "accepted" /\ request[r].quote \in Quotes
        /\ quote[request[r].quote].status = "accepted"
    BY Rows DEF Approve, RequestsInv, Carried
  <1>2. row \in DeploymentRows /\ row # NoDeployment /\ row.quote = request[r].quote
    BY <1>1 DEF DeploymentRows, NoDeployment
  <1>3. /\ deployment' = [deployment EXCEPT ![e] = row]
        /\ runtime' = [runtime EXCEPT ![e] = "awaiting_allocation"]
        /\ OfferKind[e] = "dedicated_quote"
        /\ request' = [request EXCEPT ![r].status = "approved"]
        /\ UNCHANGED <<config, units, commercial, routed, routeTarget, quote, expired, bill,
                       revision, edits>>
    BY <1>1 DEF Approve
  <1> HIDE DEF row
  <1>4. /\ deployment'[e] # NoDeployment /\ deployment' \in [Endpoints -> DeploymentRows]
        /\ \A f \in Endpoints : deployment[f] # NoDeployment => deployment'[f] # NoDeployment
        /\ \A f \in Endpoints : deployment'[f] # NoDeployment =>
               quote[deployment'[f].quote].status = "accepted"
        /\ runtime' \in [Endpoints -> RuntimeStates]
    BY <1>1, <1>2, <1>3 DEF TypeOK, OriginsInv, RuntimeStates
  <1>5. RouteInv'
    BY <1>3 DEF RouteInv
  <1> QED BY <1>1, <1>3, <1>4, <1>5, OperatorStep DEF TypeOK, Deploying, Carried, RequestStates

\* A new state of an existing deployment.
LEMMA DeploymentOnly ==
    ASSUME TypeOK, NEW e \in Endpoints, deployment[e] # NoDeployment,
           NEW x \in {"requested", "ready", "failed"} \cup Stages,
           deployment' = [deployment EXCEPT ![e].state = x]
    PROVE  /\ deployment' \in [Endpoints -> DeploymentRows]
           /\ deployment'[e].state = x
           /\ \A f \in Endpoints : /\ deployment'[f] = NoDeployment <=> deployment[f] = NoDeployment
                                   /\ deployment'[f].quote = deployment[f].quote
                                   /\ f # e => deployment'[f] = deployment[f]
  <1> DEFINE new == [deployment[e] EXCEPT !.state = x]
  <1>1. deployment' = [deployment EXCEPT ![e] = new]
    OBVIOUS
  <1>2. new \in DeploymentRows /\ new # NoDeployment /\ new.state = x /\ new.quote = deployment[e].quote
    BY DeploymentState
  <1> HIDE DEF new
  <1> QED BY <1>1, <1>2 DEF TypeOK

\* The stages of a deployment.
LEMMA AdvanceStep ==
    ASSUME EndpointInv, NEW r \in Requests, Advance(r)
    PROVE  EndpointInv'
  <1> USE WorkflowAssumption DEF EndpointInv
  <1> DEFINE e == request[r].endpoint
             s == StageAfter(request[r].status)
  <1>1. request[r].status \in {"approved", "allocating", "deploying"}
    BY DEF Advance
  <1>2. /\ request[r] # NoRequest /\ e \in Endpoints /\ deployment[e] # NoDeployment
        /\ OfferKind[e] = "dedicated_quote" /\ request[r].status \in Carried
    BY <1>1, Rows DEF RequestsInv, Deploying, Carried, Stages
  <1>3. s \in Stages
    BY <1>1 DEF StageAfter, Stages
  <1>4. /\ request' = [request EXCEPT ![r].status = s]
        /\ deployment' = [deployment EXCEPT ![e].state = s]
        /\ runtime' = [runtime EXCEPT ![e] = s]
        /\ UNCHANGED <<config, units, commercial, routed, routeTarget, quote, expired, bill,
                       revision, edits>>
    BY DEF Advance
  <1> HIDE DEF s, e
  <1>5. /\ deployment' \in [Endpoints -> DeploymentRows]
        /\ \A f \in Endpoints : /\ deployment'[f] = NoDeployment <=> deployment[f] = NoDeployment
                                /\ deployment'[f].quote = deployment[f].quote
    BY <1>2, <1>3, <1>4, DeploymentOnly
  <1>6. RouteInv' /\ runtime' \in [Endpoints -> RuntimeStates]
    BY <1>3, <1>4 DEF RouteInv, TypeOK, RuntimeStates
  <1>7. \A f \in Endpoints : deployment'[f] # NoDeployment =>
               quote[deployment'[f].quote].status = "accepted"
    BY <1>5 DEF OriginsInv
  <1>8. s \in RequestStates /\ s \in Deploying
    BY <1>3 DEF RequestStates, Deploying
  <1> QED BY <1>2, <1>4, <1>5, <1>6, <1>7, <1>8, OperatorStep DEF TypeOK, e

\* A validated deployment takes the route.
LEMMA ReadyStep ==
    ASSUME EndpointInv, NEW r \in Requests, Ready(r)
    PROVE  EndpointInv'
  <1> USE WorkflowAssumption DEF EndpointInv
  <1> DEFINE e == request[r].endpoint
             rev == [units |-> request[r].units, quote |-> deployment[e].quote]
  <1>1. request[r].status = "validating" /\ routed \subseteq {e}
    BY DEF Ready, completeDedicatedDeploymentOk
  <1>2. /\ request[r] # NoRequest /\ e \in Endpoints /\ deployment[e] # NoDeployment
        /\ OfferKind[e] = "dedicated_quote" /\ request[r].status \in Carried
        /\ request[r].units \in Units /\ deployment[e].quote \in Quotes
    BY <1>1, Rows DEF RequestsInv, Deploying, Carried, Stages
  <1>3. /\ request' = [request EXCEPT ![r].status = "ready"]
        /\ deployment' = [deployment EXCEPT ![e].state = "ready"]
        /\ runtime' = [runtime EXCEPT ![e] = "ready"]
        /\ config' = [config EXCEPT ![e] = "activated"]
        /\ revision' = [revision EXCEPT ![e] = rev]
        /\ routed' = routed \cup {e} /\ routeTarget' = "dedicated"
        /\ UNCHANGED <<units, commercial, quote, expired, bill, edits>>
    BY DEF Ready
  <1>4. rev \in RevisionRows
    BY <1>2 DEF RevisionRows
  <1> HIDE DEF rev, e
  <1>5. /\ deployment' \in [Endpoints -> DeploymentRows]
        /\ \A f \in Endpoints : /\ deployment'[f] = NoDeployment <=> deployment[f] = NoDeployment
                                /\ deployment'[f].quote = deployment[f].quote
    BY <1>2, <1>3, DeploymentOnly
  <1>6. RouteInv'
    BY <1>1, <1>2, <1>3 DEF RouteInv
  <1>7. \A f \in Endpoints : deployment'[f] # NoDeployment =>
               quote[deployment'[f].quote].status = "accepted"
    BY <1>3, <1>5 DEF OriginsInv
  <1>8. /\ "ready" \in RequestStates /\ "ready" \in Deploying
        /\ runtime' \in [Endpoints -> RuntimeStates] /\ config' \in [Endpoints -> ConfigStates]
        /\ revision' \in [Endpoints -> RevisionRows]
        /\ routed' \subseteq Endpoints /\ routeTarget' \in RouteTargets
        /\ \A f \in Endpoints : config'[f] = config[f] \/ config'[f] = "activated"
    BY <1>2, <1>3, <1>4 DEF RequestStates, Deploying, TypeOK, RuntimeStates, ConfigStates, RouteTargets
  <1> QED BY <1>2, <1>3, <1>5, <1>6, <1>7, <1>8, OperatorStep DEF e

\* A failure touches a deployment only if the request is a change of it.
LEMMA FailStep ==
    ASSUME EndpointInv, NEW r \in Requests, FailRequest(r)
    PROVE  EndpointInv'
  <1> USE WorkflowAssumption DEF EndpointInv
  <1> DEFINE e == request[r].endpoint
  <1>1. /\ request[r] # NoRequest /\ e \in Endpoints
        /\ request[r].change => deployment[e] # NoDeployment
    BY Rows DEF FailRequest, RequestsInv
  <1>2. /\ request' = [request EXCEPT ![r].status = "failed"]
        /\ runtime' = [runtime EXCEPT ![e] = "failed"]
        /\ UNCHANGED <<config, units, commercial, routed, routeTarget, quote, expired, bill,
                       revision, edits>>
    BY DEF FailRequest
  <1> HIDE DEF e
  <1>3. /\ deployment' \in [Endpoints -> DeploymentRows]
        /\ \A f \in Endpoints : /\ deployment'[f] = NoDeployment <=> deployment[f] = NoDeployment
                                /\ deployment'[f].quote = deployment[f].quote
    <2>1. CASE request[r].change
      <3>1. deployment' = [deployment EXCEPT ![e].state = "failed"]
        BY <2>1 DEF FailRequest, e
      <3> QED BY <1>1, <2>1, <3>1, DeploymentOnly
    <2>2. CASE ~request[r].change
      <3>1. deployment' = [deployment EXCEPT ![e].state = deployment[e].state]
        BY <2>2 DEF FailRequest, e
      <3>2. deployment[e] \in DeploymentRows
        BY <1>1 DEF TypeOK
      <3>3. [deployment[e] EXCEPT !.state = deployment[e].state] = deployment[e]
        BY <3>2 DEF DeploymentRows, NoDeployment
      <3>4. deployment' = deployment
        BY <3>1, <3>3 DEF TypeOK
      <3> QED BY <3>4 DEF TypeOK
    <2> QED BY <2>1, <2>2
  <1>4. RouteInv' /\ runtime' \in [Endpoints -> RuntimeStates]
    BY <1>2 DEF RouteInv, TypeOK, RuntimeStates
  <1>5. \A f \in Endpoints : deployment'[f] # NoDeployment =>
               quote[deployment'[f].quote].status = "accepted"
    BY <1>3 DEF OriginsInv
  <1> QED BY <1>1, <1>2, <1>3, <1>4, <1>5, OperatorStep DEF TypeOK, RequestStates, e

\* A bill leads to an endpoint.
LEMMA BillEndpoint ==
    ASSUME EndpointInv, NEW b \in Bills, bill[b] # "none"
    PROVE  EndpointOf(b) \in Endpoints
  BY Rows DEF EndpointInv, OriginsInv, QuotesInv, EndpointOf, Bills

\* Expiry and payments move neither requests nor quotes.
LEMMA PaymentStep ==
    ASSUME EndpointInv,
           \/ \E q \in Quotes : QuoteExpires(q)
           \/ \E b \in Bills : markPaymentPaid(b) \/ Refunded(b)
    PROVE  EndpointInv'
  <1> USE WorkflowAssumption DEF EndpointInv
  <1>1. ASSUME NEW q \in Quotes, QuoteExpires(q) PROVE EndpointInv'
    <2>1. TypeOK'
      BY <1>1 DEF QuoteExpires, TypeOK
    <2>2. SubmittedFactsAgree' /\ OneActiveChange' /\ RequestsInv' /\ OriginsInv' /\ RouteInv'
      BY <1>1 DEF QuoteExpires, SubmittedFactsAgree, OneActiveChange, RequestsInv, OriginsInv, RouteInv
    <2>3. QuotesInv'
      BY <1>1 DEF QuoteExpires, QuotesInv
    <2> QED BY <2>1, <2>2, <2>3
  <1>2. ASSUME NEW b \in Bills, markPaymentPaid(b) PROVE EndpointInv'
    <2> DEFINE e == EndpointOf(b)
    <2>1. bill[b] # "none" /\ bill' = [bill EXCEPT ![b] = "paid"]
          /\ UNCHANGED <<units, request, quote, expired, deployment, revision, edits>>
      BY <1>2 DEF markPaymentPaid
    <2>2. e \in Endpoints
      BY <2>1, BillEndpoint
    <2>3. TypeOK'
      BY <1>2, <2>2 DEF markPaymentPaid, TypeOK, BillStates, CommercialStates, RuntimeStates,
                        RouteTargets, ConfigStates
    <2>4. SubmittedFactsAgree' /\ OneActiveChange'
      BY <2>1 DEF SubmittedFactsAgree, OneActiveChange
    <2>5. \A f \in Endpoints : config'[f] \in {config[f], "activated"}
      BY <1>2, <2>2 DEF markPaymentPaid, TypeOK
    <2>6. RequestsInv'
      BY <2>1, <2>5, Rows DEF RequestsInv
    <2>7. QuotesInv' /\ OriginsInv'
      BY <2>1 DEF QuotesInv, OriginsInv, TypeOK, Bills
    <2>8. RouteInv'
      BY <1>2 DEF markPaymentPaid, activateSharedEndpointOk, RouteInv
    <2> QED BY <2>3, <2>4, <2>6, <2>7, <2>8
  <1>3. ASSUME NEW b \in Bills, Refunded(b) PROVE EndpointInv'
    <2>1. bill[b] # "none" /\ bill' = [bill EXCEPT ![b] = "refunded"]
          /\ UNCHANGED <<config, units, runtime, routed, routeTarget, request, quote, expired,
                         deployment, revision, edits>>
      BY <1>3 DEF Refunded
    <2>2. TypeOK'
      BY <1>3, <2>1, BillEndpoint DEF Refunded, TypeOK, BillStates, CommercialStates
    <2>3. SubmittedFactsAgree' /\ OneActiveChange' /\ RequestsInv' /\ RouteInv'
      BY <2>1 DEF SubmittedFactsAgree, OneActiveChange, RequestsInv, RouteInv
    <2>4. QuotesInv' /\ OriginsInv'
      BY <2>1 DEF QuotesInv, OriginsInv, TypeOK, Bills
    <2> QED BY <2>2, <2>3, <2>4
  <1> QED BY <1>1, <1>2, <1>3

\* Every step preserves the invariant.
LEMMA InvStep == EndpointInv /\ [Next]_vars => EndpointInv'
  <1> SUFFICES ASSUME EndpointInv, [Next]_vars PROVE EndpointInv'
    OBVIOUS
  <1>1. CASE Customer
    BY <1>1, ConfigurationStep, SubmitStep, CapacityStep, AcceptStep DEF Customer
  <1>2. CASE Operator
    BY <1>2, IssueStep, ApproveStep, AdvanceStep, ReadyStep, FailStep DEF Operator
  <1>3. CASE UNCHANGED vars
    <2> USE <1>3 DEF EndpointInv, vars
    <2>1. TypeOK'
      BY DEF TypeOK
    <2>2. SubmittedFactsAgree' /\ OneActiveChange' /\ RequestsInv' /\ QuotesInv' /\ OriginsInv'
          /\ RouteInv'
      BY DEF SubmittedFactsAgree, OneActiveChange, RequestsInv, QuotesInv, OriginsInv, RouteInv
    <2> QED BY <2>1, <2>2
  <1> QED BY <1>1, <1>2, <1>3, PaymentStep DEF Next

----------------------------------------------------------------------------
(* The theorems.                                                           *)

\* The records of the workflow fit together in every reachable state, whatever the
\* customer, the operator and billing do in between
\* (UpdateEndpointConfiguration, IssueDeploymentQuote, TransitionDeploymentRequest).
THEOREM Workflow == Spec => []EndpointInv
  BY InitInv, InvStep, PTL DEF Spec

\* A request past acceptance stands on its one accepted quote, which had not expired
\* (AcceptDeploymentQuote).
THEOREM AcceptedQuotes == Spec => []AcceptedQuoteValid
  <1>1. EndpointInv => AcceptedQuoteValid
    <2> SUFFICES ASSUME EndpointInv PROVE AcceptedQuoteValid
      OBVIOUS
    <2> USE DEF EndpointInv
    <2>1. ASSUME NEW r \in Requests, request[r].status \in Carried
          PROVE  quote[request[r].quote].status = "accepted"
      BY <2>1, Rows DEF RequestsInv, Carried, Deploying, Stages
    <2>2. ASSUME NEW q \in Quotes, quote[q].status = "accepted"
          PROVE  request[quote[q].request].quote = q /\ q \notin expired
      BY <2>2, Rows DEF QuotesInv
    <2> QED BY <2>1, <2>2 DEF AcceptedQuoteValid, Carried, Deploying
  <1> QED BY <1>1, Workflow, PTL

\* The route of a model serves at most one endpoint, from the capacity of its offer
\* (activateSharedEndpoint, completeDedicatedDeployment).
THEOREM ExclusiveRoute == Spec => []RouteExclusive
  <1>1. EndpointInv => RouteExclusive
    <2> SUFFICES ASSUME EndpointInv PROVE RouteExclusive
      OBVIOUS
    <2>1. Cardinality(routed) <= 1
      <3>1. CASE routed = {}
        BY <3>1, FS_EmptySet
      <3>2. CASE routed # {}
        <4>1. PICK e \in routed : routed = {e}
          BY <3>2 DEF EndpointInv, RouteInv
        <4> QED BY <4>1, FS_Singleton
      <3> QED BY <3>1, <3>2
    <2> QED BY <2>1 DEF EndpointInv, RouteInv, RouteExclusive
  <1> QED BY <1>1, Workflow, PTL

\* What a ready endpoint rests on stays while nothing of it is changed.
LEMMA ReadyKept ==
    ASSUME EndpointInv, ReadyHasEvidence, NEW e \in Endpoints, runtime[e] = "ready",
           deployment'[e] = deployment[e], revision'[e] = revision[e],
           routed' = routed, routeTarget' = routeTarget,
           \A q \in Quotes : quote[q].status = "accepted" =>
               quote'[q].status = "accepted" /\ quote'[q].units = quote[q].units
    PROVE  /\ deployment'[e].state = "ready"
           /\ revision'[e] # NoRevision /\ revision'[e].quote = deployment'[e].quote
           /\ quote'[revision'[e].quote].status = "accepted"
           /\ revision'[e].units = quote'[revision'[e].quote].units
           /\ routed' = {e} /\ routeTarget' = "dedicated"
  <1>1. revision[e] \in RevisionRows
    BY DEF EndpointInv, TypeOK
  <1>2. revision[e].quote \in Quotes
    BY <1>1 DEF ReadyHasEvidence, RevisionRows
  <1> QED BY <1>2 DEF ReadyHasEvidence

\* A step leaves no endpoint ready without its evidence.
LEMMA ReadyInvStep == EndpointInv /\ ReadyHasEvidence /\ [Next]_vars => ReadyHasEvidence'
  <1> SUFFICES ASSUME EndpointInv, ReadyHasEvidence, [Next]_vars,
                      NEW f \in Endpoints, runtime'[f] = "ready"
               PROVE  /\ deployment'[f].state = "ready"
                      /\ revision'[f] # NoRevision /\ revision'[f].quote = deployment'[f].quote
                      /\ quote'[revision'[f].quote].status = "accepted"
                      /\ revision'[f].units = quote'[revision'[f].quote].units
                      /\ routed' = {f} /\ routeTarget' = "dedicated"
    BY DEF ReadyHasEvidence
  <1> DEFINE Goal == /\ deployment'[f].state = "ready"
                     /\ revision'[f] # NoRevision /\ revision'[f].quote = deployment'[f].quote
                     /\ quote'[revision'[f].quote].status = "accepted"
                     /\ revision'[f].units = quote'[revision'[f].quote].units
                     /\ routed' = {f} /\ routeTarget' = "dedicated"
             Kept == \A q \in Quotes : quote[q].status = "accepted" =>
                         quote'[q].status = "accepted" /\ quote'[q].units = quote[q].units
  <1>0. runtime \in [Endpoints -> RuntimeStates]
    BY DEF EndpointInv, TypeOK
  <1>1. CASE /\ runtime' = runtime
             /\ UNCHANGED <<routed, routeTarget, quote, deployment, revision>>
    BY <1>1, ReadyKept
  <1>2. ASSUME NEW e \in Endpoints, NEW r \in Requests, SubmitEndpointConfiguration(e, r)
        PROVE  Goal
    <2>1. f # e /\ runtime[f] = "ready"
      BY <1>0, <1>2, WorkflowAssumption DEF SubmitEndpointConfiguration, OfferKinds
    <2>2. routeTarget = "dedicated"
      BY <2>1 DEF ReadyHasEvidence
    <2>3. UNCHANGED <<routed, routeTarget, quote, deployment, revision>>
      BY <1>2, <2>2 DEF SubmitEndpointConfiguration, activateSharedEndpointOk
    <2> QED BY <2>1, <2>3, ReadyKept
  <1>3. ASSUME NEW q \in Quotes, AcceptDeploymentQuote(q) PROVE Goal
    <2>1. /\ quote[q].status = "offered" /\ quote' = [quote EXCEPT ![q].status = "accepted"]
          /\ runtime' \in {[runtime EXCEPT ![request[quote[q].request].endpoint] = x] :
                               x \in {"awaiting_allocation", "awaiting_payment"}}
          /\ UNCHANGED <<routed, routeTarget, deployment, revision>>
      BY <1>3 DEF AcceptDeploymentQuote, AcceptOk
    <2>2. runtime[f] = "ready"
      BY <1>0, <2>1
    <2>3. Kept
      BY <2>1 DEF EndpointInv, TypeOK
    <2> QED BY <2>1, <2>2, <2>3, ReadyKept
  <1>4. ASSUME NEW r \in Requests, NEW q \in Quotes, NEW mode \in CollectionModes,
               IssueDeploymentQuote(r, q, mode)
        PROVE  Goal
    <2>1. Kept
      BY <1>4, Rows DEF IssueDeploymentQuote, EndpointInv
    <2> QED BY <1>4, <2>1, ReadyKept DEF IssueDeploymentQuote
  <1>5. ASSUME NEW r \in Requests, Approve(r) \/ Advance(r) \/ FailRequest(r)
        PROVE  Goal
    <2> DEFINE e == request[r].endpoint
    <2>1. e \in Endpoints
      BY <1>5, Rows DEF EndpointInv, Approve, Advance, FailRequest
    <2>2. request[r].status = "accepted" => ~request[r].change
      BY Rows DEF EndpointInv, RequestsInv
    <2>3. f # e
      <3>1. StageAfter(request[r].status) # "ready" \/ ~Advance(r)
        BY DEF Advance, StageAfter
      <3>2. runtime'[e] # "ready"
        BY <1>0, <1>5, <2>1, <2>2, <3>1 DEF Approve, Advance, FailRequest
      <3> QED BY <3>2
    <2>4. /\ runtime'[f] = runtime[f] /\ deployment'[f] = deployment[f]
          /\ UNCHANGED <<routed, routeTarget, quote, revision>>
      BY <1>0, <1>5, <2>1, <2>2, <2>3 DEF Approve, Advance, FailRequest, EndpointInv, TypeOK
    <2> QED BY <2>4, ReadyKept
  <1>6. ASSUME NEW r \in Requests, Ready(r) PROVE Goal
    <2> DEFINE e == request[r].endpoint
    <2>1. /\ e \in Endpoints /\ deployment[e] # NoDeployment
          /\ routed \subseteq {e} /\ quote[deployment[e].quote].units = request[r].units
          /\ routed' = routed \cup {e} /\ routeTarget' = "dedicated"
          /\ runtime' = [runtime EXCEPT ![e] = "ready"] /\ quote' = quote
          /\ deployment' = [deployment EXCEPT ![e].state = "ready"]
          /\ revision' = [revision EXCEPT ![e] =
                 [units |-> request[r].units, quote |-> deployment[e].quote]]
      BY <1>6, Rows
      DEF Ready, completeDedicatedDeploymentOk, EndpointInv, RequestsInv, Deploying, Stages
    <2>2. f = e
      <3> SUFFICES ASSUME f # e PROVE FALSE
        OBVIOUS
      <3>1. runtime[f] = "ready" /\ routed = {f}
        BY <1>0, <2>1 DEF ReadyHasEvidence
      <3> QED BY <2>1, <3>1
    <2>3. /\ deployment'[e].state = "ready" /\ deployment'[e].quote = deployment[e].quote
          /\ deployment[e].quote \in Quotes
          /\ quote[deployment[e].quote].status = "accepted"
      <3>1. TypeOK /\ deployment[e].quote \in Quotes
            /\ quote[deployment[e].quote].status = "accepted"
        BY <2>1, Rows DEF EndpointInv, OriginsInv
      <3> HIDE DEF e
      <3>2. deployment'[e].state = "ready" /\ deployment'[e].quote = deployment[e].quote
        BY <2>1, <3>1, DeploymentOnly
      <3> QED BY <3>1, <3>2
    <2>4. /\ revision'[e].units = request[r].units /\ revision'[e].quote = deployment[e].quote
          /\ revision'[e] # NoRevision
      <3>1. deployment[e].quote # None
        BY <2>3, WorkflowAssumption
      <3> QED BY <2>1, <3>1 DEF EndpointInv, TypeOK, NoRevision
    <2> HIDE DEF e
    <2> QED BY <2>1, <2>2, <2>3, <2>4
  <1>7. ASSUME NEW b \in Bills, markPaymentPaid(b) PROVE Goal
    <2>1. runtime[f] = "ready"
      BY <1>0, <1>7 DEF markPaymentPaid
    <2>2. routeTarget = "dedicated"
      BY <2>1 DEF ReadyHasEvidence
    <2>3. UNCHANGED <<routed, routeTarget, quote, deployment, revision>>
      BY <1>7, <2>2 DEF markPaymentPaid, activateSharedEndpointOk
    <2> QED BY <2>1, <2>3, ReadyKept
  <1> QED
    BY <1>1, <1>2, <1>3, <1>4, <1>5, <1>6, <1>7
    DEF Next, Customer, Operator, vars, CreateEndpointConfiguration, StartUpdate,
        UpdateEndpointConfiguration,
        CreateCapacityRequest, QuoteExpires, Refunded

\* A dedicated endpoint says ready only with a validated deployment, an active
\* revision under an accepted quote for those units, and the route to itself
\* (completeDedicatedDeployment).
THEOREM Evidence == Spec => []ReadyHasEvidence
  <1>1. Init => ReadyHasEvidence
    BY DEF Init, ReadyHasEvidence
  <1> QED BY <1>1, Workflow, ReadyInvStep, PTL DEF Spec

\* A deployment comes into being only under an accepted quote that asks for no
\* payment or is paid at that moment (TransitionDeploymentRequest to approved).
THEOREM PaidFirst == Spec => PaidBeforeDeployment
  <1>1. EndpointInv /\ [Next]_vars => [AllDeployedWhenPaid]_vars
    <2> SUFFICES ASSUME EndpointInv, Next, NEW e \in Endpoints,
                        deployment[e] = NoDeployment, deployment'[e] # NoDeployment
                 PROVE  /\ quote[deployment'[e].quote].status = "accepted"
                        /\ quote[deployment'[e].quote].mode = "not_required"
                             \/ bill[deployment'[e].quote] = "paid"
      BY DEF AllDeployedWhenPaid, DeployedWhenPaid
    <2>1. PICK r \in Requests : Approve(r) \/ Advance(r) \/ Ready(r) \/ FailRequest(r)
      BY DEF Next, Customer, Operator, CreateEndpointConfiguration, StartUpdate,
             UpdateEndpointConfiguration,
             SubmitEndpointConfiguration, CreateCapacityRequest, AcceptDeploymentQuote,
             IssueDeploymentQuote, QuoteExpires, markPaymentPaid, Refunded
    <2>2. request[r] # NoRequest /\ request[r].endpoint \in Endpoints
      BY <2>1, Rows DEF EndpointInv, Approve, Advance, Ready, FailRequest
    <2>3. ~Advance(r) /\ ~Ready(r)
      <3>1. Advance(r) \/ Ready(r) =>
               /\ deployment[request[r].endpoint] # NoDeployment
               /\ \E x : deployment' = [deployment EXCEPT ![request[r].endpoint].state = x]
        BY <2>2 DEF EndpointInv, RequestsInv, Deploying, Stages, Advance, Ready
      <3> QED BY <2>2, <3>1 DEF EndpointInv, TypeOK
    <2>4. ~FailRequest(r)
      <3> SUFFICES ASSUME FailRequest(r) PROVE FALSE
        OBVIOUS
      <3>1. e = request[r].endpoint /\ ~request[r].change
        BY <2>2 DEF EndpointInv, TypeOK, RequestsInv, FailRequest
      <3>2. deployment'[e] = [NoDeployment EXCEPT !.state = NoDeployment.state]
        BY <3>1 DEF FailRequest, EndpointInv, TypeOK
      <3> QED BY <3>2 DEF NoDeployment
    <2>5. Approve(r)
      BY <2>1, <2>3, <2>4
    <2>6. /\ request[r].quote \in Quotes /\ quote[request[r].quote].status = "accepted"
          /\ quote[request[r].quote].request = r
      BY <2>2, <2>5, Rows DEF Approve, EndpointInv, RequestsInv, Carried
    <2>7. deployment'[e].quote = request[r].quote
      BY <2>2, <2>5 DEF Approve, EndpointInv, TypeOK
    <2>8. bill[request[r].quote] \in {"none", "paid"}
      BY <2>5, <2>6 DEF Approve, Settled, BillsOf
    <2>9. quote[request[r].quote].mode # "not_required" => bill[request[r].quote] # "none"
      BY <2>6, Rows DEF EndpointInv, QuotesInv
    <2> QED BY <2>6, <2>7, <2>8, <2>9
  <1> QED BY <1>1, Workflow, PTL DEF Spec, PaidBeforeDeployment
=============================================================================
