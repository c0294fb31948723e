--------------------------- MODULE GatewayProofs ---------------------------
(***************************************************************************)
(* Machine-checked proofs about the gateway, for any number of requests,   *)
(* routes, targets and faults: what its rows and handlers keep, what a     *)
(* caller gets, and that it implements the metered request.                *)
(***************************************************************************)
EXTENDS GatewayProperties, TLAPS, FiniteSetTheorems

\* The classes and results the handler can hold are of their types.
LEMMA ResultTypes ==
    /\ LedgerError \in Result
    /\ Cancelled \in Result
    /\ \A u \in UsageShapes : Success(u) \in Result
    /\ \A c \in UpstreamClasses, b \in BOOLEAN : UpstreamFailure(c, b) \in Result
    /\ \A r : Unprepared(r) \subseteq Result
    /\ \A c \in ErrorClasses : Outcome("blocked", c, "none") \in Result
    /\ Outcome("failed", "invalid_upstream_response", "none") \in Result
  <1>1. \A s \in Terminal, c \in ErrorClasses, m \in {"none", "operational", "degraded"} :
          Outcome(s, c, m) \in Result
    BY DEF Outcome, Result, UsageShapes
  <1>2. /\ {"failed", "blocked", "cancelled", "succeeded"} \subseteq Terminal
        /\ {"none", "ledger_error", "client_cancelled", "target_configuration",
            "target_unavailable", "internal_error", "streaming_unavailable",
            "invalid_upstream_response"} \subseteq ErrorClasses
        /\ UpstreamClasses \subseteq ErrorClasses
    BY DEF Terminal, ErrorClasses, RouteClasses, UpstreamClasses, StatusClasses,
           ResponseClasses
  <1>3. LedgerError \in Result /\ Cancelled \in Result
    BY <1>1, <1>2 DEF LedgerError, Cancelled
  <1>4. \A u \in UsageShapes : Success(u) \in Result
    BY <1>2 DEF Success, Result
  <1>5. ASSUME NEW c \in UpstreamClasses, NEW b \in BOOLEAN
        PROVE  UpstreamFailure(c, b) \in Result
    BY <1>2 DEF UpstreamFailure, failureHealthStatus, Result, UsageShapes
  <1>6. ASSUME NEW r PROVE Unprepared(r) \subseteq Result
    <2>1. /\ Outcome("failed", "target_configuration", "degraded") \in Result
          /\ Outcome("failed", "target_unavailable", "degraded") \in Result
          /\ Outcome("failed", "internal_error", "none") \in Result
          /\ Outcome("failed", "streaming_unavailable", "none") \in Result
      BY <1>1, <1>2
    <2>2. QED BY <2>1 DEF Unprepared
  <1>7. \A c \in ErrorClasses : Outcome("blocked", c, "none") \in Result
    BY <1>1, <1>2
  <1>8. Outcome("failed", "invalid_upstream_response", "none") \in Result
    BY <1>1, <1>2
  <1> QED BY <1>3, <1>4, <1>5, <1>6, <1>7, <1>8

\* The initial state is well typed.
LEMMA TypeInit == Init => TypeOK
  BY LedgerAssumption, ResultTypes
  DEF Init, LedgerInit, TypeOK, RegistryTypeOK, RequestTypeOK, HandlerTypeOK,
      HealthStatuses, RowStatuses, AttemptStatuses, Terminal, ErrorClasses,
      UsageShapes, Places, ContextStates, AttemptNumbers

\* Steps that leave a group of variables alone leave its types alone.
LEMMA RegistryUnchanged == RegistryTypeOK /\ UNCHANGED registryVars => RegistryTypeOK'
  BY DEF RegistryTypeOK, registryVars

\* The same for the rows of requests.
LEMMA RequestUnchanged == RequestTypeOK /\ UNCHANGED requestVars => RequestTypeOK'
  BY DEF RequestTypeOK, requestVars

\* And for both.
LEMMA LedgerUnchanged ==
    RegistryTypeOK /\ RequestTypeOK /\ UNCHANGED ledgerVars => RegistryTypeOK' /\ RequestTypeOK'
  BY RegistryUnchanged, RequestUnchanged DEF ledgerVars

\* How a database call comes out leaves contexts and the fault count typed.
LEMMA OutcomeTypes ==
    ASSUME HandlerTypeOK, NEW r \in Requests, NEW a, NEW o
    PROVE  /\ DetachedOutcome(a, o) => faults' \in Nat
           /\ ContextOutcome(r, a, o) =>
                  faults' \in Nat /\ ctx' \in [Requests -> ContextStates]
  BY DEF HandlerTypeOK, DetachedOutcome, ContextOutcome, ContextStates

\* The handler's places and answers.
LEMMA PlaceTypes ==
    ASSUME HandlerTypeOK, NEW r \in Requests
    PROVE  /\ \A p \in Places : [pc EXCEPT ![r] = p] \in [Requests -> Places]
           /\ {"create", "resolve", "attach", "attempt", "done", "dead", "idle", "upstream",
               "close", "backoff", "finish", "health", "respond"} \subseteq Places
           /\ \A res \in Result : [result EXCEPT ![r] = res] \in [Requests -> Result]
           /\ WriteError(r) => reply' \in [Requests -> {"none", "body", "error"}]
  BY DEF HandlerTypeOK, WriteError, Places, ContextCalls, Over

\* Every step keeps the types, given the invariant.
LEMMA TypeStep == CoreInv /\ [Next]_vars => TypeOK'
  <1> SUFFICES ASSUME CoreInv, [Next]_vars PROVE TypeOK'
    OBVIOUS
  <1>0. TypeOK /\ \A r \in Requests : HandlerInv(r) /\ RouteInv(r)
    BY DEF CoreInv
  <1> USE LedgerAssumption, GatewayAssumption, <1>0
  <1> USE DEF TypeOK
  <1>1. ASSUME NEW r \in Requests, Receive(r) PROVE TypeOK'
    <2>1. RegistryTypeOK' /\ RequestTypeOK'
      BY <1>1, LedgerUnchanged DEF Receive
    <2>2. HandlerTypeOK'
      BY <1>1, PlaceTypes DEF Receive, HandlerTypeOK
    <2> QED BY <2>1, <2>2
  <1>2. ASSUME NEW r \in Requests, Create(r) PROVE TypeOK'
    <2>1. RegistryTypeOK'
      BY <1>2, RegistryUnchanged DEF Create
    <2>2. RequestTypeOK'
      <3>1. CASE UNCHANGED requestVars
        BY <3>1, RequestUnchanged
      <3>2. CASE CreateInferenceRequest(r)
        BY <3>2 DEF CreateInferenceRequest, RequestTypeOK, RowStatuses
      <3> QED BY <1>2, <3>1, <3>2 DEF Create
    <2>3. HandlerTypeOK'
      <3>1. faults' \in Nat /\ ctx' \in [Requests -> ContextStates]
        BY <1>2, OutcomeTypes DEF Create
      <3>2. result' \in [Requests -> Result]
        <4>1. {"insufficient_scope", "route_forbidden"} \subseteq ErrorClasses
          BY DEF ErrorClasses, RouteClasses
        <4> QED BY <1>2, <4>1, PlaceTypes, ResultTypes DEF Create, Finish, HandlerTypeOK
      <3>3. pc' \in [Requests -> Places] /\ reply' \in [Requests -> {"none", "body", "error"}]
        BY <1>2, PlaceTypes DEF Create, Finish, HandlerTypeOK
      <3> QED BY <1>2, <3>1, <3>2, <3>3 DEF Create, HandlerTypeOK
    <2> QED BY <2>1, <2>2, <2>3
  <1>3. ASSUME NEW r \in Requests, Resolve(r) PROVE TypeOK'
    <2>1. RegistryTypeOK' /\ RequestTypeOK'
      BY <1>3, LedgerUnchanged DEF Resolve
    <2>2. HandlerTypeOK'
      <3>1. faults' \in Nat /\ ctx' \in [Requests -> ContextStates]
        BY <1>3, OutcomeTypes DEF Resolve
      <3>2. ResolveRouteError(r) = "none" => RouteOf[r] \in Routes
        BY DEF ResolveRouteError
      <3>3. target' \in [Requests -> Targets \cup {NoTarget}]
        BY <1>3, <3>2 DEF Resolve, HandlerTypeOK, RegistryTypeOK
      <3>4. result' \in [Requests -> Result]
        <4>1. {"route_unavailable", ResolveRouteError(r)} \subseteq ErrorClasses
          BY DEF ResolveRouteError, ErrorClasses, RouteClasses
        <4> QED BY <1>3, <4>1, PlaceTypes, ResultTypes DEF Resolve, Finish, HandlerTypeOK
      <3>5. pc' \in [Requests -> Places]
        BY <1>3, PlaceTypes DEF Resolve, Finish
      <3> QED BY <1>3, <3>1, <3>3, <3>4, <3>5 DEF Resolve, HandlerTypeOK
    <2> QED BY <2>1, <2>2
  <1>4. ASSUME NEW r \in Requests, Attach(r) PROVE TypeOK'
    <2>1. RegistryTypeOK'
      BY <1>4, RegistryUnchanged DEF Attach
    <2>2. HandlerTypeOK'
      <3>1. faults' \in Nat /\ ctx' \in [Requests -> ContextStates]
        BY <1>4, OutcomeTypes DEF Attach
      <3>2. result' \in [Requests -> Result] /\ pc' \in [Requests -> Places]
        BY <1>4, PlaceTypes, ResultTypes DEF Attach, Finish, HandlerTypeOK
      <3> QED BY <1>4, <3>1, <3>2 DEF Attach, HandlerTypeOK
    <2>3. RequestTypeOK'
      <3>1. CASE UNCHANGED requestVars
        BY <3>1, RequestUnchanged
      <3>2. CASE SetInferenceRequestRoute(r)
        <4>1. RouteOf[r] \in Routes
          BY <1>4 DEF Attach, RouteInv, Routed
        <4> QED BY <3>2, <4>1 DEF SetInferenceRequestRoute, RequestTypeOK, RegistryTypeOK
      <3> QED BY <1>4, <3>1, <3>2 DEF Attach
    <2> QED BY <2>1, <2>2, <2>3
  <1>5. ASSUME NEW r \in Requests, StartAttempt(r) PROVE TypeOK'
    <2>1. RegistryTypeOK'
      BY <1>5, RegistryUnchanged DEF StartAttempt
    <2>2. RequestTypeOK'
      <3>1. CASE UNCHANGED requestVars
        BY <3>1, RequestUnchanged
      <3>2. CASE CreateProviderAttempt(r, target[r], number[r])
        <4>1. target[r] \in Targets \cup {NoTarget} /\ number[r] \in AttemptNumbers
          BY DEF HandlerTypeOK
        <4> QED BY <3>2, <4>1
          DEF CreateProviderAttempt, RequestTypeOK, AttemptStatuses, RowStatuses, Terminal
      <3> QED BY <1>5, <3>1, <3>2 DEF StartAttempt
    <2>3. HandlerTypeOK'
      <3>1. faults' \in Nat /\ ctx' \in [Requests -> ContextStates]
        BY <1>5, OutcomeTypes DEF StartAttempt
      <3>2. result' \in [Requests -> Result] /\ pc' \in [Requests -> Places]
        BY <1>5, PlaceTypes, ResultTypes DEF StartAttempt, Finish, HandlerTypeOK
      <3> QED BY <1>5, <3>1, <3>2 DEF StartAttempt, HandlerTypeOK
    <2> QED BY <2>1, <2>2, <2>3
  <1>6. ASSUME NEW r \in Requests,
               UpstreamBuffered(r) \/ StreamFrame(r) \/ StreamWriteError(r)
                 \/ StreamDone(r) \/ StreamFailure(r)
        PROVE TypeOK'
    <2>1. RegistryTypeOK' /\ RequestTypeOK'
      BY <1>6, LedgerUnchanged
      DEF UpstreamBuffered, StreamFrame, StreamWriteError, StreamDone, StreamFailure
    <2>2. \A res \in Result :
            Close(r, res) => result' \in [Requests -> Result] /\ pc' \in [Requests -> Places]
      BY PlaceTypes DEF Close
    <2>3. result' \in [Requests -> Result] /\ pc' \in [Requests -> Places]
      BY <1>6, <2>2, ResultTypes
      DEF UpstreamBuffered, StreamFrame, StreamWriteError, StreamDone, StreamFailure,
          Committed, HandlerTypeOK
    <2>4. stream' \in [Requests -> {"none", "partial", "done"}]
      BY <1>6
      DEF UpstreamBuffered, StreamFrame, StreamWriteError, StreamDone, StreamFailure,
          HandlerTypeOK
    <2>5. HandlerTypeOK'
      BY <1>6, <2>3, <2>4
      DEF UpstreamBuffered, StreamFrame, StreamWriteError, StreamDone, StreamFailure,
          HandlerTypeOK
    <2> QED BY <2>1, <2>5
  <1>7. ASSUME NEW r \in Requests, CloseAttempt(r) PROVE TypeOK'
    <2>1. RegistryTypeOK'
      BY <1>7, RegistryUnchanged DEF CloseAttempt
    <2>2. RequestTypeOK'
      <3>1. CASE UNCHANGED requestVars
        BY <3>1, RequestUnchanged
      <3>2. CASE CompleteProviderAttempt(r, number[r], result[r].status, result[r].class)
        <4>1. number[r] \in AttemptNumbers
          BY DEF HandlerTypeOK
        <4>2. result[r].class \in ErrorClasses /\ result[r].status \in Terminal
          BY DEF HandlerTypeOK, Result
        <4>3. result[r].status \in AttemptStatuses
          BY <1>7, <4>2 DEF CloseAttempt, HandlerInv, AttemptStatuses, RowStatuses
        <4> QED BY <3>2, <4>1, <4>2, <4>3 DEF CompleteProviderAttempt, RequestTypeOK
      <3> QED BY <1>7, <3>1, <3>2 DEF CloseAttempt
    <2>3. HandlerTypeOK'
      <3>1. faults' \in Nat
        BY <1>7, OutcomeTypes DEF CloseAttempt
      <3>2. \A res \in Result :
              AfterAttempt(r, res) => result' \in [Requests -> Result] /\ pc' \in [Requests -> Places]
        BY PlaceTypes, ResultTypes DEF AfterAttempt, Finish
      <3>3. result[r] \in Result
        BY DEF HandlerTypeOK
      <3> QED BY <1>7, <3>1, <3>2, <3>3, ResultTypes DEF CloseAttempt, HandlerTypeOK
    <2> QED BY <2>1, <2>2, <2>3
  <1>8. ASSUME NEW r \in Requests, Backoff(r) PROVE TypeOK'
    <2>1. RegistryTypeOK' /\ RequestTypeOK'
      BY <1>8, LedgerUnchanged DEF Backoff
    <2>2. number[r] + 1 \in AttemptNumbers
      <3>1. target[r] \in Targets /\ number[r] < MaxAttempts[target[r]]
        BY <1>8 DEF Backoff, HandlerInv, Calling
      <3> QED BY <3>1 DEF HandlerTypeOK, AttemptNumbers
    <2>3. number' \in [Requests -> AttemptNumbers]
      BY <1>8, <2>2 DEF Backoff, HandlerTypeOK
    <2>4. result' \in [Requests -> Result] /\ pc' \in [Requests -> Places]
      BY <1>8, PlaceTypes, ResultTypes DEF Backoff, Finish, HandlerTypeOK
    <2> QED BY <1>8, <2>1, <2>3, <2>4 DEF Backoff, HandlerTypeOK
  <1>9. ASSUME NEW r \in Requests, FinishRequest(r) PROVE TypeOK'
    <2>1. RegistryTypeOK'
      BY <1>9, RegistryUnchanged DEF FinishRequest
    <2>2. RequestTypeOK'
      <3>1. CASE UNCHANGED requestVars
        BY <3>1, RequestUnchanged
      <3>2. CASE CompleteInferenceRequest(r, result[r].status, result[r].class, result[r].usage)
        <4>1. result[r].status \in RowStatuses /\ result[r].class \in ErrorClasses
              /\ result[r].usage \in UsageShapes
          BY DEF HandlerTypeOK, Result, RowStatuses
        <4> QED BY <3>2, <4>1 DEF CompleteInferenceRequest, RequestTypeOK
      <3> QED BY <1>9, <3>1, <3>2 DEF FinishRequest
    <2>3. HandlerTypeOK'
      <3>1. faults' \in Nat
        BY <1>9, OutcomeTypes DEF FinishRequest
      <3>2. pc' \in [Requests -> Places] /\ reply' \in [Requests -> {"none", "body", "error"}]
        BY <1>9, PlaceTypes DEF FinishRequest, HandlerTypeOK
      <3> QED BY <1>9, <3>1, <3>2 DEF FinishRequest, HandlerTypeOK
    <2> QED BY <2>1, <2>2, <2>3
  <1>10. ASSUME NEW r \in Requests, MarkHealth(r) PROVE TypeOK'
    <2>1. result[r].health \in HealthStatuses
      BY <1>10 DEF MarkHealth, HandlerInv, HandlerTypeOK, Result, HealthStatuses
    <2>2. RegistryTypeOK'
      BY <1>10, <2>1 DEF MarkHealth, UpdateTargetHealth, RegistryTypeOK
    <2>3. RequestTypeOK'
      BY <1>10, RequestUnchanged DEF MarkHealth
    <2>4. faults' \in Nat /\ pc' \in [Requests -> Places]
      BY <1>10, OutcomeTypes, PlaceTypes DEF MarkHealth
    <2> QED BY <1>10, <2>2, <2>3, <2>4 DEF MarkHealth, HandlerTypeOK
  <1>11. ASSUME NEW r \in Requests, Respond(r) PROVE TypeOK'
    <2>1. RegistryTypeOK' /\ RequestTypeOK'
      BY <1>11, LedgerUnchanged DEF Respond
    <2>2. pc' \in [Requests -> Places] /\ reply' \in [Requests -> {"none", "body", "error"}]
      BY <1>11, PlaceTypes DEF Respond, HandlerTypeOK
    <2> QED BY <1>11, <2>1, <2>2 DEF Respond, HandlerTypeOK
  <1>12. ASSUME NEW r \in Requests, ClientCancel(r) PROVE TypeOK'
    <2>1. RegistryTypeOK' /\ RequestTypeOK'
      BY <1>12, LedgerUnchanged DEF ClientCancel
    <2> QED BY <1>12, <2>1 DEF ClientCancel, HandlerTypeOK, ContextStates
  <1>13. ASSUME Crash PROVE TypeOK'
    <2>1. RegistryTypeOK' /\ RequestTypeOK'
      BY <1>13, LedgerUnchanged DEF Crash
    <2>2. pc' \in [Requests -> Places]
      BY <1>13 DEF Crash, HandlerTypeOK, Places, Over
    <2> QED BY <1>13, <2>1, <2>2 DEF Crash, HandlerTypeOK
  <1>14. ASSUME Registry PROVE TypeOK'
    <2>1. HandlerTypeOK'
      BY <1>14 DEF Registry, HandlerTypeOK, handlerVars
    <2>2. RequestTypeOK'
      BY <1>14, RequestUnchanged
      DEF Registry, ProvisionRetarget, ProvisionCommit, ProvisionRollback, ProvisionSame,
          OperatorToggle, RecordProbeObservation
    <2>3. RegistryTypeOK'
      BY <1>14
      DEF Registry, ProvisionRetarget, ProvisionCommit, ProvisionRollback, ProvisionSame,
          OperatorToggle, RecordProbeObservation, UpdateTargetHealth, RegistryTypeOK
    <2> QED BY <2>1, <2>2, <2>3
  <1>15. CASE UNCHANGED vars
    BY <1>15, LedgerUnchanged DEF vars, HandlerTypeOK, handlerVars
  <1> QED
    BY <1>1, <1>2, <1>3, <1>4, <1>5, <1>6, <1>7, <1>8, <1>9, <1>10, <1>11, <1>12,
       <1>13, <1>14, <1>15 DEF Next, Handler

----------------------------------------------------------------------------
(* A step of one handler does not touch the rows and the state of another  *)
(* request, and what is true of an untouched request stays true as long as *)
(* its route does not move.                                                *)

Untouched(r) ==
    /\ status'[r] = status[r] /\ boundTarget'[r] = boundTarget[r]
    /\ boundGen'[r] = boundGen[r] /\ attemptCount'[r] = attemptCount[r]
    /\ attStatus'[r] = attStatus[r] /\ attClass'[r] = attClass[r]
    /\ attTarget'[r] = attTarget[r] /\ target'[r] = target[r]
    /\ number'[r] = number[r] /\ result'[r] = result[r]

\* The rows of an untouched request.
LEMMA RowsFrame ==
    ASSUME NEW r, RowsInv(r), Untouched(r) PROVE RowsInv(r)'
  BY DEF RowsInv, Untouched, Retried

\* The handler of an untouched request.
LEMMA HandlerFrame ==
    ASSUME NEW r, HandlerInv(r), Untouched(r), pc'[r] = pc[r] PROVE HandlerInv(r)'
  BY DEF HandlerInv, Untouched, Retried

\* An untouched request against a registry that did not move.
LEMMA RouteFrame ==
    ASSUME NEW r, RouteInv(r), Untouched(r), pc'[r] = pc[r],
           UNCHANGED <<routeTarget, routeGen, retarget>>
    PROVE  RouteInv(r)'
  BY DEF RouteInv, Untouched, TenancyAllows

\* A handler touches its own request only, and no route.
LEMMA OthersUntouched ==
    ASSUME CoreInv, NEW q \in Requests,
           Receive(q) \/ Handler(q) \/ ClientCancel(q)
    PROVE  /\ \A r \in Requests \ {q} : Untouched(r) /\ pc'[r] = pc[r]
           /\ UNCHANGED <<routeTarget, routeGen, retarget>>
  <1> USE DEF CoreInv, TypeOK, RequestTypeOK, HandlerTypeOK, Untouched,
              ledgerVars, registryVars, requestVars
  <1>1. CASE Receive(q) BY <1>1 DEF Receive
  <1>2. CASE Create(q) BY <1>2 DEF Create, CreateInferenceRequest, Finish
  <1>3. CASE Resolve(q) BY <1>3 DEF Resolve, Finish
  <1>4. CASE Attach(q) BY <1>4 DEF Attach, SetInferenceRequestRoute, Finish
  <1>5. CASE StartAttempt(q) BY <1>5 DEF StartAttempt, CreateProviderAttempt, Finish
  <1>6. CASE UpstreamBuffered(q) BY <1>6 DEF UpstreamBuffered, Close
  <1>7. CASE StreamFrame(q) \/ StreamWriteError(q) \/ StreamDone(q) \/ StreamFailure(q)
    BY <1>7 DEF StreamFrame, StreamWriteError, StreamDone, StreamFailure, Close
  <1>8. CASE CloseAttempt(q)
    BY <1>8 DEF CloseAttempt, CompleteProviderAttempt, AfterAttempt, Finish
  <1>9. CASE Backoff(q) BY <1>9 DEF Backoff, Finish
  <1>10. CASE FinishRequest(q) BY <1>10 DEF FinishRequest, CompleteInferenceRequest
  <1>11. CASE MarkHealth(q) BY <1>11 DEF MarkHealth
  <1>12. CASE Respond(q) BY <1>12 DEF Respond
  <1>13. CASE ClientCancel(q) BY <1>13 DEF ClientCancel
  <1> QED
    BY <1>1, <1>2, <1>3, <1>4, <1>5, <1>6, <1>7, <1>8, <1>9, <1>10, <1>11, <1>12, <1>13
    DEF Handler

----------------------------------------------------------------------------
(* The handler's own request, action by action.                            *)

\* Steps that leave the rows of q alone.
LEMMA QuietStep ==
    ASSUME CoreInv, NEW q \in Requests,
           \/ Receive(q) \/ Resolve(q) \/ UpstreamBuffered(q) \/ StreamFrame(q)
           \/ StreamWriteError(q) \/ StreamDone(q) \/ StreamFailure(q) \/ Backoff(q)
           \/ MarkHealth(q) \/ Respond(q) \/ ClientCancel(q)
    PROVE  UNCHANGED requestVars /\ RowsInv(q)'
  <1>1. UNCHANGED requestVars
    BY DEF Receive, Resolve, UpstreamBuffered, StreamFrame, StreamWriteError, StreamDone,
           StreamFailure, Backoff, MarkHealth, Respond, ClientCancel, ledgerVars
  <1>2. RowsInv(q)
    BY DEF CoreInv
  <1> QED BY <1>1, <1>2 DEF RowsInv, Retried, requestVars

\* Every target allows between one and four attempts.
LEMMA AttemptLimit == \A t \in Targets : MaxAttempts[t] \in 1 .. 4
  BY LedgerAssumption DEF AttemptNumbers

\* What an attempt can end with: only failures of a retryable class ask for
\* another attempt, and none of them is "blocked".
Closable(res) ==
    /\ res.status # "blocked"
    /\ res.retryable => res.status = "failed" /\ res.class \in Retryable

\* What the upstream steps record can close an attempt.
LEMMA ClosableResults ==
    /\ \A u \in UsageShapes : Closable(Success(u))
    /\ Closable(Cancelled)
    /\ \A c \in UpstreamClasses, b \in BOOLEAN : Closable(UpstreamFailure(c, b))
  BY DEF Closable, Success, Cancelled, Outcome, UpstreamFailure

\* Every step of a handler keeps the three relations for its request.
LEMMA OwnStep ==
    ASSUME CoreInv, NEW q \in Requests,
           Receive(q) \/ Handler(q) \/ ClientCancel(q)
    PROVE  RowsInv(q)' /\ HandlerInv(q)' /\ RouteInv(q)'
  <1> USE LedgerAssumption
  <1>0. /\ TypeOK /\ TenancyInv /\ RowsInv(q) /\ HandlerInv(q) /\ RouteInv(q)
        /\ UNCHANGED <<routeTarget, routeGen, retarget>>
    BY OthersUntouched DEF CoreInv
  <1>T. /\ status \in [Requests -> RowStatuses]
        /\ boundTarget \in [Requests -> Targets \cup {NoTarget}]
        /\ boundGen \in [Requests -> Nat]
        /\ attemptCount \in [Requests -> Nat]
        /\ attStatus \in [Requests -> [AttemptNumbers -> AttemptStatuses]]
        /\ attClass \in [Requests -> [AttemptNumbers -> ErrorClasses]]
        /\ attTarget \in [Requests -> [AttemptNumbers -> Targets \cup {NoTarget}]]
        /\ pc \in [Requests -> Places]
        /\ target \in [Requests -> Targets \cup {NoTarget}]
        /\ number \in [Requests -> AttemptNumbers]
        /\ result \in [Requests -> Result]
    BY <1>0 DEF TypeOK, RequestTypeOK, HandlerTypeOK
  <1>1. CASE Receive(q)
    <2>1. RowsInv(q)' /\ UNCHANGED requestVars
      BY <1>1, QuietStep
    <2>2. HandlerInv(q)' /\ RouteInv(q)'
      BY <1>0, <1>T, <1>1, <2>1
      DEF Receive, HandlerInv, RouteInv, Routed, Calling, requestVars, TenancyAllows
    <2> QED BY <2>1, <2>2
  <1>2. CASE Create(q)
    <2>1. /\ status[q] = "absent" /\ boundTarget[q] = NoTarget
          /\ attemptCount[q] = 0 /\ number[q] = 1
      BY <1>0, <1>T, <1>2 DEF Create, HandlerInv, RowsInv
    <2>2. /\ boundTarget' = boundTarget /\ attemptCount' = attemptCount
          /\ attStatus' = attStatus /\ attClass' = attClass /\ attTarget' = attTarget
          /\ number' = number /\ status'[q] \in {"absent", "in_progress"}
          /\ pc'[q] \in {"resolve", "finish"} => status'[q] = "in_progress"
          /\ pc'[q] \in {"resolve", "finish", "done"}
          /\ pc'[q] = "finish" => result'[q].status = "blocked"
      BY <1>T, <1>2, <2>1 DEF Create, CreateInferenceRequest, requestVars, Finish, Outcome
    <2>3. RowsInv(q)'
      BY <1>0, <1>T, <2>1, <2>2 DEF RowsInv, Retried, Terminal
    <2>4. HandlerInv(q)' /\ RouteInv(q)'
      BY <2>1, <2>2 DEF HandlerInv, RouteInv, Routed, Calling
    <2> QED BY <2>3, <2>4
  <1>3. CASE Resolve(q)
    <2>1. RowsInv(q)' /\ UNCHANGED requestVars
      BY <1>3, QuietStep
    <2>2. /\ pc[q] = "resolve" /\ status[q] = "in_progress"
          /\ boundTarget[q] = NoTarget /\ number'[q] = 1
      BY <1>0, <1>3 DEF Resolve, HandlerInv
    <2>3. \/ /\ pc'[q] = "attach" /\ RouteOf[q] \in Routes
             /\ target'[q] = routeTarget[RouteOf[q]] /\ retarget[RouteOf[q]] = NoTarget
          \/ pc'[q] = "finish" /\ result'[q].status = "blocked"
      BY <1>T, <1>3 DEF Resolve, ResolveRouteError, RouteLocked, Finish, Outcome
    <2>4. HandlerInv(q)' /\ RouteInv(q)'
      BY <1>0, <2>1, <2>2, <2>3 DEF HandlerInv, RouteInv, Routed, Calling, requestVars
    <2> QED BY <2>1, <2>4
  <1>4. CASE Attach(q)
    <2>1. /\ status[q] = "in_progress" /\ boundTarget[q] = NoTarget /\ attemptCount[q] = 0
          /\ number[q] = 1 /\ RouteOf[q] \in Routes /\ target[q] = routeTarget[RouteOf[q]]
          /\ target[q] \in Targets /\ retarget[RouteOf[q]] = NoTarget
          /\ TenancyAllows(RouteOf[q], target[q]) /\ MaxAttempts[target[q]] >= 1
      <3>1. /\ status[q] = "in_progress" /\ boundTarget[q] = NoTarget /\ number[q] = 1
            /\ RouteOf[q] \in Routes /\ target[q] = routeTarget[RouteOf[q]]
            /\ retarget[RouteOf[q]] = NoTarget
        BY <1>0, <1>4 DEF Attach, HandlerInv, RouteInv, Routed
      <3>2. attemptCount[q] = 0
        BY <1>0, <3>1 DEF RowsInv
      <3>3. target[q] \in Targets /\ TenancyAllows(RouteOf[q], target[q])
        BY <1>0, <3>1 DEF TenancyInv, TypeOK, RegistryTypeOK
      <3>4. MaxAttempts[target[q]] >= 1
        BY <3>3, AttemptLimit
      <3> QED BY <3>1, <3>2, <3>3, <3>4
    <2>2. /\ UNCHANGED <<status, attemptCount, attStatus, attClass, attTarget, target, number>>
          /\ \/ UNCHANGED <<boundTarget, boundGen>>
             \/ boundTarget'[q] = target[q] /\ boundGen'[q] = routeGen[RouteOf[q]]
          /\ \/ pc'[q] = "attempt" /\ boundTarget'[q] = target[q]
             \/ pc'[q] = "finish" /\ result'[q].status = "failed"
      BY <1>T, <1>4, <2>1
      DEF Attach, SetInferenceRequestRoute, requestVars, Finish, Unprepared, Outcome, LedgerError
    <2>3. RowsInv(q)'
      BY <1>0, <1>T, <2>1, <2>2 DEF RowsInv, Retried, Terminal, AttemptNumbers
    <2>4. HandlerInv(q)'
      <3>1. CASE pc'[q] = "attempt"
        BY <1>T, <2>1, <2>2, <3>1 DEF HandlerInv, Routed, Calling, Retried, AttemptNumbers
      <3>2. CASE pc'[q] = "finish" /\ result'[q].status = "failed"
        BY <2>1, <2>2, <3>2 DEF HandlerInv, Routed, Calling
      <3> QED BY <2>2, <3>1, <3>2
    <2>5. RouteInv(q)'
      BY <1>0, <1>T, <2>1, <2>2 DEF RouteInv, Routed, TenancyAllows
    <2> QED BY <2>3, <2>4, <2>5
  <1>5. CASE StartAttempt(q)
    <2>1. /\ status[q] = "in_progress" /\ boundTarget[q] = target[q] /\ target[q] \in Targets
          /\ attemptCount[q] = number[q] - 1 /\ number[q] <= MaxAttempts[target[q]]
          /\ number[q] \in 1 .. 4 /\ Retried(q, attemptCount[q])
      BY <1>0, <1>T, <1>5 DEF StartAttempt, HandlerInv, Routed, Calling, AttemptNumbers
    <2>2. /\ UNCHANGED <<status, boundTarget, boundGen, attClass, target, number>>
          /\ \/ UNCHANGED <<attemptCount, attStatus, attTarget>> /\ pc'[q] = "finish"
             \/ /\ attemptCount'[q] = number[q]
                /\ attStatus'[q] = [attStatus[q] EXCEPT ![number[q]] = "in_progress"]
                /\ attTarget'[q] = [attTarget[q] EXCEPT ![number[q]] = target[q]]
                /\ pc'[q] \in {"upstream", "finish"}
          /\ pc'[q] = "finish" => result'[q].status = "failed"
      <3>1. UNCHANGED <<target, number>> /\ LedgerError.status = "failed"
        BY <1>5 DEF StartAttempt, LedgerError, Outcome
      <3>2. \/ UNCHANGED requestVars /\ Finish(q, LedgerError)
            \/ /\ CreateProviderAttempt(q, target[q], number[q])
               /\ Finish(q, LedgerError) \/ pc' = [pc EXCEPT ![q] = "upstream"]
        BY <1>5 DEF StartAttempt
      <3>3. CASE UNCHANGED requestVars /\ Finish(q, LedgerError)
        BY <1>T, <3>1, <3>3 DEF requestVars, Finish
      <3>4. CASE /\ CreateProviderAttempt(q, target[q], number[q])
                 /\ Finish(q, LedgerError) \/ pc' = [pc EXCEPT ![q] = "upstream"]
        BY <1>T, <2>1, <3>1, <3>4 DEF CreateProviderAttempt, Finish, AttemptNumbers
      <3> QED BY <3>2, <3>3, <3>4
    <2>3. RowsInv(q)'
      BY <1>0, <1>T, <2>1, <2>2 DEF RowsInv, Retried, Terminal, AttemptNumbers
    <2>4. HandlerInv(q)'
      BY <1>0, <1>T, <2>1, <2>2 DEF HandlerInv, Routed, Calling, AttemptNumbers
    <2>5. RouteInv(q)'
      BY <1>0, <1>T, <1>5, <2>1, <2>2 DEF StartAttempt, RouteInv, Routed, TenancyAllows
    <2> QED BY <2>3, <2>4, <2>5
  <1>6. CASE UpstreamBuffered(q) \/ StreamFrame(q) \/ StreamWriteError(q)
               \/ StreamDone(q) \/ StreamFailure(q)
    <2>1. RowsInv(q)' /\ UNCHANGED requestVars
      BY <1>6, QuietStep
    <2>2. \A res \in Result : Close(q, res) => pc'[q] = "close" /\ result'[q] = res
      BY <1>T DEF Close
    <2>3. /\ pc[q] = "upstream" /\ UNCHANGED <<target, number>>
          /\ \/ UNCHANGED pc
             \/ \E res \in Result : Close(q, res) /\ Closable(res)
      BY <1>0, <1>6, ResultTypes, ClosableResults, GatewayAssumption
      DEF UpstreamBuffered, StreamFrame, StreamWriteError, StreamDone, StreamFailure, Committed
    <2>4. \/ pc'[q] = "upstream"
          \/ pc'[q] = "close" /\ Closable(result'[q])
      BY <2>2, <2>3
    <2>5. HandlerInv(q)'
      BY <1>0, <2>1, <2>3, <2>4 DEF HandlerInv, Retried, Routed, Calling, requestVars, Closable
    <2>6. RouteInv(q)'
      BY <1>0, <2>1, <2>3, <2>4 DEF RouteInv, Routed, TenancyAllows, requestVars
    <2> QED BY <2>1, <2>5, <2>6
  <1>7. CASE CloseAttempt(q)
    <2>1. /\ status[q] = "in_progress" /\ boundTarget[q] = target[q] /\ target[q] \in Targets
          /\ boundTarget[q] # NoTarget /\ attemptCount[q] = number[q]
          /\ number[q] \in 1 .. 4 /\ number[q] <= MaxAttempts[target[q]]
          /\ attStatus[q][number[q]] = "in_progress"
          /\ result[q].status \in Terminal /\ result[q].status # "blocked"
          /\ result[q].retryable =>
                result[q].status = "failed" /\ result[q].class \in Retryable
      BY <1>0, <1>T, <1>7
      DEF CloseAttempt, HandlerInv, Routed, Calling, AttemptNumbers, Result
    <2>2. /\ UNCHANGED <<status, boundTarget, boundGen, attemptCount, attTarget, target, number>>
          /\ \/ /\ UNCHANGED <<attStatus, attClass>>
                /\ pc'[q] = "finish" /\ result'[q].status = "failed"
             \/ /\ attStatus'[q] = [attStatus[q] EXCEPT ![number[q]] = result[q].status]
                /\ attClass'[q] = [attClass[q] EXCEPT ![number[q]] = result[q].class]
                /\ \/ pc'[q] = "finish" /\ result'[q].status \in {result[q].status, "failed"}
                   \/ /\ pc'[q] = "backoff" /\ result[q].retryable
                      /\ number[q] < MaxAttempts[target[q]]
      <3>1. /\ UNCHANGED <<target, number>>
            /\ LedgerError.status = "failed" /\ ~LedgerError.retryable
        BY <1>7 DEF CloseAttempt, LedgerError, Outcome
      <3>2. \/ UNCHANGED requestVars /\ AfterAttempt(q, LedgerError)
            \/ /\ CompleteProviderAttempt(q, number[q], result[q].status, result[q].class)
               /\ AfterAttempt(q, LedgerError) \/ AfterAttempt(q, result[q])
        BY <1>7 DEF CloseAttempt
      <3>3. /\ AfterAttempt(q, LedgerError) => pc'[q] = "finish" /\ result'[q].status = "failed"
            /\ AfterAttempt(q, result[q]) =>
                 \/ pc'[q] = "finish" /\ result'[q].status \in {result[q].status, "failed"}
                 \/ /\ pc'[q] = "backoff" /\ result[q].retryable
                    /\ number[q] < MaxAttempts[target[q]]
        BY <1>T, <3>1 DEF AfterAttempt, Finish, Outcome, LedgerError
      <3>4. CASE UNCHANGED requestVars /\ AfterAttempt(q, LedgerError)
        BY <3>1, <3>3, <3>4 DEF requestVars
      <3>5. CASE /\ CompleteProviderAttempt(q, number[q], result[q].status, result[q].class)
                 /\ AfterAttempt(q, LedgerError) \/ AfterAttempt(q, result[q])
        BY <1>T, <2>1, <3>1, <3>3, <3>5 DEF CompleteProviderAttempt, AttemptNumbers
      <3> QED BY <3>2, <3>4, <3>5
    <2>3. RowsInv(q)'
      BY <1>0, <1>T, <2>1, <2>2, SMTT(40) DEF RowsInv, Retried, Terminal, AttemptNumbers
    <2>4. HandlerInv(q)'
      BY <1>0, <1>T, <2>1, <2>2
      DEF HandlerInv, RowsInv, Retried, Routed, Calling, AttemptNumbers
    <2>5. RouteInv(q)'
      BY <1>0, <1>T, <1>7, <2>1, <2>2 DEF CloseAttempt, RouteInv, Routed, TenancyAllows
    <2> QED BY <2>3, <2>4, <2>5
  <1>8. CASE Backoff(q)
    <2>1. RowsInv(q)' /\ UNCHANGED requestVars
      BY <1>8, QuietStep
    <2>2. /\ status[q] = "in_progress" /\ boundTarget[q] = target[q] /\ target[q] \in Targets
          /\ attemptCount[q] = number[q] /\ number[q] < MaxAttempts[target[q]]
          /\ Retried(q, attemptCount[q]) /\ number[q] \in 1 .. 4
      BY <1>0, <1>T, <1>8 DEF Backoff, HandlerInv, Routed, Calling, AttemptNumbers
    <2>3. /\ UNCHANGED target
          /\ \/ pc'[q] = "attempt" /\ number'[q] = number[q] + 1
             \/ pc'[q] = "finish" /\ result'[q].status = "cancelled"
      BY <1>T, <1>8 DEF Backoff, Finish, Cancelled, Outcome
    <2>4. HandlerInv(q)'
      <3>1. CASE pc'[q] = "attempt" /\ number'[q] = number[q] + 1
        <4>1. MaxAttempts[target[q]] \in 1 .. 4
          BY <2>2, AttemptLimit
        <4>2. Retried(q, attemptCount[q])'
          BY <2>1, <2>2 DEF Retried, requestVars
        <4> QED BY <2>1, <2>2, <2>3, <3>1, <4>1, <4>2
              DEF HandlerInv, Routed, Calling, requestVars
      <3>2. CASE pc'[q] = "finish" /\ result'[q].status = "cancelled"
        BY <2>1, <2>2, <3>2 DEF HandlerInv, Routed, Calling, requestVars
      <3> QED BY <2>3, <3>1, <3>2
    <2>5. RouteInv(q)'
      BY <1>0, <1>8, <2>1, <2>3 DEF Backoff, RouteInv, Routed, TenancyAllows, requestVars
    <2> QED BY <2>1, <2>4, <2>5
  <1>9. CASE FinishRequest(q)
    <2>1. /\ status[q] = "in_progress"
          /\ result[q].status = "succeeded" =>
               attemptCount[q] > 0 /\ attStatus[q][attemptCount[q]] = "succeeded"
      BY <1>0, <1>9 DEF FinishRequest, HandlerInv
    <2>2. /\ UNCHANGED <<boundTarget, boundGen, attemptCount, attStatus, attClass, attTarget,
                         target, number, result>>
          /\ pc'[q] \in {"respond", "health", "done"}
          /\ pc'[q] = "health" => result[q].health # "none"
          /\ \/ status'[q] = status[q]
             \/ status'[q] = result[q].status /\ Unfinished(q) = {}
      <3>1. UNCHANGED <<target, number, result>>
        BY <1>9 DEF FinishRequest
      <3>2. pc'[q] \in {"respond", "health", "done"} /\ (pc'[q] = "health" => result[q].health # "none")
        BY <1>T, <1>9 DEF FinishRequest
      <3>3. \/ UNCHANGED requestVars
            \/ /\ CompleteInferenceRequest(q, result[q].status, result[q].class, result[q].usage)
               /\ CompleteInferenceRequestOk(q, result[q].status, result[q].usage)
        BY <1>9 DEF FinishRequest, DetachedOutcome
      <3> QED BY <1>T, <3>1, <3>2, <3>3
            DEF requestVars, CompleteInferenceRequest, CompleteInferenceRequestOk
    <2>3. result[q].status \in Terminal
      BY <1>T DEF Result
    <2>4. RowsInv(q)'
      <3>1. status'[q] \in Terminal => \A n \in AttemptNumbers : attStatus[q][n] # "in_progress"
        BY <2>1, <2>2, <2>3 DEF Unfinished, Terminal
      <3>2. status'[q] = "succeeded" =>
               attemptCount[q] > 0 /\ attStatus[q][attemptCount[q]] = "succeeded"
        BY <2>1, <2>2
      <3>3. status'[q] # "absent"
        BY <2>1, <2>2, <2>3 DEF Terminal
      <3> QED BY <1>0, <2>2, <3>1, <3>2, <3>3 DEF RowsInv, Retried
    <2>5. HandlerInv(q)'
      BY <2>2 DEF HandlerInv, Routed, Calling
    <2>6. RouteInv(q)'
      <3>1. status'[q] = "in_progress" => status[q] = "in_progress"
        BY <2>1
      <3> QED BY <1>0, <2>2, <3>1 DEF RouteInv, Routed, TenancyAllows
    <2> QED BY <2>4, <2>5, <2>6
  <1>10. CASE MarkHealth(q) \/ Respond(q)
    <2>1. RowsInv(q)' /\ UNCHANGED requestVars
      BY <1>10, QuietStep
    <2>2. pc'[q] \in {"respond", "done"}
      BY <1>T, <1>10 DEF MarkHealth, Respond
    <2>3. HandlerInv(q)'
      BY <2>2 DEF HandlerInv, Routed, Calling
    <2>4. RouteInv(q)'
      BY <1>0, <2>1, <2>2 DEF RouteInv, Routed, TenancyAllows, requestVars
    <2> QED BY <2>1, <2>3, <2>4
  <1>11. CASE ClientCancel(q)
    <2>1. RowsInv(q)' /\ UNCHANGED requestVars
      BY <1>11, QuietStep
    <2>2. Untouched(q) /\ pc'[q] = pc[q]
      BY <1>11, <2>1 DEF ClientCancel, Untouched, requestVars
    <2> QED BY <1>0, <2>1, <2>2, HandlerFrame, RouteFrame
  <1> QED
    BY <1>1, <1>2, <1>3, <1>4, <1>5, <1>6, <1>7, <1>8, <1>9, <1>10, <1>11 DEF Handler

----------------------------------------------------------------------------
(* The other steps, and the invariant.                                     *)

\* The first state.
LEMMA InvInit == Init => CoreInv
  <1> SUFFICES ASSUME Init PROVE CoreInv
    OBVIOUS
  <1> USE LedgerAssumption
  <1>1. TypeOK
    BY TypeInit
  <1>2. TenancyInv
    BY DEF Init, LedgerInit, TenancyInv
  <1>3. ASSUME NEW r \in Requests PROVE RowsInv(r)
    BY DEF Init, LedgerInit, RowsInv, Retried, Terminal, AttemptNumbers
  <1>4. ASSUME NEW r \in Requests PROVE HandlerInv(r) /\ RouteInv(r)
    BY DEF Init, LedgerInit, HandlerInv, RouteInv, Routed, Calling
  <1> QED BY <1>1, <1>2, <1>3, <1>4 DEF CoreInv

\* The registry moves a route only while no request is in progress on it.
LEMMA RegistryStep ==
    ASSUME CoreInv, Registry
    PROVE  TenancyInv' /\ \A r \in Requests : RowsInv(r)' /\ HandlerInv(r)' /\ RouteInv(r)'
  <1> USE LedgerAssumption
  <1>0. /\ RegistryTypeOK /\ TenancyInv
        /\ \A r \in Requests : RowsInv(r) /\ HandlerInv(r) /\ RouteInv(r)
    BY DEF CoreInv, TypeOK
  <1>1. UNCHANGED requestVars /\ UNCHANGED handlerVars
    BY DEF Registry, ProvisionRetarget, ProvisionCommit, ProvisionRollback, ProvisionSame,
           OperatorToggle, RecordProbeObservation
  <1>2. \A r \in Requests : Untouched(r) /\ pc'[r] = pc[r]
    BY <1>1 DEF Untouched, requestVars, handlerVars
  <1>3. \A r \in Requests : RowsInv(r)' /\ HandlerInv(r)'
    BY <1>0, <1>2, RowsFrame, HandlerFrame
  <1>4. CASE UNCHANGED <<routeTarget, routeGen, retarget>>
    <2>1. TenancyInv'
      BY <1>0, <1>4 DEF TenancyInv, TenancyAllows
    <2> QED BY <1>0, <1>2, <1>3, <1>4, <2>1, RouteFrame
  <1>5. ASSUME NEW rt \in Routes, NEW t \in Targets, ProvisionRetarget(rt, t)
        PROVE  TenancyInv' /\ \A r \in Requests : RouteInv(r)'
    <2>1. /\ UNCHANGED <<routeTarget, routeGen>> /\ retarget' = [retarget EXCEPT ![rt] = t]
          /\ TenancyAllows(rt, t) /\ \A r \in Requests : ~Active(r, rt)
      BY <1>5 DEF ProvisionRetarget
    <2>2. TenancyInv'
      BY <1>0, <2>1 DEF TenancyInv, TenancyAllows, RegistryTypeOK
    <2>3. ASSUME NEW r \in Requests PROVE RouteInv(r)'
      <3>1. RouteInv(r) /\ HandlerInv(r) /\ Untouched(r) /\ pc'[r] = pc[r]
        BY <1>0, <1>2
      <3>2. status[r] = "in_progress" => RouteOf[r] # rt
        BY <2>1 DEF Active
      <3>3. pc[r] \in Routed => status[r] = "in_progress"
        BY <3>1 DEF HandlerInv
      <3>4. status[r] = "in_progress" /\ RouteOf[r] \in Routes =>
               retarget'[RouteOf[r]] = retarget[RouteOf[r]]
        BY <1>0, <2>1, <3>2 DEF RegistryTypeOK
      <3> QED BY <2>1, <3>1, <3>3, <3>4 DEF RouteInv, Untouched, TenancyAllows
    <2> QED BY <2>2, <2>3
  <1>6. ASSUME NEW rt \in Routes, ProvisionCommit(rt) \/ ProvisionRollback(rt)
        PROVE  TenancyInv' /\ \A r \in Requests : RouteInv(r)'
    <2>1. /\ retarget[rt] # NoTarget /\ retarget' = [retarget EXCEPT ![rt] = NoTarget]
          /\ \/ UNCHANGED <<routeTarget, routeGen>>
             \/ /\ routeTarget' = [routeTarget EXCEPT ![rt] = retarget[rt]]
                /\ routeGen' = [routeGen EXCEPT ![rt] = @ + 1]
      BY <1>6 DEF ProvisionCommit, ProvisionRollback
    <2>2. TenancyInv'
      BY <1>0, <2>1 DEF TenancyInv, TenancyAllows, RegistryTypeOK
    <2>3. ASSUME NEW r \in Requests PROVE RouteInv(r)'
      <3>1. RouteInv(r) /\ Untouched(r) /\ pc'[r] = pc[r]
        BY <1>0, <1>2
      <3>2. (status[r] = "in_progress" /\ boundTarget[r] # NoTarget) \/ pc[r] \in Routed =>
               RouteOf[r] \in Routes \ {rt}
        BY <2>1, <3>1 DEF RouteInv
      <3>3. RouteOf[r] \in Routes \ {rt} =>
               /\ routeTarget'[RouteOf[r]] = routeTarget[RouteOf[r]]
               /\ routeGen'[RouteOf[r]] = routeGen[RouteOf[r]]
               /\ retarget'[RouteOf[r]] = retarget[RouteOf[r]]
        BY <1>0, <2>1 DEF RegistryTypeOK
      <3> QED BY <3>1, <3>2, <3>3 DEF RouteInv, Untouched, TenancyAllows
    <2> QED BY <2>2, <2>3
  <1> QED
    BY <1>3, <1>4, <1>5, <1>6
    DEF Registry, ProvisionSame, OperatorToggle, RecordProbeObservation

\* A crash leaves every row as it is and stops the handlers.
LEMMA CrashStep ==
    ASSUME CoreInv, Crash
    PROVE  TenancyInv' /\ \A r \in Requests : RowsInv(r)' /\ HandlerInv(r)' /\ RouteInv(r)'
  <1>1. UNCHANGED ledgerVars /\ UNCHANGED <<target, number, result>>
    BY DEF Crash
  <1>2. TenancyInv'
    BY <1>1 DEF CoreInv, TenancyInv, TenancyAllows, ledgerVars, registryVars
  <1>3. ASSUME NEW r \in Requests PROVE RowsInv(r)' /\ HandlerInv(r)' /\ RouteInv(r)'
    <2>1. RowsInv(r) /\ HandlerInv(r) /\ RouteInv(r)
      BY DEF CoreInv
    <2>2. Untouched(r) /\ UNCHANGED <<routeTarget, routeGen, retarget>>
      BY <1>1 DEF Untouched, ledgerVars, registryVars, requestVars
    <2>3. RowsInv(r)'
      BY <2>1, <2>2, RowsFrame
    <2>4. pc'[r] = pc[r] \/ pc'[r] = "dead"
      BY DEF Crash
    <2>5. CASE pc'[r] = pc[r]
      BY <2>1, <2>2, <2>3, <2>5, HandlerFrame, RouteFrame
    <2>6. CASE pc'[r] = "dead"
      BY <2>1, <2>2, <2>3, <2>6
      DEF HandlerInv, RouteInv, Routed, Calling, Untouched, TenancyAllows
    <2> QED BY <2>4, <2>5, <2>6
  <1> QED BY <1>2, <1>3

\* Every step preserves rows, handlers and routes.
LEMMA InvStep == CoreInv /\ [Next]_vars => CoreInv'
  <1> SUFFICES ASSUME CoreInv, [Next]_vars PROVE CoreInv'
    OBVIOUS
  <1>0. TypeOK'
    BY TypeStep
  <1>1. ASSUME NEW q \in Requests, Receive(q) \/ Handler(q) \/ ClientCancel(q)
        PROVE  TenancyInv' /\ \A r \in Requests : RowsInv(r)' /\ HandlerInv(r)' /\ RouteInv(r)'
    <2>1. /\ \A r \in Requests \ {q} : Untouched(r) /\ pc'[r] = pc[r]
          /\ UNCHANGED <<routeTarget, routeGen, retarget>>
      BY <1>1, OthersUntouched
    <2>2. TenancyInv'
      BY <2>1 DEF CoreInv, TenancyInv, TenancyAllows
    <2>3. ASSUME NEW r \in Requests \ {q} PROVE RowsInv(r)' /\ HandlerInv(r)' /\ RouteInv(r)'
      <3>1. RowsInv(r) /\ HandlerInv(r) /\ RouteInv(r)
        BY DEF CoreInv
      <3> QED BY <2>1, <3>1, RowsFrame, HandlerFrame, RouteFrame
    <2>4. RowsInv(q)' /\ HandlerInv(q)' /\ RouteInv(q)'
      BY <1>1, OwnStep
    <2> QED BY <2>2, <2>3, <2>4
  <1>2. CASE UNCHANGED vars
    <2>1. TenancyInv'
      BY <1>2 DEF CoreInv, TenancyInv, TenancyAllows, vars, ledgerVars, registryVars
    <2>2. ASSUME NEW r \in Requests PROVE RowsInv(r)' /\ HandlerInv(r)' /\ RouteInv(r)'
      <3>1. Untouched(r) /\ pc'[r] = pc[r] /\ UNCHANGED <<routeTarget, routeGen, retarget>>
        BY <1>2 DEF Untouched, vars, ledgerVars, registryVars, requestVars, handlerVars
      <3>2. RowsInv(r) /\ HandlerInv(r) /\ RouteInv(r)
        BY DEF CoreInv
      <3> QED BY <3>1, <3>2, RowsFrame, HandlerFrame, RouteFrame
    <2> QED BY <1>0, <2>1, <2>2 DEF CoreInv
  <1>3. TenancyInv' /\ \A r \in Requests : RowsInv(r)' /\ HandlerInv(r)' /\ RouteInv(r)'
    BY <1>1, <1>2, CrashStep, RegistryStep DEF Next, CoreInv
  <1> QED BY <1>0, <1>3 DEF CoreInv

\* Rows, handlers and routes fit together in every reachable state of the
\* gateway, whatever the numbers of requests, routes, targets and faults.
THEOREM Inductive == Spec => []CoreInv
  BY InvInit, InvStep, PTL DEF Spec

\* Every variable of the ledger and of the handlers keeps its type.
THEOREM TypeCorrect == Spec => []TypeOK
  <1>1. CoreInv => TypeOK
    BY DEF CoreInv
  <1> QED BY <1>1, Inductive, PTL

----------------------------------------------------------------------------
(* The safety properties.                                                  *)

\* The rows of a request's attempts are numbered without gaps.
LEMMA AttemptedRows ==
    ASSUME NEW r, RowsInv(r)
    PROVE  Attempted(r) = 1 .. attemptCount[r]
  BY DEF RowsInv, Attempted, AttemptNumbers

\* The count on the request is the number of its attempts.
LEMMA AttemptedCount ==
    ASSUME NEW r, RowsInv(r)
    PROVE  Cardinality(Attempted(r)) = attemptCount[r]
  <1>1. attemptCount[r] \in 0 .. 4
    BY DEF RowsInv
  <1>2. Attempted(r) = 1 .. attemptCount[r]
    BY AttemptedRows
  <1>3. Cardinality(1 .. attemptCount[r]) = attemptCount[r]
    BY <1>1, FS_Interval
  <1> QED BY <1>2, <1>3

\* The attempts of every request tell one story: numbered without gaps, all
\* but the last failed retryably, none in progress under a final request,
\* and the last succeeded under a succeeded one (the retry loops of
\* ServeHTTP and serveStreaming over the attempt triggers).
THEOREM AttemptsTellOneStory == Spec => []AttemptHistory
  <1>1. ASSUME CoreInv PROVE AttemptHistory
    <2>1. ASSUME NEW r \in Requests
          PROVE  /\ Attempted(r) = 1 .. attemptCount[r]
                 /\ \A n \in Attempted(r) : n < attemptCount[r] =>
                       attStatus[r][n] = "failed" /\ attClass[r][n] \in Retryable
                 /\ status[r] \in Terminal => Unfinished(r) = {}
                 /\ status[r] = "succeeded" =>
                       attemptCount[r] > 0 /\ attStatus[r][attemptCount[r]] = "succeeded"
      <3>1. RowsInv(r)
        BY <1>1 DEF CoreInv
      <3>2. \A n \in Attempted(r) : n < attemptCount[r] =>
               attStatus[r][n] = "failed" /\ attClass[r][n] \in Retryable
        BY <3>1 DEF RowsInv, Retried, Attempted, AttemptNumbers
      <3>3. status[r] \in Terminal => Unfinished(r) = {}
        BY <3>1 DEF RowsInv, Unfinished
      <3> QED BY <3>1, <3>2, <3>3, AttemptedRows DEF RowsInv
    <2> QED BY <2>1 DEF AttemptHistory
  <1> QED BY <1>1, Inductive, PTL

\* A route does not move under a request in progress, between resolution,
\* attachment and any of its attempts.
THEOREM BindingIsStable == Spec => []BindingStable
  <1>1. CoreInv => BindingStable
    BY DEF CoreInv, RouteInv, Routed, BindingStable
  <1> QED BY <1>1, Inductive, PTL

\* No attempt is ever made on another organisation's dedicated target.
THEOREM TenantsAreIsolated == Spec => []TenantIsolation
  <1>1. ASSUME CoreInv PROVE TenantIsolation
    <2>1. ASSUME NEW r \in Requests, NEW n \in Attempted(r)
          PROVE  TargetOwner[attTarget[r][n]] \in {NoOwner, RouteOrg[RouteOf[r]]}
      <3>1. RowsInv(r) /\ RouteInv(r)
        BY <1>1 DEF CoreInv
      <3>2. n \in AttemptNumbers /\ n <= attemptCount[r]
        BY <3>1 DEF RowsInv, Attempted
      <3>3. attTarget[r][n] = boundTarget[r] /\ boundTarget[r] # NoTarget
        BY <3>1, <3>2 DEF RowsInv, AttemptNumbers
      <3> QED BY <3>1, <3>3 DEF RouteInv, TenancyAllows
    <2> QED BY <2>1 DEF TenantIsolation
  <1> QED BY <1>1, Inductive, PTL

\* When a handler is about to insert an attempt, the conditions of the triggers hold.
LEMMA NextAttemptOk ==
    ASSUME CoreInv, NEW r \in Requests, pc[r] = "attempt"
    PROVE  CreateProviderAttemptOk(r, target[r], number[r])
  <1>1. RowsInv(r) /\ HandlerInv(r) /\ RouteInv(r) /\ number[r] \in 1 .. 4
    BY DEF CoreInv, TypeOK, HandlerTypeOK, AttemptNumbers
  <1>2. /\ status[r] = "in_progress" /\ boundTarget[r] = target[r]
        /\ target[r] \in Targets /\ number[r] <= MaxAttempts[target[r]]
        /\ attemptCount[r] = number[r] - 1
    BY <1>1 DEF HandlerInv, Routed, Calling
  <1>3. target[r] = routeTarget[RouteOf[r]]
    BY <1>1 DEF RouteInv, Routed
  <1>4. Cardinality(Attempted(r)) = attemptCount[r]
    BY <1>1, AttemptedCount
  <1>5. boundTarget[r] # NoTarget
    BY <1>2, LedgerAssumption
  <1> QED BY <1>1, <1>2, <1>3, <1>4, <1>5 DEF CreateProviderAttemptOk

\* When a handler is about to insert an attempt, the triggers accept it.
THEOREM AttemptsAreAccepted == Spec => []AttemptAccepted
  <1>1. CoreInv => AttemptAccepted
    BY NextAttemptOk DEF AttemptAccepted
  <1> QED BY <1>1, Inductive, PTL

----------------------------------------------------------------------------
(* What a caller gets.                                                     *)

\* Everything a handler can record is sound.
LEMMA SoundResults ==
    /\ SoundResult(LedgerError) /\ SoundResult(Cancelled)
    /\ \A u \in UsageShapes : SoundResult(Success(u))
    /\ \A c \in UpstreamClasses, b \in BOOLEAN : SoundResult(UpstreamFailure(c, b))
    /\ \A r : \A res \in Unprepared(r) : SoundResult(res)
    /\ \A c \in ErrorClasses : SoundResult(Outcome("blocked", c, "none"))
    /\ SoundResult(Outcome("failed", "invalid_upstream_response", "none"))
  <1> USE DEF SoundResult
  <1>1. SoundResult(LedgerError) /\ SoundResult(Cancelled)
    BY DEF LedgerError, Cancelled, Outcome
  <1>2. \A u \in UsageShapes : SoundResult(Success(u))
    BY DEF Success
  <1>3. ASSUME NEW c \in UpstreamClasses, NEW b \in BOOLEAN
        PROVE  SoundResult(UpstreamFailure(c, b))
    <2>1. c # "ledger_error"
      BY DEF UpstreamClasses, StatusClasses, ResponseClasses, NetworkClasses
    <2> QED BY <2>1 DEF UpstreamFailure, failureHealthStatus
  <1>4. ASSUME NEW r, NEW res \in Unprepared(r) PROVE SoundResult(res)
    BY DEF Unprepared, Outcome
  <1>5. \A c \in ErrorClasses : SoundResult(Outcome("blocked", c, "none"))
    BY DEF Outcome
  <1>6. SoundResult(Outcome("failed", "invalid_upstream_response", "none"))
    BY DEF Outcome
  <1> HIDE DEF SoundResult
  <1> QED BY <1>1, <1>2, <1>3, <1>4, <1>5, <1>6

\* A call that was accepted and did not return ok was hit by a fault or by the end
\* of its context.
LEMMA OutcomeFacts ==
    ASSUME HandlerTypeOK, NEW r \in Requests, NEW accepted \in BOOLEAN, NEW o
    PROVE  /\ DetachedOutcome(accepted, o) =>
                 /\ faults' = faults \/ faults' > 0
                 /\ faults' \in Nat
                 /\ o = "ok" => accepted
                 /\ accepted /\ o # "ok" => faults' > 0
           /\ ContextOutcome(r, accepted, o) =>
                 /\ faults' = faults \/ faults' > 0
                 /\ faults' \in Nat
                 /\ o \in {"ok", "lost"} => accepted
                 /\ ctx'[r] = "live" => ctx[r] = "live"
                 /\ accepted /\ o # "ok" /\ ctx'[r] = "live" => faults' > 0
  BY DEF HandlerTypeOK, DetachedOutcome, ContextOutcome

\* A request that has made no attempt, or only attempts that failed, has none open.
LEMMA NoneOpen ==
    ASSUME NEW r, RowsInv(r), attemptCount[r] = 0 \/ Retried(r, attemptCount[r])
    PROVE  Unfinished(r) = {}
  BY DEF RowsInv, Retried, Unfinished, AttemptNumbers

----------------------------------------------------------------------------
(* The other requests.                                                     *)

\* What DeliveryInv(r) looks at stays as it is.
Unseen(r) ==
    /\ pc'[r] = pc[r] /\ ctx'[r] = ctx[r] /\ target'[r] = target[r]
    /\ result'[r] = result[r] /\ stream'[r] = stream[r] /\ reply'[r] = reply[r]
    /\ status'[r] = status[r] /\ errorClass'[r] = errorClass[r] /\ usage'[r] = usage[r]
    /\ boundTarget'[r] = boundTarget[r] /\ attStatus'[r] = attStatus[r]

\* A further fault only weakens what is promised of a request.
LEMMA DeliveryFrame ==
    ASSUME NEW r, DeliveryInv(r), Unseen(r), faults' = faults \/ faults' > 0,
           faults' \in Nat
    PROVE  DeliveryInv(r)'
  BY DEF DeliveryInv, Unseen, Committed, Unfinished

\* A handler's step is not seen by other requests.
LEMMA OthersUnseen ==
    ASSUME CoreInv, NEW q \in Requests, Receive(q) \/ Handler(q) \/ ClientCancel(q)
    PROVE  /\ \A r \in Requests \ {q} : Unseen(r)
           /\ faults' = faults \/ faults' > 0
           /\ faults' \in Nat
  <1>0. HandlerTypeOK /\ RequestTypeOK
    BY DEF CoreInv, TypeOK
  <1>1. \A r \in Requests \ {q} : Untouched(r) /\ pc'[r] = pc[r]
    BY OthersUntouched
  <1>2. \A r \in Requests \ {q} : stream'[r] = stream[r] /\ reply'[r] = reply[r]
    BY <1>0
    DEF HandlerTypeOK, Receive, Handler, ClientCancel, Create, Resolve, Attach, StartAttempt,
        UpstreamBuffered, StreamFrame, StreamWriteError, StreamDone, StreamFailure,
        CloseAttempt, Backoff, FinishRequest, MarkHealth, Respond, WriteError
  <1>3. ASSUME NEW r \in Requests \ {q} PROVE ctx'[r] = ctx[r]
    BY <1>0
    DEF HandlerTypeOK, Receive, Handler, ClientCancel, Create, Resolve, Attach, StartAttempt,
        UpstreamBuffered, StreamFrame, StreamWriteError, StreamDone, StreamFailure,
        CloseAttempt, Backoff, FinishRequest, MarkHealth, Respond, ContextOutcome
  <1>4. \A r \in Requests \ {q} : errorClass'[r] = errorClass[r] /\ usage'[r] = usage[r]
    BY <1>0
    DEF RequestTypeOK, Receive, Handler, ClientCancel, Create, Resolve, Attach, StartAttempt,
        UpstreamBuffered, StreamFrame, StreamWriteError, StreamDone, StreamFailure,
        CloseAttempt, Backoff, FinishRequest, MarkHealth, Respond, ledgerVars, requestVars,
        CreateInferenceRequest, SetInferenceRequestRoute, CreateProviderAttempt,
        CompleteProviderAttempt, CompleteInferenceRequest
  <1>5. faults' = faults \/ faults' > 0
    <2>1. \A a, o : DetachedOutcome(a, o) \/ ContextOutcome(q, a, o) => faults' = faults \/ faults' > 0
      BY <1>0 DEF HandlerTypeOK, DetachedOutcome, ContextOutcome
    <2>2. CASE Create(q) \/ Resolve(q) \/ Attach(q) \/ StartAttempt(q) \/ CloseAttempt(q)
               \/ FinishRequest(q) \/ MarkHealth(q)
      BY <2>1, <2>2 DEF Create, Resolve, Attach, StartAttempt, CloseAttempt, FinishRequest, MarkHealth
    <2>3. CASE ~(Create(q) \/ Resolve(q) \/ Attach(q) \/ StartAttempt(q) \/ CloseAttempt(q)
                 \/ FinishRequest(q) \/ MarkHealth(q))
      BY <2>3
      DEF Receive, Handler, ClientCancel, UpstreamBuffered, StreamFrame, StreamWriteError,
          StreamDone, StreamFailure, Backoff, Respond
    <2> QED BY <2>2, <2>3
  <1>6. faults' \in Nat
    <2>1. [Next]_vars
      BY DEF Next
    <2> QED BY <2>1, TypeStep DEF TypeOK, HandlerTypeOK
  <1> QED BY <1>1, <1>2, <1>3, <1>4, <1>5, <1>6 DEF Untouched, Unseen

----------------------------------------------------------------------------
(* The request of the handler that takes a step.                           *)

\* The types a handler's step relies on.
LEMMA HandlerTypes ==
    ASSUME CoreInv
    PROVE  /\ status \in [Requests -> RowStatuses] /\ errorClass \in [Requests -> ErrorClasses]
           /\ usage \in [Requests -> UsageShapes]
           /\ boundTarget \in [Requests -> Targets \cup {NoTarget}]
           /\ attStatus \in [Requests -> [AttemptNumbers -> AttemptStatuses]]
           /\ pc \in [Requests -> Places] /\ ctx \in [Requests -> ContextStates]
           /\ target \in [Requests -> Targets \cup {NoTarget}]
           /\ result \in [Requests -> Result]
           /\ stream \in [Requests -> {"none", "partial", "done"}]
           /\ reply \in [Requests -> {"none", "body", "error"}]
           /\ faults \in Nat /\ HandlerTypeOK
  BY DEF CoreInv, TypeOK, RequestTypeOK, HandlerTypeOK

\* Until the first attempt is sent nothing has been delivered, and the request ends
\* with no attempt open unless the insertion of one was hit.
LEMMA OpeningStep ==
    ASSUME CoreInv, NEW q \in Requests, DeliveryInv(q),
           Receive(q) \/ Create(q) \/ Resolve(q) \/ Attach(q) \/ StartAttempt(q)
    PROVE  DeliveryInv(q)'
  <1> USE HandlerTypes
  <1>0. RowsInv(q) /\ HandlerInv(q) /\ RouteInv(q)
    BY DEF CoreInv
  <1>1. /\ stream'[q] = "none" /\ stream[q] = "none" /\ reply[q] = "none"
        /\ SoundResult(result[q])
    BY DEF DeliveryInv, ContextCalls, Over, Receive, Create, Resolve, Attach, StartAttempt
  <1>2. pc[q] \in {"idle", "create", "resolve", "attach"} => Unfinished(q) = {}
    <2>1. pc[q] \in {"idle", "create", "resolve", "attach"} => boundTarget[q] = NoTarget
      BY <1>0 DEF HandlerInv, RowsInv
    <2>2. boundTarget[q] = NoTarget => attemptCount[q] = 0
      BY <1>0 DEF RowsInv
    <2> QED BY <1>0, <2>1, <2>2, NoneOpen
  <1>3. CASE Receive(q)
    <2>1. /\ pc'[q] \in {"create", "done"} /\ reply'[q] \in {"none", "error"}
          /\ pc'[q] = "create" => reply'[q] = "none"
          /\ result' = result /\ status' = status /\ status[q] = "absent"
      BY <1>0, <1>1, <1>3 DEF Receive, WriteError, HandlerInv, ledgerVars, requestVars
    <2> QED BY <1>1, <2>1 DEF DeliveryInv, ContextCalls, Over, Ending
  <1>4. CASE Create(q)
    <2>1. PICK o \in {"ok", "fail", "lost"} :
             /\ ContextOutcome(q, TRUE, o)
             /\ IF o = "fail" THEN UNCHANGED requestVars ELSE CreateInferenceRequest(q)
             /\ \/ /\ o = "ok" /\ pc' = [pc EXCEPT ![q] = "resolve"]
                   /\ UNCHANGED <<result, reply>>
                \/ /\ o = "ok" /\ UNCHANGED reply
                   /\ \E class \in {"insufficient_scope", "route_forbidden"} :
                         Finish(q, Outcome("blocked", class, "none"))
                \/ /\ o # "ok" /\ pc' = [pc EXCEPT ![q] = "done"]
                   /\ WriteError(q) /\ UNCHANGED result
      BY <1>4 DEF Create
    <2>2. /\ ctx'[q] = "live" => ctx[q] = "live"
          /\ o # "ok" /\ ctx'[q] = "live" => faults' > 0
      BY <2>1, OutcomeFacts
    <2>3. /\ status[q] = "absent" /\ attStatus' = attStatus /\ pc[q] = "create"
          /\ o = "fail" => status'[q] = "absent"
      BY <1>0, <1>4, <2>1 DEF Create, HandlerInv, requestVars, CreateInferenceRequest
    <2>4. Unfinished(q)' = {}
      BY <1>2, <2>3 DEF Unfinished
    <2>5. \/ pc'[q] = "resolve" /\ result' = result /\ reply' = reply
          \/ /\ pc'[q] = "finish" /\ SoundResult(result'[q]) /\ reply' = reply
             /\ result'[q].status = "blocked" /\ result'[q].health = "none"
          \/ pc'[q] = "done" /\ o # "ok" /\ reply'[q] = "error" /\ result' = result
      <3>1. {"insufficient_scope", "route_forbidden"} \subseteq ErrorClasses
        BY DEF ErrorClasses, RouteClasses
      <3>2. \A class \in {"insufficient_scope", "route_forbidden"} :
               /\ SoundResult(Outcome("blocked", class, "none"))
               /\ Outcome("blocked", class, "none").status = "blocked"
               /\ Outcome("blocked", class, "none").health = "none"
        BY <3>1, SoundResults DEF Outcome
      <3> QED BY <1>1, <2>1, <3>2 DEF Finish, WriteError, Committed
    <2> QED BY <1>1, <2>2, <2>3, <2>4, <2>5 DEF DeliveryInv, ContextCalls, Over, Ending
  <1>5. CASE Resolve(q)
    <2>1. /\ attStatus' = attStatus /\ reply' = reply /\ pc[q] = "resolve"
          /\ \/ pc'[q] = "attach" /\ result' = result
             \/ /\ pc'[q] = "finish" /\ SoundResult(result'[q])
                /\ result'[q].status = "blocked" /\ result'[q].health = "none"
      <3>1. {"route_unavailable", ResolveRouteError(q)} \subseteq ErrorClasses
        BY DEF ResolveRouteError, ErrorClasses, RouteClasses
      <3>2. \A class \in ErrorClasses :
               /\ SoundResult(Outcome("blocked", class, "none"))
               /\ Outcome("blocked", class, "none").status = "blocked"
               /\ Outcome("blocked", class, "none").health = "none"
        BY SoundResults DEF Outcome
      <3>3. \/ pc' = [pc EXCEPT ![q] = "attach"] /\ UNCHANGED result
            \/ \E class \in ErrorClasses : Finish(q, Outcome("blocked", class, "none"))
        BY <1>5, <3>1 DEF Resolve
      <3> QED BY <1>5, <3>2, <3>3 DEF Resolve, Finish, ledgerVars, requestVars
    <2>2. Unfinished(q)' = {}
      BY <1>2, <2>1 DEF Unfinished
    <2> QED BY <1>1, <2>1, <2>2 DEF DeliveryInv, ContextCalls, Over, Ending
  <1>6. CASE Attach(q)
    <2>1. /\ attStatus' = attStatus /\ reply' = reply /\ pc[q] = "attach" /\ target' = target
          /\ \/ pc'[q] = "attempt" /\ result' = result
             \/ /\ pc'[q] = "finish" /\ SoundResult(result'[q]) /\ result'[q].status = "failed"
                /\ result'[q].health # "none" =>
                      target[q] = boundTarget'[q] /\ target[q] \in Targets
      <3>1. RouteOf[q] \in Routes /\ target[q] = routeTarget[RouteOf[q]] /\ target[q] \in Targets
        BY <1>0, <1>6 DEF Attach, RouteInv, Routed, CoreInv, TypeOK, RegistryTypeOK
      <3>2. /\ \A res \in Unprepared(q) : SoundResult(res) /\ res.status = "failed"
            /\ SoundResult(LedgerError) /\ LedgerError.status = "failed" /\ LedgerError.health = "none"
        BY SoundResults DEF Unprepared, Outcome, LedgerError
      <3>3. \/ SetInferenceRequestRoute(q) /\ pc' = [pc EXCEPT ![q] = "attempt"] /\ UNCHANGED result
            \/ SetInferenceRequestRoute(q) /\ \E res \in Unprepared(q) : Finish(q, res)
            \/ Finish(q, LedgerError)
        BY <1>6 DEF Attach
      <3>4. attStatus' = attStatus /\ reply' = reply /\ pc[q] = "attach" /\ target' = target
        BY <1>6 DEF Attach, SetInferenceRequestRoute, requestVars
      <3> QED BY <3>1, <3>2, <3>3, <3>4 DEF Finish, SetInferenceRequestRoute
    <2>2. Unfinished(q)' = {}
      BY <1>2, <2>1 DEF Unfinished
    <2> QED BY <1>1, <2>1, <2>2 DEF DeliveryInv, ContextCalls, Over, Ending
  <1>7. CASE StartAttempt(q)
    <2>1. PICK o \in {"ok", "fail", "lost"} :
             /\ ContextOutcome(q, CreateProviderAttemptOk(q, target[q], number[q]), o)
             /\ IF o = "ok" THEN pc' = [pc EXCEPT ![q] = "upstream"] /\ UNCHANGED result
                            ELSE Finish(q, LedgerError)
      BY <1>7 DEF StartAttempt
    <2>2. CreateProviderAttemptOk(q, target[q], number[q])
      BY <1>7, NextAttemptOk DEF StartAttempt
    <2>3. o # "ok" /\ ctx'[q] = "live" => faults' > 0
      BY <2>1, <2>2, OutcomeFacts
    <2>4. /\ reply' = reply
          /\ \/ pc'[q] = "upstream" /\ result' = result
             \/ /\ pc'[q] = "finish" /\ o # "ok" /\ SoundResult(result'[q])
                /\ result'[q].status = "failed" /\ result'[q].health = "none"
      <3>1. SoundResult(LedgerError) /\ LedgerError.status = "failed" /\ LedgerError.health = "none"
        BY SoundResults DEF Outcome, LedgerError
      <3> QED BY <1>7, <2>1, <3>1 DEF StartAttempt, Finish
    <2> QED BY <1>1, <2>3, <2>4 DEF DeliveryInv, ContextCalls, Over, Ending, Committed
  <1> QED BY <1>3, <1>4, <1>5, <1>6, <1>7

\* A stream is complete exactly when its attempt is about to be closed as succeeded.
LEMMA CallingStep ==
    ASSUME CoreInv, NEW q \in Requests, DeliveryInv(q),
           \/ UpstreamBuffered(q) \/ StreamFrame(q) \/ StreamWriteError(q) \/ StreamDone(q)
           \/ StreamFailure(q) \/ CloseAttempt(q) \/ Backoff(q)
    PROVE  DeliveryInv(q)'
  <1> USE HandlerTypes
  <1>0. RowsInv(q) /\ HandlerInv(q) /\ SoundResult(result[q])
    BY DEF CoreInv, DeliveryInv
  <1>1. reply' = reply /\ reply[q] = "none"
    BY DEF DeliveryInv, Over, UpstreamBuffered, StreamFrame, StreamWriteError, StreamDone,
           StreamFailure, CloseAttempt, Backoff
  <1>2. \A res : Close(q, res) => pc'[q] = "close" /\ result'[q] = res
    BY DEF Close
  <1>3. /\ \A u \in UsageShapes : Success(u).status = "succeeded" /\ Success(u).usage = u
        /\ \A c \in UpstreamClasses, b \in BOOLEAN : UpstreamFailure(c, b).status = "failed"
        /\ Cancelled.status = "cancelled" /\ Cancelled.health = "none"
        /\ LedgerError.status = "failed" /\ LedgerError.health = "none" /\ ~LedgerError.retryable
    BY DEF Success, UpstreamFailure, Cancelled, LedgerError, Outcome
  <1>4. CASE UpstreamBuffered(q)
    <2>1. \E res : Close(q, res) /\ SoundResult(res)
      BY <1>4, SoundResults, GatewayAssumption DEF UpstreamBuffered
    <2>2. q \notin Streaming /\ stream[q] = "none" /\ stream' = stream
      BY <1>4 DEF UpstreamBuffered, DeliveryInv
    <2> QED BY <1>1, <1>2, <2>1, <2>2 DEF DeliveryInv, ContextCalls, Over, Ending
  <1>5. CASE StreamFrame(q)
    BY <1>0, <1>1, <1>5 DEF StreamFrame, DeliveryInv, ContextCalls, Over, Ending
  <1>6. CASE StreamWriteError(q) \/ StreamFailure(q)
    <2>1. /\ stream'[q] # "done" /\ q \in Streaming
          /\ \E res : Close(q, res) /\ SoundResult(res) /\ res.status # "succeeded"
      <3>1. CASE StreamWriteError(q)
        BY <1>3, <3>1, SoundResults DEF StreamWriteError
      <3>2. CASE StreamFailure(q)
        <4>1. stream[q] # "done"
          BY <3>2 DEF StreamFailure, DeliveryInv
        <4>2. Committed(q) \in BOOLEAN
          BY DEF Committed
        <4> QED BY <1>3, <3>2, <4>1, <4>2, SoundResults, GatewayAssumption DEF StreamFailure
      <3> QED BY <1>6, <3>1, <3>2
    <2> QED BY <1>1, <1>2, <2>1 DEF DeliveryInv, ContextCalls, Over, Ending
  <1>7. CASE StreamDone(q)
    <2>1. /\ stream'[q] = "done" /\ q \in Streaming
          /\ \E res : /\ Close(q, res) /\ SoundResult(res)
                      /\ res.status = "succeeded" /\ res.usage # "total_only"
      BY <1>3, <1>7, SoundResults, GatewayAssumption DEF StreamDone
    <2> QED BY <1>1, <1>2, <2>1 DEF DeliveryInv, ContextCalls, Over, Ending
  <1>8. CASE CloseAttempt(q)
    <2>1. PICK o \in {"ok", "fail", "lost"} :
             /\ DetachedOutcome(CompleteProviderAttemptOk(q, number[q]), o)
             /\ IF o = "fail" THEN UNCHANGED requestVars
                ELSE CompleteProviderAttempt(q, number[q], result[q].status, result[q].class)
             /\ AfterAttempt(q, IF o = "ok" THEN result[q] ELSE LedgerError)
      BY <1>8 DEF CloseAttempt
    <2>2. /\ pc[q] = "close" /\ attStatus[q][number[q]] = "in_progress"
          /\ status[q] = "in_progress" /\ attemptCount[q] = number[q]
          /\ number[q] \in 1 .. 4 /\ target[q] = boundTarget[q] /\ target[q] \in Targets
          /\ stream' = stream /\ target' = target /\ boundTarget' = boundTarget
          /\ result[q].status \in Terminal
      BY <1>0, <1>8, <2>1
      DEF CloseAttempt, HandlerInv, Routed, Calling, CoreInv, TypeOK, HandlerTypeOK,
          AttemptNumbers, CompleteProviderAttempt, requestVars, Result
    <2>3. o # "ok" => faults' > 0
      <3>1. CompleteProviderAttemptOk(q, number[q])
        BY <2>2 DEF CompleteProviderAttemptOk
      <3> QED BY <2>1, <3>1, OutcomeFacts
    <2>4. o = "ok" => Unfinished(q)' = {}
      <3>1. o = "ok" => attStatus'[q] = [attStatus[q] EXCEPT ![number[q]] = result[q].status]
        BY <2>1 DEF CompleteProviderAttempt
      <3>2. \A n \in AttemptNumbers : n # number[q] => attStatus[q][n] # "in_progress"
        BY <1>0, <2>2 DEF RowsInv, Retried, AttemptNumbers
      <3>3. result[q].status # "in_progress" /\ number[q] \in AttemptNumbers
        BY <2>2 DEF Terminal, AttemptNumbers
      <3> QED BY <3>1, <3>2, <3>3 DEF Unfinished
    <2>5. /\ pc'[q] \in {"backoff", "finish"}
          /\ pc'[q] = "backoff" => stream[q] = "none"
          /\ \/ o = "ok" /\ result'[q] = result[q]
             \/ /\ SoundResult(result'[q]) /\ result'[q].status = "failed"
                /\ result'[q].health = "none"
                /\ o # "ok" \/ q \notin Streaming
      <3> DEFINE other == Outcome("failed", "invalid_upstream_response", "none")
      <3>1. SoundResult(other) /\ other.status = "failed" /\ other.health = "none"
        BY SoundResults DEF Outcome
      <3>2. SoundResult(LedgerError)
        BY SoundResults
      <3>3. CASE o = "ok"
        BY <2>1, <3>1, <3>3 DEF AfterAttempt, Finish, Committed
      <3>4. CASE o # "ok"
        <4>1. pc' = [pc EXCEPT ![q] = "finish"] /\ result' = [result EXCEPT ![q] = LedgerError]
          BY <1>3, <2>1, <3>4 DEF AfterAttempt, Finish
        <4> QED BY <1>3, <3>2, <3>4, <4>1
      <3> QED BY <3>3, <3>4
    <2>6. /\ q \in Streaming /\ result[q].status = "succeeded" => stream[q] = "done"
          /\ stream[q] = "done" => result[q].status = "succeeded" /\ result[q].usage # "total_only"
          /\ q \notin Streaming => stream[q] = "none"
      BY <2>2 DEF DeliveryInv
    <2> QED BY <1>0, <1>1, <2>2, <2>3, <2>4, <2>5, <2>6 DEF DeliveryInv, ContextCalls, Over, Ending
  <1>9. CASE Backoff(q)
    <2>1. /\ stream[q] = "none" /\ stream' = stream /\ ctx' = ctx
          /\ \/ pc'[q] = "attempt" /\ result' = result
             \/ pc'[q] = "finish" /\ result'[q] = Cancelled /\ ctx[q] = "cancelled"
      BY <1>9 DEF Backoff, DeliveryInv, Finish
    <2>2. SoundResult(Cancelled)
      BY SoundResults
    <2> QED BY <1>0, <1>1, <1>3, <2>1, <2>2
          DEF DeliveryInv, ContextCalls, Over, Ending, Committed
  <1> QED BY <1>4, <1>5, <1>6, <1>7, <1>8, <1>9

\* A completion is refused only when an attempt is open or the usage is a mere total.
LEMMA CompletionOk ==
    ASSUME CoreInv, NEW q \in Requests, DeliveryInv(q), pc[q] = "finish",
           Unfinished(q) = {}, result[q].usage # "total_only"
    PROVE  CompleteInferenceRequestOk(q, result[q].status, result[q].usage)
  <1>1. status[q] = "in_progress" /\ attemptCount[q] = Cardinality(Attempted(q))
    BY AttemptedCount DEF CoreInv, HandlerInv
  <1>2. RequestUsageOk(result[q].status, result[q].usage)
    <2>1. result[q].usage \in UsageShapes
      BY HandlerTypes DEF Result
    <2> QED BY <2>1 DEF RequestUsageOk, UsageShapes, DeliveryInv, SoundResult
  <1> QED BY <1>1, <1>2 DEF CompleteInferenceRequestOk

\* The answer follows the row.
LEMMA EndingStep ==
    ASSUME CoreInv, NEW q \in Requests, DeliveryInv(q),
           FinishRequest(q) \/ MarkHealth(q) \/ Respond(q) \/ ClientCancel(q)
    PROVE  DeliveryInv(q)'
  <1> USE HandlerTypes
  <1>0. SoundResult(result[q]) /\ result' = result /\ stream' = stream /\ target' = target
        /\ attStatus' = attStatus /\ boundTarget' = boundTarget /\ result[q].status \in Terminal
    BY DEF DeliveryInv, FinishRequest, CompleteInferenceRequest, MarkHealth, Respond,
           ClientCancel, ledgerVars, requestVars, Result
  <1>1. CASE FinishRequest(q)
    <2> DEFINE ok == CompleteInferenceRequestOk(q, result[q].status, result[q].usage)
    <2>1. PICK o \in {"ok", "fail", "lost"} :
             /\ DetachedOutcome(ok, o)
             /\ IF o = "fail" THEN UNCHANGED requestVars
                ELSE CompleteInferenceRequest(q, result[q].status, result[q].class, result[q].usage)
             /\ IF o = "ok"
                THEN /\ pc' = [pc EXCEPT ![q] =
                          IF result[q].health = "none" THEN "respond" ELSE "health"]
                     /\ UNCHANGED reply
                ELSE pc' = [pc EXCEPT ![q] = "done"] /\ WriteError(q)
      BY <1>1 DEF FinishRequest
    <2>2. /\ o # "ok" => ~ok \/ faults' > 0
          /\ faults' = faults \/ faults' > 0
          /\ faults' \in Nat
          /\ o = "lost" => faults' > 0
      <3>1. ok \in BOOLEAN
        BY DEF CompleteInferenceRequestOk
      <3> HIDE DEF ok
      <3> QED BY <2>1, <3>1, OutcomeFacts DEF DetachedOutcome
    <2>3. pc[q] = "finish" /\ reply[q] = "none" /\ ctx' = ctx
      BY <1>1 DEF FinishRequest, DeliveryInv, Over
    <2>4. ~ok => \/ faults > 0 \/ (ctx[q] # "live" /\ stream[q] = "none")
                 \/ result[q].usage = "total_only"
      <3>1. faults = 0 /\ (ctx[q] = "live" \/ stream[q] # "none") => Unfinished(q) = {}
        BY <2>3 DEF DeliveryInv, Committed
      <3>2. Unfinished(q) = {} /\ result[q].usage # "total_only" => ok
        BY <2>3, CompletionOk
      <3> HIDE DEF ok
      <3> QED BY <3>1, <3>2
    <2>5. stream[q] = "done" /\ faults = 0 =>
             result[q].status = "succeeded" /\ result[q].usage # "total_only"
      BY <2>3 DEF DeliveryInv, Ending
    <2>6. \/ /\ pc'[q] \in {"respond", "health"} /\ o = "ok" /\ reply' = reply
             /\ status'[q] = result[q].status /\ errorClass'[q] = result[q].class
             /\ usage'[q] = result[q].usage
          \/ /\ pc'[q] = "done" /\ o # "ok" /\ reply'[q] # "body"
      BY <2>1, <2>3 DEF CompleteInferenceRequest, WriteError
    <2> HIDE DEF ok
    <2>7. CASE pc'[q] = "done" /\ o # "ok" /\ reply'[q] # "body"
      BY <1>0, <2>2, <2>3, <2>4, <2>5, <2>7 DEF DeliveryInv, ContextCalls, Over, Ending
    <2>8. CASE /\ pc'[q] \in {"respond", "health"} /\ o = "ok" /\ reply' = reply
               /\ status'[q] = result[q].status /\ errorClass'[q] = result[q].class
               /\ usage'[q] = result[q].usage
      BY <1>0, <2>2, <2>3, <2>5, <2>8 DEF DeliveryInv, ContextCalls, Over, Ending
    <2> QED BY <2>6, <2>7, <2>8
  <1>2. CASE MarkHealth(q)
    <2>1. /\ pc[q] = "health" /\ pc'[q] = "respond" /\ reply' = reply
          /\ UNCHANGED requestVars
          /\ faults' = faults \/ faults' > 0
      BY <1>2, OutcomeFacts DEF MarkHealth
    <2> QED BY <1>0, <2>1, OutcomeFacts DEF DeliveryInv, ContextCalls, Over, Ending, requestVars
  <1>3. CASE Respond(q)
    <2>1. /\ pc[q] = "respond" /\ pc'[q] = "done" /\ UNCHANGED requestVars /\ faults' = faults
          /\ reply'[q] = "body" => result[q].status = "succeeded"
      BY <1>3 DEF Respond, WriteError, ledgerVars, DeliveryInv, Over
    <2>2. status[q] = result[q].status /\ usage[q] = result[q].usage /\ status[q] # "in_progress"
      BY <1>0, <2>1 DEF DeliveryInv, Terminal
    <2> QED BY <1>0, <2>1, <2>2 DEF DeliveryInv, ContextCalls, Over, Ending, requestVars
  <1>4. CASE ClientCancel(q)
    <2>1. /\ pc' = pc /\ reply' = reply /\ faults' = faults /\ UNCHANGED requestVars
          /\ ctx[q] = "live" /\ ctx'[q] # "live"
      BY <1>4 DEF ClientCancel, ledgerVars
    <2>2. Unfinished(q)' = Unfinished(q) /\ (Committed(q)' <=> Committed(q))
      BY <1>0 DEF Unfinished, Committed
    <2> QED BY <1>0, <2>1, <2>2 DEF DeliveryInv, requestVars
  <1> QED BY <1>1, <1>2, <1>3, <1>4

\* Every step preserves what is promised of the answers.
LEMMA DeliveryStep ==
    GatewayInv /\ [Next]_vars => \A r \in Requests : DeliveryInv(r)'
  <1> SUFFICES ASSUME GatewayInv, [Next]_vars, NEW r \in Requests PROVE DeliveryInv(r)'
    OBVIOUS
  <1>0. CoreInv /\ \A q \in Requests : DeliveryInv(q)
    BY DEF GatewayInv
  <1>1. ASSUME NEW q \in Requests, Receive(q) \/ Handler(q) \/ ClientCancel(q)
        PROVE  DeliveryInv(r)'
    <2>1. CASE r # q
      BY <1>0, <1>1, <2>1, OthersUnseen, DeliveryFrame
    <2>2. DeliveryInv(q)'
      BY <1>0, <1>1, OpeningStep, CallingStep, EndingStep DEF Handler
    <2> QED BY <2>1, <2>2
  <1>2. CASE Crash
    <2>1. /\ faults' > 0 /\ faults' \in Nat /\ UNCHANGED requestVars
          /\ UNCHANGED <<ctx, target, result, stream, reply>>
          /\ pc'[r] = pc[r] \/ (pc'[r] = "dead" /\ pc[r] \notin Over)
      BY <1>0, <1>2, HandlerTypes DEF Crash, ledgerVars, Over
    <2>2. CASE pc'[r] = pc[r]
      BY <1>0, <2>1, <2>2, DeliveryFrame DEF Unseen, requestVars
    <2>3. CASE pc'[r] = "dead" /\ pc[r] \notin Over
      BY <1>0, <2>1, <2>3 DEF DeliveryInv, ContextCalls, Over, Ending, requestVars
    <2> QED BY <2>1, <2>2, <2>3
  <1>3. CASE Registry \/ UNCHANGED vars
    <2>1. UNCHANGED <<requestVars, handlerVars>>
      BY <1>3
      DEF Registry, ProvisionRetarget, ProvisionCommit, ProvisionRollback, ProvisionSame,
          OperatorToggle, RecordProbeObservation, vars, ledgerVars
    <2>2. Unseen(r) /\ faults' = faults /\ faults \in Nat
      BY <1>0, <2>1, HandlerTypes DEF Unseen, requestVars, handlerVars
    <2> QED BY <1>0, <2>2, DeliveryFrame
  <1> QED BY <1>1, <1>2, <1>3 DEF Next

----------------------------------------------------------------------------
(* The theorems.                                                           *)

\* Rows, handler, route and answer of every request fit together in every reachable
\* state (ServeHTTP, serveStreaming and the triggers of the ledger).
THEOREM GatewayInvariance == Spec => []GatewayInv
  <1>1. Init => GatewayInv
    <2> SUFFICES ASSUME Init, NEW r \in Requests PROVE DeliveryInv(r)
      BY InvInit DEF GatewayInv
    <2>1. SoundResult(LedgerError)
      BY SoundResults
    <2> QED BY <2>1 DEF Init, LedgerInit, DeliveryInv, ContextCalls, Over, Ending
  <1>2. GatewayInv /\ [Next]_vars => GatewayInv'
    BY InvStep, DeliveryStep DEF GatewayInv
  <1> QED BY <1>1, <1>2, PTL DEF Spec

\* A handler that is gone leaves its row in progress only after a fault, a client
\* that left, or the refused usage report (finish and detachedContext).
THEOREM StrandedRows == Spec => []StrandedOnlyByFault
  <1>1. GatewayInv => StrandedOnlyByFault
    BY DEF GatewayInv, DeliveryInv, StrandedOnlyByFault
  <1> QED BY <1>1, GatewayInvariance, PTL

\* Who has the complete answer is charged for it unless a fault intervened, and a
\* body is sent for a succeeded row only (finish before Write in ServeHTTP).
THEOREM Metering == Spec => []DeliveredIsMetered
  <1>1. GatewayInv => DeliveredIsMetered
    BY DEF GatewayInv, DeliveryInv, DeliveredIsMetered
  <1> QED BY <1>1, GatewayInvariance, PTL

\* Handlers write a target's health only as evidence about that target
\* (failureHealthStatus and its call sites).
THEOREM HealthWrites == Spec => HealthEvidence
  <1>1. GatewayInv /\ [Next]_vars => [AllEvidence]_vars
    <2> SUFFICES ASSUME GatewayInv, Next, NEW r \in Requests, pc[r] = "health", pc'[r] = "respond"
                 PROVE  /\ status[r] \in {"succeeded", "failed"}
                        /\ health' # health =>
                             /\ health' = [health EXCEPT ![boundTarget[r]] =
                                    IF status[r] = "succeeded" THEN "operational" ELSE "degraded"]
                             /\ errorClass[r] # "ledger_error"
      BY DEF AllEvidence, EvidenceOf
    <2>1. CoreInv /\ DeliveryInv(r) /\ HandlerInv(r)
      BY DEF GatewayInv, CoreInv
    <2>2. MarkHealth(r)
      <3>1. \A q \in Requests : Receive(q) \/ Handler(q) \/ ClientCancel(q) => q = r
        BY <2>1, OthersUntouched
      <3>2. ~Crash /\ ~Registry
        BY DEF Crash, Registry, handlerVars
      <3>3. Receive(r) \/ Handler(r) \/ ClientCancel(r)
        BY <3>1, <3>2 DEF Next
      <3> QED BY <3>3
            DEF Handler, Receive, ClientCancel, Create, Resolve, Attach, StartAttempt,
                UpstreamBuffered, StreamFrame, StreamWriteError, StreamDone, StreamFailure,
                CloseAttempt, Backoff, FinishRequest, Respond
    <2>3. /\ result[r].health # "none" /\ target[r] = boundTarget[r]
          /\ status[r] = result[r].status /\ errorClass[r] = result[r].class
          /\ SoundResult(result[r])
      BY <2>1 DEF HandlerInv, DeliveryInv, Ending
    <2>4. health' = health \/ health' = [health EXCEPT ![target[r]] = result[r].health]
      BY <2>2 DEF MarkHealth, UpdateTargetHealth
    <2> QED BY <2>3, <2>4 DEF SoundResult
  <1> QED BY <1>1, GatewayInvariance, PTL DEF Spec, HealthEvidence

----------------------------------------------------------------------------
(* The gateway implements the metered request.                             *)

\* The abstract state of a request.
LEMMA ViewsAt ==
    ASSUME NEW r \in Requests
    PROVE  /\ LedgerView[r] = IF status[r] = "in_progress" THEN "open" ELSE status[r]
           /\ CallsView[r] = attemptCount[r]
           /\ reply[r] = "error" => RefusalView[r] = TRUE
           /\ reply[r] # "error" => RefusalView[r] = FALSE
           /\ reply[r] = "body" \/ stream[r] = "done" => OutputView[r] = "all"
           /\ reply[r] # "body" /\ stream[r] = "partial" => OutputView[r] = "part"
           /\ reply[r] # "body" /\ stream[r] = "none" => OutputView[r] = "nothing"
           /\ LedgerView'[r] = IF status'[r] = "in_progress" THEN "open" ELSE status'[r]
           /\ CallsView'[r] = attemptCount'[r]
           /\ reply'[r] = "error" => RefusalView'[r] = TRUE
           /\ reply'[r] # "error" => RefusalView'[r] = FALSE
           /\ reply'[r] = "body" \/ stream'[r] = "done" => OutputView'[r] = "all"
           /\ reply'[r] # "body" /\ stream'[r] = "partial" => OutputView'[r] = "part"
           /\ reply'[r] # "body" /\ stream'[r] = "none" => OutputView'[r] = "nothing"
  <1>1. /\ reply[r] = "error" => (reply[r] = "error") = TRUE
        /\ reply[r] # "error" => (reply[r] = "error") = FALSE
        /\ reply'[r] = "error" => (reply'[r] = "error") = TRUE
        /\ reply'[r] # "error" => (reply'[r] = "error") = FALSE
    OBVIOUS
  <1>2. /\ RefusalView[r] = (reply[r] = "error")
        /\ RefusalView'[r] = (reply'[r] = "error")
    BY Zenon DEF RefusalView
  <1> QED BY <1>1, <1>2 DEF LedgerView, CallsView, OutputView

\* A step that one request q sees changes the abstract state at q only.
LEMMA ViewsOfOne ==
    ASSUME NEW q \in Requests,
           \A r \in Requests \ {q} :
               /\ status'[r] = status[r] /\ attemptCount'[r] = attemptCount[r]
               /\ reply'[r] = reply[r] /\ stream'[r] = stream[r]
    PROVE  /\ LedgerView' = [LedgerView EXCEPT ![q] = LedgerView'[q]]
           /\ CallsView' = [CallsView EXCEPT ![q] = CallsView'[q]]
           /\ OutputView' = [OutputView EXCEPT ![q] = OutputView'[q]]
           /\ RefusalView' = [RefusalView EXCEPT ![q] = RefusalView'[q]]
  BY DEF LedgerView, CallsView, OutputView, RefusalView

\* With nothing new for q the step is a stuttering step.
LEMMA Stutter ==
    ASSUME \A r \in Requests : /\ status'[r] = status[r] /\ attemptCount'[r] = attemptCount[r]
                               /\ reply'[r] = reply[r] /\ stream'[r] = stream[r]
    PROVE  UNCHANGED Metered!mvars
  BY DEF Metered!mvars, LedgerView, CallsView, OutputView, RefusalView

\* The initial states of the gateway are initial states of the metered request.
LEMMA MeteredInit == Init => Metered!MInit
  <1> SUFFICES ASSUME Init PROVE Metered!MInit
    OBVIOUS
  <1>1. /\ LedgerView = [r \in Requests |-> "absent"]
        /\ CallsView = [r \in Requests |-> 0]
        /\ OutputView = [r \in Requests |-> "nothing"]
    BY DEF Init, LedgerInit, LedgerView, CallsView, OutputView
  <1>2. RefusalView = [r \in Requests |-> FALSE]
    <2>1. \A r \in Requests : (reply[r] = "error") = FALSE
      BY DEF Init
    <2> QED BY <2>1 DEF RefusalView
  <1> QED BY <1>1, <1>2 DEF Metered!MInit

\* What a handler does to the abstract state of its request.
LEMMA MeteredStep ==
    ASSUME GatewayInv, NEW q \in Requests, Receive(q) \/ Handler(q) \/ ClientCancel(q)
    PROVE  Metered!MNext \/ UNCHANGED Metered!mvars
  <1>0. /\ CoreInv /\ DeliveryInv(q) /\ HandlerInv(q) /\ RowsInv(q)
    BY DEF GatewayInv, CoreInv
  <1>T. /\ status \in [Requests -> RowStatuses] /\ attemptCount \in [Requests -> Nat]
        /\ pc \in [Requests -> Places]
        /\ stream \in [Requests -> {"none", "partial", "done"}]
        /\ reply \in [Requests -> {"none", "body", "error"}]
    BY <1>0 DEF CoreInv, TypeOK, RequestTypeOK, HandlerTypeOK
  <1>1. \A r \in Requests \ {q} :
               /\ status'[r] = status[r] /\ attemptCount'[r] = attemptCount[r]
               /\ reply'[r] = reply[r] /\ stream'[r] = stream[r]
    BY <1>0, OthersUntouched, OthersUnseen DEF Untouched, Unseen
  <1>2. /\ LedgerView' = [LedgerView EXCEPT ![q] = LedgerView'[q]]
        /\ CallsView' = [CallsView EXCEPT ![q] = CallsView'[q]]
        /\ OutputView' = [OutputView EXCEPT ![q] = OutputView'[q]]
        /\ RefusalView' = [RefusalView EXCEPT ![q] = RefusalView'[q]]
    BY <1>1, ViewsOfOne
  <1>3. /\ LedgerView'[q] = LedgerView[q] => LedgerView' = LedgerView
        /\ CallsView'[q] = CallsView[q] => CallsView' = CallsView
        /\ OutputView'[q] = OutputView[q] => OutputView' = OutputView
        /\ RefusalView'[q] = RefusalView[q] => RefusalView' = RefusalView
    <2>1. /\ [LedgerView EXCEPT ![q] = LedgerView[q]] = LedgerView
          /\ [CallsView EXCEPT ![q] = CallsView[q]] = CallsView
          /\ [OutputView EXCEPT ![q] = OutputView[q]] = OutputView
          /\ [RefusalView EXCEPT ![q] = RefusalView[q]] = RefusalView
      BY DEF LedgerView, CallsView, OutputView, RefusalView
    <2> QED BY <1>2, <2>1
  <1>4. ASSUME status'[q] = status[q], attemptCount'[q] = attemptCount[q],
               reply'[q] = reply[q], stream'[q] = stream[q]
        PROVE  UNCHANGED Metered!mvars
    BY <1>1, <1>4, Stutter
  <1>5. ASSUME status'[q] = status[q], attemptCount'[q] = attemptCount[q], stream'[q] = "none",
               stream[q] = "none", reply[q] = "none", reply'[q] = "error"
        PROVE  Metered!MNext
    <2>1. Metered!Refuse(q)
      BY <1>2, <1>3, <1>5, ViewsAt, ZenonT(40) DEF Metered!Refuse
    <2> QED BY <2>1 DEF Metered!MNext
  <1>6. CASE Resolve(q) \/ Attach(q) \/ UpstreamBuffered(q) \/ StreamFailure(q) \/ CloseAttempt(q)
             \/ Backoff(q) \/ MarkHealth(q) \/ ClientCancel(q)
    BY <1>4, <1>6
    DEF Resolve, Attach, UpstreamBuffered, StreamFailure, CloseAttempt, Backoff, MarkHealth,
        ClientCancel, ledgerVars, requestVars, SetInferenceRequestRoute, CompleteProviderAttempt
  <1>7. CASE Receive(q)
    <2>1. /\ stream[q] = "none" /\ reply[q] = "none" /\ stream' = stream
          /\ status' = status /\ attemptCount' = attemptCount
          /\ reply' = reply \/ reply'[q] = "error"
      BY <1>0, <1>T, <1>7
      DEF Receive, DeliveryInv, Over, WriteError, Committed, ledgerVars, requestVars
    <2> QED BY <1>4, <1>5, <2>1
  <1>8. CASE Create(q)
    <2>1. /\ status[q] = "absent" /\ stream[q] = "none" /\ reply[q] = "none" /\ stream' = stream
          /\ attemptCount' = attemptCount
          /\ reply' = reply \/ reply'[q] = "error"
          /\ \/ status' = status
             \/ status'[q] = "in_progress"
      BY <1>0, <1>T, <1>8
      DEF Create, CreateInferenceRequest, DeliveryInv, HandlerInv, Over, ContextCalls, WriteError,
          Committed, ledgerVars, requestVars
    <2>2. CASE status' = status
      BY <1>4, <1>5, <2>1, <2>2
    <2>3. CASE status'[q] = "in_progress"
      <3>1. /\ LedgerView[q] = "absent" /\ LedgerView'[q] = "open" /\ RefusalView[q] = FALSE
            /\ CallsView'[q] = CallsView[q] /\ OutputView'[q] = OutputView[q]
            /\ RefusalView'[q] = RefusalView[q] \/ RefusalView'[q] = TRUE
        <4>1. reply'[q] # "body"
          BY <2>1
        <4> QED BY <2>1, <2>3, <4>1, ViewsAt
      <3>2. Metered!Open(q)
        BY <1>2, <1>3, <3>1 DEF Metered!Open
      <3> QED BY <3>2 DEF Metered!MNext
    <2> QED BY <2>1, <2>2, <2>3
  <1>9. CASE StartAttempt(q)
    <2>1. /\ status[q] = "in_progress" /\ stream[q] = "none" /\ reply[q] = "none"
          /\ stream' = stream /\ reply' = reply /\ status' = status
          /\ \/ attemptCount' = attemptCount
             \/ attemptCount'[q] = attemptCount[q] + 1
      BY <1>0, <1>T, <1>9
      DEF StartAttempt, CreateProviderAttempt, DeliveryInv, HandlerInv, Routed, Over,
          ContextCalls, requestVars
    <2>2. attemptCount[q] < 4
      <3>1. /\ attemptCount[q] = number[q] - 1 /\ number[q] <= MaxAttempts[target[q]]
            /\ target[q] \in Targets /\ number[q] \in 1 .. 4
        BY <1>0, <1>9
        DEF StartAttempt, HandlerInv, Routed, Calling, CoreInv, TypeOK, HandlerTypeOK, AttemptNumbers
      <3> QED BY <3>1
    <2>3. CASE attemptCount'[q] = attemptCount[q] + 1
      <3>1. Metered!CallProvider(q)
        BY <1>2, <1>3, <2>1, <2>2, <2>3, ViewsAt, ZenonT(40) DEF Metered!CallProvider
      <3> QED BY <3>1 DEF Metered!MNext
    <2> QED BY <1>4, <2>1, <2>3
  <1>10. CASE StreamFrame(q) \/ StreamWriteError(q) \/ StreamDone(q)
    <2>1. /\ status[q] = "in_progress" /\ attemptCount[q] > 0 /\ q \in Streaming
          /\ reply[q] = "none" /\ reply' = reply /\ status' = status /\ attemptCount' = attemptCount
          /\ stream[q] \in {"none", "partial"} /\ stream'[q] \in {"partial", "done"}
      <3>1. pc[q] = "upstream" /\ q \in Streaming /\ reply' = reply /\ UNCHANGED ledgerVars
            /\ stream'[q] \in {"partial", "done"}
        BY <1>T, <1>10 DEF StreamFrame, StreamWriteError, StreamDone
      <3>2. number[q] \in 1 .. 4
        BY <1>0 DEF CoreInv, TypeOK, HandlerTypeOK, AttemptNumbers
      <3> QED BY <1>0, <1>T, <3>1, <3>2
            DEF DeliveryInv, HandlerInv, Routed, Calling, Over, ledgerVars, requestVars
    <2>2. CASE stream'[q] = stream[q]
      BY <1>4, <2>1, <2>2
    <2>3. CASE stream'[q] # stream[q]
      <3>1. /\ LedgerView[q] = "open" /\ LedgerView'[q] = LedgerView[q]
            /\ CallsView[q] > 0 /\ CallsView'[q] = CallsView[q]
            /\ RefusalView[q] = FALSE /\ RefusalView'[q] = RefusalView[q]
            /\ \/ OutputView[q] = "nothing" /\ OutputView'[q] = "part"
               \/ OutputView[q] # "all" /\ OutputView'[q] = "all"
        BY <2>1, <2>3, ViewsAt
      <3>2. Metered!Emit(q)
        BY <1>2, <1>3, <2>1, <3>1 DEF Metered!Emit
      <3> QED BY <3>2 DEF Metered!MNext
    <2> QED BY <2>2, <2>3
  <1>11. CASE FinishRequest(q)
    <2>1. /\ status[q] = "in_progress" /\ reply[q] = "none" /\ stream' = stream
          /\ attemptCount' = attemptCount
          /\ reply' = reply \/ (stream[q] = "none" /\ reply'[q] = "error")
          /\ status' = status \/ status'[q] = result[q].status
      BY <1>0, <1>T, <1>11
      DEF FinishRequest, CompleteInferenceRequest, DeliveryInv, HandlerInv, Over, WriteError,
          Committed, requestVars
    <2>2. /\ result[q].status \in Metered!Closed
          /\ result[q].status = "succeeded" =>
                attemptCount[q] > 0 /\ (q \in Streaming => stream[q] = "done")
      BY <1>0, <1>11, HandlerTypes
      DEF FinishRequest, HandlerInv, DeliveryInv, Ending, Result, Terminal, Metered!Closed
    <2>3. CASE status' = status
      BY <1>4, <1>5, <2>1, <2>3
    <2>4. CASE status'[q] = result[q].status
      <3>1. result[q].status # "in_progress"
        BY <2>2 DEF Metered!Closed
      <3>2. LedgerView' = [LedgerView EXCEPT ![q] = result[q].status] /\ LedgerView[q] = "open"
        <4>1. LedgerView'[q] = result[q].status /\ LedgerView[q] = "open"
          BY <2>1, <2>4, <3>1, ViewsAt
        <4> QED BY <1>2, <4>1
      <3>3. result[q].status = "succeeded" =>
               CallsView[q] > 0 /\ (q \in Streaming => OutputView[q] = "all")
        BY <2>2, ViewsAt
      <3>4. CallsView' = CallsView /\ OutputView' = OutputView
        <4>1. stream[q] \in {"none", "partial", "done"}
          BY <1>T
        <4>2. reply[q] # "body" /\ reply'[q] # "body"
          BY <2>1
        <4> QED BY <1>3, <2>1, <4>1, <4>2, ViewsAt
      <3>5. \/ RefusalView' = RefusalView
            \/ OutputView[q] = "nothing" /\ RefusalView' = [RefusalView EXCEPT ![q] = TRUE]
        BY <1>2, <1>3, <2>1, ViewsAt
      <3>6. Metered!CloseRequest(q)
        BY <2>2, <3>2, <3>3, <3>4, <3>5 DEF Metered!CloseRequest
      <3> QED BY <3>6 DEF Metered!MNext
    <2> QED BY <2>1, <2>3, <2>4
  <1>12. CASE Respond(q)
    <2>1. /\ reply[q] = "none" /\ stream' = stream /\ attemptCount' = attemptCount
          /\ status' = status
          /\ \/ reply' = reply \/ (stream[q] = "none" /\ reply'[q] = "error")
             \/ /\ reply'[q] = "body" /\ q \notin Streaming /\ stream[q] = "none"
                /\ status[q] = "succeeded"
      BY <1>0, <1>T, <1>12
      DEF Respond, DeliveryInv, Over, WriteError, Committed, ledgerVars, requestVars
    <2>2. CASE reply'[q] = "body" /\ q \notin Streaming /\ stream[q] = "none" /\ status[q] = "succeeded"
      <3>1. /\ LedgerView[q] = "succeeded" /\ LedgerView'[q] = LedgerView[q]
            /\ CallsView'[q] = CallsView[q] /\ RefusalView[q] = FALSE
            /\ RefusalView'[q] = RefusalView[q]
            /\ OutputView[q] = "nothing" /\ OutputView'[q] = "all"
        BY <2>1, <2>2, ViewsAt
      <3>2. Metered!Answer(q)
        BY <1>2, <1>3, <2>2, <3>1 DEF Metered!Answer
      <3> QED BY <3>2 DEF Metered!MNext
    <2> QED BY <1>4, <1>5, <2>1, <2>2
  <1> QED BY <1>6, <1>7, <1>8, <1>9, <1>10, <1>11, <1>12 DEF Handler

\* The gateway implements the metered request: it is opened before any provider call
\* and closed once, no provider is called after output was sent, and nobody gets both
\* output and an error (ServeHTTP, serveStreaming, streamSink).
THEOREM Implements == Spec => MeteredSpec
  <1>1. GatewayInv /\ [Next]_vars => [Metered!MNext]_(Metered!mvars)
    <2> SUFFICES ASSUME GatewayInv, [Next]_vars PROVE Metered!MNext \/ UNCHANGED Metered!mvars
      OBVIOUS
    <2>1. ASSUME NEW q \in Requests, Receive(q) \/ Handler(q) \/ ClientCancel(q)
          PROVE  Metered!MNext \/ UNCHANGED Metered!mvars
      BY <2>1, MeteredStep
    <2>2. CASE Crash \/ Registry \/ UNCHANGED vars
      <3>1. UNCHANGED <<status, attemptCount, reply, stream>>
        BY <2>2
        DEF Crash, Registry, ProvisionRetarget, ProvisionCommit, ProvisionRollback, ProvisionSame,
            OperatorToggle, RecordProbeObservation, vars, ledgerVars, requestVars, handlerVars
      <3> QED BY <3>1, Stutter
    <2> QED BY <2>1, <2>2 DEF Next
  <1> QED BY <1>1, MeteredInit, GatewayInvariance, PTL DEF Spec, MeteredSpec, Metered!MSpec
=============================================================================
