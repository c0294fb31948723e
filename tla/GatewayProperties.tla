------------------------- MODULE GatewayProperties -------------------------
(***************************************************************************)
(* What makes the gateway and its ledger correct.                          *)
(***************************************************************************)
EXTENDS Gateway

\* A request's provider calls tell one story: rows 1 .. attempt_count exist
\* and no others, all of them but the last failed in a way that may be
\* retried, a request in a final state has no attempt in progress, and a
\* succeeded request is one whose last attempt succeeded.
\* (CreateProviderAttempt, the retry loop of ServeHTTP and serveStreaming,
\* and the attempt triggers of migration 0002.)
AttemptHistory ==
    \A r \in Requests :
        /\ Attempted(r) = 1 .. attemptCount[r]
        /\ \A n \in Attempted(r) : n < attemptCount[r] =>
               /\ attStatus[r][n] = "failed"
               /\ attClass[r][n] \in Retryable
        /\ status[r] \in Terminal => Unfinished(r) = {}
        /\ status[r] = "succeeded" =>
               attemptCount[r] > 0 /\ attStatus[r][attemptCount[r]] = "succeeded"

\* While a request is in progress its route cannot move under it: the
\* target it resolved, the target and generation bound to its row, and the
\* route's current target and generation are the same, although resolution,
\* attachment and every attempt are separate transactions that race with
\* provisioning.  (ResolveRoute, SetInferenceRequestRoute, and the triggers
\* protect_active_inference_route and enforce_request_route_binding.)
BindingStable ==
    \A r \in Requests :
        /\ status[r] = "in_progress" /\ boundTarget[r] # NoTarget =>
               /\ boundTarget[r] = routeTarget[RouteOf[r]]
               /\ boundGen[r] = routeGen[RouteOf[r]]
        /\ pc[r] \in {"attach", "attempt", "upstream", "close", "backoff"} =>
               target[r] = routeTarget[RouteOf[r]]

\* No request is ever sent to a target dedicated to another organisation.
\* (The capacity_mode check of ResolveRoute, enforce_target_tenancy, and the
\* binding of every attempt to the route's target.)
TenantIsolation ==
    \A r \in Requests : \A n \in Attempted(r) :
        TargetOwner[attTarget[r][n]] \in {NoOwner, RouteOrg[RouteOf[r]]}

\* The handler and the ledger never disagree about the next attempt: when a
\* handler is about to insert one, the attempt triggers accept it.  A
\* refusal would turn a healthy request into a ledger error.
\* (performBifrostAttempt against enforce_provider_attempt_lifecycle.)
AttemptAccepted ==
    \A r \in Requests :
        pc[r] = "attempt" => CreateProviderAttemptOk(r, target[r], number[r])

\* A handler that is gone leaves its row in progress only after a database
\* fault, a crash, a client that left, or the usage report of finding
\* PartialUsageRecorded: the gap the README documents for completion failures
\* and that one refusal, and nothing else, strand a request.
\* (finish and detachedContext in ServeHTTP.)
StrandedOnlyByFault ==
    \A r \in Requests :
        pc[r] \in Over /\ status[r] = "in_progress" =>
            faults > 0 \/ ctx[r] # "live" \/ result[r].usage = "total_only"

\* A caller who has the complete answer, as a body or as a terminated
\* stream, is charged for it unless a fault intervened: the row ends as
\* succeeded with the usage of the attempt that produced the answer.  A body
\* is only ever sent for a succeeded row, faults or not.
\* (The order of finish and Write in ServeHTTP and serveStreaming.)
DeliveredIsMetered ==
    \A r \in Requests :
        /\ reply[r] = "body" => status[r] = "succeeded"
        /\ stream[r] = "done" /\ pc[r] = "done" /\ faults = 0 =>
               status[r] = "succeeded" /\ usage[r] = result[r].usage

\* The evidence a handler has when it updates the health of its target.
EvidenceOf(r) ==
    pc[r] = "health" /\ pc'[r] = "respond" =>
        /\ status[r] \in {"succeeded", "failed"}
        /\ health' # health =>
             /\ health' = [health EXCEPT ![boundTarget[r]] =
                    IF status[r] = "succeeded" THEN "operational" ELSE "degraded"]
             /\ errorClass[r] # "ledger_error"
AllEvidence == \A r \in Requests : EvidenceOf(r)

\* A target's health is written by handlers only as evidence about that
\* target: never for a request that ended as the caller's cancellation, as
\* blocked, or as a ledger error.  (failureHealthStatus and its call sites.)
HealthEvidence == [][AllEvidence]_vars

\* Every accepted request comes to an end: its handler stops.
HandlerEnds ==
    \A r \in Requests : pc[r] = "create" ~> pc[r] \in Over

----------------------------------------------------------------------------
(* The inductive invariant behind the safety properties, one part per      *)
(* relation: the rows of a request, the handler against its rows, and the  *)
(* request against the route registry.                                     *)

Routed    == {"attach", "attempt", "upstream", "close", "backoff"}
Calling   == {"attempt", "upstream", "close", "backoff"}

\* Attempts 1 .. n of r failed and may be retried.
Retried(r, n) ==
    \A m \in AttemptNumbers : m <= n =>
        attStatus[r][m] = "failed" /\ attClass[r][m] \in Retryable

RowsInv(r) ==
    /\ attemptCount[r] \in 0 .. 4
    /\ \A n \in AttemptNumbers : attStatus[r][n] # "absent" <=> n <= attemptCount[r]
    /\ \A n \in AttemptNumbers :
          n <= attemptCount[r] => attTarget[r][n] = boundTarget[r]
    /\ attemptCount[r] > 0 => boundTarget[r] # NoTarget
    /\ Retried(r, attemptCount[r] - 1)
    /\ status[r] = "absent" => boundTarget[r] = NoTarget
    /\ status[r] \in Terminal =>
          \A n \in AttemptNumbers : attStatus[r][n] # "in_progress"
    /\ status[r] = "succeeded" =>
          attemptCount[r] > 0 /\ attStatus[r][attemptCount[r]] = "succeeded"

HandlerInv(r) ==
    /\ pc[r] \in {"idle", "create"} => status[r] = "absent"
    /\ pc[r] \in {"idle", "create", "resolve", "attach"} => number[r] = 1
    /\ pc[r] \in Routed \cup {"resolve", "finish"} => status[r] = "in_progress"
    /\ pc[r] \in {"resolve", "attach"} => boundTarget[r] = NoTarget
    /\ pc[r] \in Calling =>
          /\ boundTarget[r] = target[r]
          /\ target[r] \in Targets
          /\ number[r] <= MaxAttempts[target[r]]
    /\ pc[r] = "attempt" =>
          /\ attemptCount[r] = number[r] - 1
          /\ Retried(r, attemptCount[r])
    /\ pc[r] \in {"upstream", "close"} =>
          /\ attemptCount[r] = number[r]
          /\ attStatus[r][number[r]] = "in_progress"
    /\ pc[r] = "close" =>
          /\ result[r].status # "blocked"
          /\ result[r].retryable =>
                result[r].status = "failed" /\ result[r].class \in Retryable
    /\ pc[r] = "backoff" =>
          /\ attemptCount[r] = number[r]
          /\ number[r] < MaxAttempts[target[r]]
          /\ Retried(r, attemptCount[r])
    /\ pc[r] = "finish" /\ result[r].status = "succeeded" =>
          attemptCount[r] > 0 /\ attStatus[r][attemptCount[r]] = "succeeded"
    /\ pc[r] = "health" => result[r].health # "none"

\* A route is never both being moved and in use.
RouteInv(r) ==
    /\ boundTarget[r] # NoTarget =>
          RouteOf[r] \in Routes /\ TenancyAllows(RouteOf[r], boundTarget[r])
    /\ status[r] = "in_progress" /\ boundTarget[r] # NoTarget =>
          /\ boundTarget[r] = routeTarget[RouteOf[r]]
          /\ boundGen[r] = routeGen[RouteOf[r]]
          /\ retarget[RouteOf[r]] = NoTarget
    /\ pc[r] \in Routed =>
          /\ RouteOf[r] \in Routes
          /\ target[r] = routeTarget[RouteOf[r]]
          /\ retarget[RouteOf[r]] = NoTarget

TenancyInv ==
    \A rt \in Routes :
        /\ TenancyAllows(rt, routeTarget[rt])
        /\ retarget[rt] # NoTarget => TenancyAllows(rt, retarget[rt])

\* What holds of rows, handlers and routes without looking at the answers.
CoreInv ==
    /\ TypeOK
    /\ TenancyInv
    /\ \A r \in Requests : RowsInv(r) /\ HandlerInv(r) /\ RouteInv(r)

Ending == {"finish", "health", "respond"}

\* Only a success has usage, and only what the target did marks its health.
SoundResult(res) ==
    /\ res.status # "succeeded" => res.usage = "unknown"
    /\ res.health # "none" =>
          /\ res.status \in {"succeeded", "failed"} /\ res.class # "ledger_error"
          /\ res.health = IF res.status = "succeeded" THEN "operational" ELSE "degraded"

\* What the caller has seen against the handler and its row.  An attempt is left
\* open only by a fault or by a context that was cut while it was inserted, when
\* nothing has been sent.
DeliveryInv(r) ==
    /\ SoundResult(result[r])
    /\ pc[r] \notin Over => reply[r] = "none"
    /\ r \notin Streaming => stream[r] = "none"
    /\ pc[r] \in ContextCalls \cup {"idle", "backoff"} => stream[r] = "none"
    /\ pc[r] = "upstream" => stream[r] # "done"
    /\ pc[r] = "close" =>
          /\ r \in Streaming /\ result[r].status = "succeeded" => stream[r] = "done"
          /\ stream[r] = "done" =>
                result[r].status = "succeeded" /\ result[r].usage # "total_only"
    /\ pc[r] \in Ending =>
          /\ r \in Streaming /\ result[r].status = "succeeded" => stream[r] = "done"
          /\ stream[r] = "done" /\ faults = 0 =>
                result[r].status = "succeeded" /\ result[r].usage # "total_only"
          /\ result[r].health # "none" => target[r] = boundTarget[r] /\ target[r] \in Targets
    /\ pc[r] = "finish" /\ faults = 0 /\ (ctx[r] = "live" \/ Committed(r)) =>
          Unfinished(r) = {}
    /\ pc[r] \in {"health", "respond"} =>
          /\ status[r] = result[r].status /\ errorClass[r] = result[r].class
          /\ usage[r] = result[r].usage
    /\ reply[r] = "body" => status[r] = "succeeded"
    /\ stream[r] = "done" /\ pc[r] = "done" /\ faults = 0 =>
          status[r] = "succeeded" /\ usage[r] = result[r].usage
    /\ pc[r] \in Over /\ status[r] = "in_progress" =>
          faults > 0 \/ ctx[r] # "live" \/ result[r].usage = "total_only"

\* The inductive invariant: rows, handler, route and answer of every request fit
\* together, whatever faults, cancellations and provisioning come between two calls
\* of its handler.
GatewayInv == CoreInv /\ \A r \in Requests : DeliveryInv(r)

----------------------------------------------------------------------------
(* What the documentation says and the code does not do.                   *)

\* Migration 0004: "partial means at least one dimension is known while an
\* input/output total is missing".  A provider answer whose attempt was
\* recorded as succeeded is recorded on the request too, whatever part of
\* its usage is known, unless a fault intervened or the client left.
\* (platformUsage and the usage check of inference_requests.)
PartialUsageRecorded ==
    \A r \in Requests :
        /\ pc[r] = "done" /\ faults = 0 /\ ctx[r] = "live"
        /\ attemptCount[r] > 0
        /\ attStatus[r][attemptCount[r]] = "succeeded"
        => status[r] \in Terminal

\* The abstract state of a request: a body counts as everything delivered, a JSON
\* error as a refusal.
LedgerView  == [r \in Requests |-> IF status[r] = "in_progress" THEN "open" ELSE status[r]]
CallsView   == [r \in Requests |-> attemptCount[r]]
OutputView  == [r \in Requests |->
                  CASE reply[r] = "body" \/ stream[r] = "done" -> "all"
                    [] reply[r] # "body" /\ stream[r] = "partial" -> "part"
                    [] OTHER -> "nothing"]
RefusalView == [r \in Requests |-> reply[r] = "error"]

\* The gateway implements the abstract metered request.
Metered == INSTANCE MeteredRequest WITH
    MaxCalls  <- 4,
    ledger    <- LedgerView,
    calls     <- CallsView,
    delivered <- OutputView,
    refused   <- RefusalView

\* The abstract promise, as a property of the gateway: among the rest, once a
\* byte of a stream was attempted the request is not replayed and no JSON error
\* is appended (streamSink.committed, the loop of serveStreaming, finish).
MeteredSpec == Metered!MSpec
============================================================================
