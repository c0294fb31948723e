------------------------------ MODULE Gateway ------------------------------
(***************************************************************************)
(* The inference gateway: one ServeHTTP handler per logical request, with  *)
(* buffered and streaming delivery, retries, client cancellation, database *)
(* faults and process crashes, over the ledger of module LedgerStore.      *)
(*                                                                         *)
(* Every call a handler makes on the database or on the provider is one    *)
(* step; the local code between two calls belongs to the step before it.   *)
(* A call on r.Context() can be cut off by the client; the calls that      *)
(* complete rows run on a detached context and cannot.                     *)
(***************************************************************************)
EXTENDS LedgerStore

CONSTANTS
    Streaming,      \* the requests that ask for stream: true
    FailureClasses, \* bound: the upstream failures that occur
    ReportedUsage,  \* bound: the usage reports that occur
    ProbeStatuses,  \* bound: the statuses that probes observe
    Toggled,        \* bound: the routes and targets operators switch
    MaxFaults       \* bound: database faults and crashes in a behaviour

ASSUME GatewayAssumption ==
    /\ Streaming \subseteq Requests
    /\ FailureClasses \subseteq UpstreamClasses
    /\ ReportedUsage \subseteq UsageShapes
    /\ ProbeStatuses \subseteq HealthStatuses
    /\ Toggled \subseteq Routes \cup Targets
    /\ MaxFaults \in Nat

VARIABLES
    pc,       \* [Requests -> Places]: where the handler of a request is
    ctx,      \* [Requests -> ContextStates]: r.Context()
    target,   \* [Requests -> Targets \cup {NoTarget}]: the resolved target
    number,   \* [Requests -> AttemptNumbers]: attemptNumber of the loop
    result,   \* [Requests -> Result]: attemptResult, then what finish records
    stream,   \* [Requests -> {"none", "partial", "done"}]: the SSE bytes sent
    reply,    \* [Requests -> {"none", "body", "error"}]: the JSON body sent
    faults    \* database faults and crashes so far

handlerVars == <<pc, ctx, target, number, result, stream, reply, faults>>
vars == <<ledgerVars, handlerVars>>

\* Database calls made on r.Context(), and the handler's other places.
ContextCalls == {"create", "resolve", "attach", "attempt"}
Over         == {"done", "dead"}
Places       == ContextCalls \cup Over \cup
                {"idle", "upstream", "close", "backoff", "finish", "health", "respond"}

\* A context is "cutting" when it was cancelled during a database call that
\* has not returned yet.
ContextStates == {"live", "cutting", "cancelled"}

Result == [status : Terminal, class : ErrorClasses, usage : UsageShapes,
           retryable : BOOLEAN, health : {"none", "operational", "degraded"}]

\* What a handler is about to record, and the health it then reports.
Outcome(s, class, mark) ==
    [status |-> s, class |-> class, usage |-> "unknown",
     retryable |-> FALSE, health |-> mark]
Success(u) ==
    [status |-> "succeeded", class |-> "none", usage |-> u,
     retryable |-> FALSE, health |-> "operational"]
LedgerError == Outcome("failed", "ledger_error", "none")

\* Mutant: a caller's cancellation is held against the target.
CancelledDegrades == Outcome("cancelled", "client_cancelled", "degraded")
Cancelled   == Outcome("cancelled", "client_cancelled", "none")

\* 429, 503, timeouts and connection failures may be retried.
Retryable == {"upstream_rate_limited", "upstream_unavailable"} \cup NetworkClasses

failureHealthStatus(class) ==
    IF class \in UpstreamClasses \ {"upstream_rejected"} THEN "degraded" ELSE "none"

\* A failed attempt of class c; an interrupted stream is not retryable.
UpstreamFailure(c, committed) ==
    [status |-> "failed", class |-> c, usage |-> "unknown",
     retryable |-> c \in Retryable /\ ~(committed /\ c \in NetworkClasses),
     health |-> failureHealthStatus(c)]

\* The first attempted write of a stream commits it.
Committed(r) == stream[r] # "none"

HandlerTypeOK ==
    /\ pc \in [Requests -> Places]
    /\ ctx \in [Requests -> ContextStates]
    /\ target \in [Requests -> Targets \cup {NoTarget}]
    /\ number \in [Requests -> AttemptNumbers]
    /\ result \in [Requests -> Result]
    /\ stream \in [Requests -> {"none", "partial", "done"}]
    /\ reply \in [Requests -> {"none", "body", "error"}]
    /\ faults \in Nat

TypeOK == RegistryTypeOK /\ RequestTypeOK /\ HandlerTypeOK

Init ==
    /\ LedgerInit
    /\ pc = [r \in Requests |-> "idle"]
    /\ ctx = [r \in Requests |-> "live"]
    /\ target = [r \in Requests |-> NoTarget]
    /\ number = [r \in Requests |-> 1]
    /\ result = [r \in Requests |-> LedgerError]
    /\ stream = [r \in Requests |-> "none"]
    /\ reply = [r \in Requests |-> "none"]
    /\ faults = 0

----------------------------------------------------------------------------
(* How a database call of request r can come out.  "ok": done.  "fail":    *)
(* an error, and nothing done.  "lost": an error, although it was done     *)
(* (the connection or the context went away while it committed).  A call   *)
(* that a trigger or a check refuses fails, which the handler cannot tell  *)
(* from a fault.                                                           *)

DetachedOutcome(accepted, o) ==
    \/ accepted /\ o = "ok" /\ UNCHANGED faults
    \/ accepted /\ o \in {"fail", "lost"} /\ faults < MaxFaults /\ faults' = faults + 1
    \/ ~accepted /\ o = "fail" /\ UNCHANGED faults

ContextOutcome(r, accepted, o) ==
    /\ \/ ctx[r] = "live" /\ DetachedOutcome(accepted, o)
       \/ ctx[r] = "cutting" /\ (accepted \/ o = "fail") /\ UNCHANGED faults
       \/ ctx[r] = "cancelled" /\ o = "fail" /\ UNCHANGED faults
    /\ ctx' = IF ctx[r] = "cutting" THEN [ctx EXCEPT ![r] = "cancelled"] ELSE ctx

\* The handler decides to record res on the request.
Finish(r, res) ==
    /\ pc' = [pc EXCEPT ![r] = "finish"]
    /\ result' = [result EXCEPT ![r] = res]

\* Mutant: an error body is appended to a stream.
WriteErrorAlways(r) == reply' = [reply EXCEPT ![r] = "error"]

\* The error body, unless a stream is under way.
WriteError(r) ==
    reply' = IF Committed(r) THEN reply ELSE [reply EXCEPT ![r] = "error"]

----------------------------------------------------------------------------
(* The handler.                                                            *)

\* Method, credential and body are checked before the ledger is touched.
Receive(r) ==
    /\ pc[r] = "idle"
    /\ \/ /\ pc' = [pc EXCEPT ![r] = "create"]
          /\ UNCHANGED reply
       \/ /\ pc' = [pc EXCEPT ![r] = "done"]
          /\ WriteError(r)
    /\ UNCHANGED <<ledgerVars, ctx, target, number, result, stream, faults>>

\* The request row is inserted; then the principal's scope and model grant
\* are checked.
Create(r) ==
    /\ pc[r] = "create"
    /\ \E o \in {"ok", "fail", "lost"} :
        /\ ContextOutcome(r, TRUE, o)
        /\ IF o = "fail" THEN UNCHANGED requestVars ELSE CreateInferenceRequest(r)
        /\ \/ /\ o = "ok"
              /\ pc' = [pc EXCEPT ![r] = "resolve"]
              /\ UNCHANGED <<result, reply>>
           \/ /\ o = "ok"
              /\ \E class \in {"insufficient_scope", "route_forbidden"} :
                    Finish(r, Outcome("blocked", class, "none"))
              /\ UNCHANGED reply
           \/ /\ o # "ok"
              /\ pc' = [pc EXCEPT ![r] = "done"]
              /\ WriteError(r)
              /\ UNCHANGED result
    /\ UNCHANGED <<registryVars, target, number, stream>>

\* The route and its target are read under their locks.
Resolve(r) ==
    /\ pc[r] = "resolve"
    /\ \E o \in {"ok", "fail"} :
        /\ o = "ok" => ~RouteLocked(r)
        /\ ContextOutcome(r, TRUE, o)
        /\ LET class == IF o = "fail" THEN "route_unavailable" ELSE ResolveRouteError(r)
           IN IF class = "none"
              THEN /\ target' = [target EXCEPT ![r] = routeTarget[RouteOf[r]]]
                   /\ pc' = [pc EXCEPT ![r] = "attach"]
                   /\ UNCHANGED result
              ELSE /\ Finish(r, Outcome("blocked", class, "none"))
                   /\ UNCHANGED target
    /\ UNCHANGED <<ledgerVars, number, stream, reply>>

\* What can be wrong between the route and the first attempt: the target's
\* URL, its credential, the upstream body, a writer that cannot flush.
Unprepared(r) ==
    {Outcome("failed", "target_configuration", "degraded"),
     Outcome("failed", "target_unavailable", "degraded"),
     Outcome("failed", "internal_error", "none")} \cup
    (IF r \in Streaming
     THEN {Outcome("failed", "streaming_unavailable", "none")} ELSE {})

Attach(r) ==
    /\ pc[r] = "attach"
    /\ \E o \in {"ok", "fail", "lost"} :
        /\ o # "fail" => ~RouteLocked(r)
        /\ ContextOutcome(r, SetInferenceRequestRouteOk(r), o)
        /\ IF o = "fail" THEN UNCHANGED requestVars ELSE SetInferenceRequestRoute(r)
        /\ \/ /\ o = "ok"
              /\ pc' = [pc EXCEPT ![r] = "attempt"]
              /\ UNCHANGED result
           \/ \E res \in Unprepared(r) : o = "ok" /\ Finish(r, res)
           \/ o # "ok" /\ Finish(r, LedgerError)
    /\ UNCHANGED <<registryVars, target, number, stream, reply>>

StartAttempt(r) ==
    /\ pc[r] = "attempt"
    /\ \E o \in {"ok", "fail", "lost"} :
        /\ ContextOutcome(r, CreateProviderAttemptOk(r, target[r], number[r]), o)
        /\ IF o = "fail" THEN UNCHANGED requestVars
                         ELSE CreateProviderAttempt(r, target[r], number[r])
        /\ IF o = "ok" THEN /\ pc' = [pc EXCEPT ![r] = "upstream"]
                            /\ UNCHANGED result
                       ELSE Finish(r, LedgerError)
    /\ UNCHANGED <<registryVars, target, number, stream, reply>>

\* Mutant: the row of an attempt that timed out is not completed.
CloseForgotten(r, res) ==
    /\ pc' = [pc EXCEPT ![r] =
           IF res.class = "upstream_timeout" THEN "finish" ELSE "close"]
    /\ result' = [result EXCEPT ![r] = res]

\* The attempt is over with outcome res, to be recorded on its row.
Close(r, res) ==
    /\ pc' = [pc EXCEPT ![r] = "close"]
    /\ result' = [result EXCEPT ![r] = res]

\* A buffered attempt.  An error of a cancelled request counts as the
\* client's, unless the response had arrived and was unusable.
UpstreamBuffered(r) ==
    /\ pc[r] = "upstream" /\ r \notin Streaming
    /\ \/ \E u \in ReportedUsage : Close(r, Success(u))
       \/ \E c \in FailureClasses :
            /\ ctx[r] # "live" => c \in ResponseClasses
            /\ Close(r, UpstreamFailure(c, FALSE))
       \/ ctx[r] # "live" /\ Close(r, Cancelled)
    /\ UNCHANGED <<ledgerVars, ctx, target, number, stream, reply, faults>>

\* A frame with data is written and flushed.
StreamFrame(r) ==
    /\ pc[r] = "upstream" /\ r \in Streaming
    /\ stream' = [stream EXCEPT ![r] = "partial"]
    /\ UNCHANGED <<ledgerVars, pc, ctx, target, number, result, reply, faults>>

\* The write of a frame fails: the stream is committed all the same.
StreamWriteError(r) ==
    /\ pc[r] = "upstream" /\ r \in Streaming
    /\ stream' = [stream EXCEPT ![r] = "partial"]
    /\ Close(r, Cancelled)
    /\ UNCHANGED <<ledgerVars, ctx, target, number, reply, faults>>

\* The terminal frame is written before anything is recorded.
StreamDone(r) ==
    /\ pc[r] = "upstream" /\ r \in Streaming
    /\ \E u \in ReportedUsage \ {"total_only"} : Close(r, Success(u))
    /\ stream' = [stream EXCEPT ![r] = "done"]
    /\ UNCHANGED <<ledgerVars, ctx, target, number, reply, faults>>

\* An HTTP status fails an attempt before its first frame only; read errors
\* of a cancelled request count as the client's.
StreamFailure(r) ==
    /\ pc[r] = "upstream" /\ r \in Streaming
    /\ \/ \E c \in FailureClasses :
            /\ c \in StatusClasses => ~Committed(r)
            /\ c \in NetworkClasses => ctx[r] = "live"
            /\ Close(r, UpstreamFailure(c, Committed(r)))
       \/ ctx[r] # "live" /\ Close(r, Cancelled)
    /\ UNCHANGED <<ledgerVars, ctx, target, number, stream, reply, faults>>

\* Mutant: every failure is retried.
AfterAttemptRetryAll(r, res) ==
    IF res.status = "failed" /\ ~Committed(r) /\ number[r] < MaxAttempts[target[r]]
    THEN /\ pc' = [pc EXCEPT ![r] = "backoff"]
         /\ result' = [result EXCEPT ![r] = res]
    ELSE Finish(r, res)

\* After its row is closed, an attempt is retried, or the request finished.
\* A buffered success can still fail to translate into the client's protocol.
AfterAttempt(r, res) ==
    IF res.retryable /\ ~Committed(r) /\ number[r] < MaxAttempts[target[r]]
    THEN /\ pc' = [pc EXCEPT ![r] = "backoff"]
         /\ result' = [result EXCEPT ![r] = res]
    ELSE \/ Finish(r, res)
         \/ /\ res.status = "succeeded" /\ r \notin Streaming
            /\ Finish(r, Outcome("failed", "invalid_upstream_response", "none"))

CloseAttempt(r) ==
    /\ pc[r] = "close"
    /\ \E o \in {"ok", "fail", "lost"} :
        /\ DetachedOutcome(CompleteProviderAttemptOk(r, number[r]), o)
        /\ IF o = "fail" THEN UNCHANGED requestVars
           ELSE CompleteProviderAttempt(r, number[r], result[r].status, result[r].class)
        /\ AfterAttempt(r, IF o = "ok" THEN result[r] ELSE LedgerError)
    /\ UNCHANGED <<registryVars, ctx, target, number, stream, reply>>

\* Mutant: the attempt number does not advance.
BackoffSameNumber(r) ==
    /\ pc[r] = "backoff"
    /\ pc' = [pc EXCEPT ![r] = "attempt"]
    /\ UNCHANGED <<ledgerVars, ctx, target, number, result, stream, reply, faults>>

\* Mutant: the wait of a cancelled request is never released.
BackoffStuck(r) ==
    /\ pc[r] = "backoff" /\ ctx[r] = "live"
    /\ pc' = [pc EXCEPT ![r] = "attempt"]
    /\ number' = [number EXCEPT ![r] = @ + 1]
    /\ UNCHANGED <<ledgerVars, ctx, target, result, stream, reply, faults>>

\* A delay of zero does not look at the context, and a timer that fires as
\* the client leaves may win.
Backoff(r) ==
    /\ pc[r] = "backoff"
    /\ \/ /\ pc' = [pc EXCEPT ![r] = "attempt"]
          /\ number' = [number EXCEPT ![r] = @ + 1]
          /\ UNCHANGED result
       \/ ctx[r] = "cancelled" /\ Finish(r, Cancelled) /\ UNCHANGED number
    /\ UNCHANGED <<ledgerVars, ctx, target, stream, reply, faults>>

\* Mutant: the error of finish() is ignored.
FinishRequestUnchecked(r) ==
    /\ pc[r] = "finish"
    /\ \E o \in {"ok", "fail", "lost"} :
        /\ DetachedOutcome(CompleteInferenceRequestOk(r, result[r].status, result[r].usage), o)
        /\ IF o = "fail" THEN UNCHANGED requestVars
           ELSE CompleteInferenceRequest(r, result[r].status, result[r].class, result[r].usage)
    /\ pc' = [pc EXCEPT ![r] = "respond"]
    /\ UNCHANGED <<registryVars, ctx, target, number, result, stream, reply>>

\* finish(): only a recorded result goes on to the health update and the
\* answer; otherwise the client is told the ledger is unavailable.
FinishRequest(r) ==
    /\ pc[r] = "finish"
    /\ \E o \in {"ok", "fail", "lost"} :
        /\ DetachedOutcome(CompleteInferenceRequestOk(r, result[r].status, result[r].usage), o)
        /\ IF o = "fail" THEN UNCHANGED requestVars
           ELSE CompleteInferenceRequest(r, result[r].status, result[r].class, result[r].usage)
        /\ IF o = "ok"
           THEN /\ pc' = [pc EXCEPT ![r] =
                     IF result[r].health = "none" THEN "respond" ELSE "health"]
                /\ UNCHANGED reply
           ELSE /\ pc' = [pc EXCEPT ![r] = "done"]
                /\ WriteError(r)
    /\ UNCHANGED <<registryVars, ctx, target, number, result, stream>>

\* Best effort: its error is ignored.
MarkHealth(r) ==
    /\ pc[r] = "health"
    /\ \E o \in {"ok", "fail", "lost"} :
        /\ DetachedOutcome(TRUE, o)
        /\ IF o = "fail" THEN UNCHANGED health
           ELSE UpdateTargetHealth(target[r], result[r].health)
    /\ pc' = [pc EXCEPT ![r] = "respond"]
    /\ UNCHANGED <<routeTarget, routeGen, retarget, disabled, requestVars,
                   ctx, target, number, result, stream, reply>>

Respond(r) ==
    /\ pc[r] = "respond"
    /\ pc' = [pc EXCEPT ![r] = "done"]
    /\ IF result[r].status = "succeeded" /\ r \notin Streaming
       THEN reply' = [reply EXCEPT ![r] = "body"]
       ELSE WriteError(r)
    /\ UNCHANGED <<ledgerVars, ctx, target, number, result, stream, faults>>

----------------------------------------------------------------------------
(* The client, the process and the registry's other writers.               *)

ClientCancel(r) ==
    /\ pc[r] \notin Over \cup {"idle"} /\ ctx[r] = "live"
    /\ ctx' = [ctx EXCEPT ![r] = IF pc[r] \in ContextCalls THEN "cutting" ELSE "cancelled"]
    /\ UNCHANGED <<ledgerVars, pc, target, number, result, stream, reply, faults>>

\* The gateway process dies with every handler it runs.
Crash ==
    /\ faults < MaxFaults
    /\ \E r \in Requests : pc[r] \notin Over \cup {"idle"}
    /\ pc' = [r \in Requests |-> IF pc[r] \in Over \cup {"idle"} THEN pc[r] ELSE "dead"]
    /\ faults' = faults + 1
    /\ UNCHANGED <<ledgerVars, ctx, target, number, result, stream, reply>>

Handler(r) ==
    \/ Create(r) \/ Resolve(r) \/ Attach(r) \/ StartAttempt(r)
    \/ UpstreamBuffered(r) \/ StreamFrame(r) \/ StreamWriteError(r)
    \/ StreamDone(r) \/ StreamFailure(r) \/ CloseAttempt(r) \/ Backoff(r)
    \/ FinishRequest(r) \/ MarkHealth(r) \/ Respond(r)

Registry ==
    /\ \/ \E rt \in Routes, t \in Targets : ProvisionRetarget(rt, t)
       \/ \E rt \in Routes : ProvisionCommit(rt) \/ ProvisionRollback(rt) \/ ProvisionSame(rt)
       \/ \E x \in Toggled : OperatorToggle(x)
       \/ \E t \in Targets, s \in ProbeStatuses : RecordProbeObservation(t, s)
    /\ UNCHANGED handlerVars

Next ==
    \/ \E r \in Requests : Receive(r) \/ Handler(r) \/ ClientCancel(r)
    \/ Crash
    \/ Registry

Spec == Init /\ [][Next]_vars

\* A handler that has accepted a request keeps running: the database answers
\* or fails, the provider call has the target's timeout, the backoff a cap;
\* and a provisioning transaction ends.
Fairness ==
    /\ \A r \in Requests : WF_vars(Handler(r))
    /\ \A rt \in Routes :
          WF_vars((ProvisionCommit(rt) \/ ProvisionRollback(rt)) /\ UNCHANGED handlerVars)

FairSpec == Spec /\ Fairness
============================================================================
