# Alzette in TLA+

Alzette is a small European inference platform: a gateway that meters and routes
LLM requests, a PostgreSQL ledger that is the record of what was served, a
control plane that sells and sets up endpoints, Stripe billing, and the identity
of people and their agents. This directory holds TLA+ modules of the parts that carry
its state, the TLC configurations that check them on small instances, and TLAPS
proofs of their safety properties for instances of any size.

## 1. The system

| part | state it keeps | operations | hard because |
|---|---|---|---|
| inference gateway (`internal/gateway`) | one handler per HTTP request: place in the code, `r.Context()`, resolved target, attempt number, attempt result, bytes sent | accept, open the row, resolve and attach a route, attempt, retry with back-off, finish, report health, answer; buffered and streaming | every database call is its own transaction and may fail after it committed; the client may leave at any point; bytes once sent cannot be taken back |
| stream translation (`gateway/stream.go`, `protocol_stream.go`) | one encoder per request, what the attempt has seen, what was written | check a chunk, translate it for the caller's API, finish, fail | the encoder outlives an attempt; the upstream interleaves text and tool calls; nothing written can be corrected |
| request ledger and route registry (`store/postgres/store.go`, `provision.go`, migrations 0001-0004, 0015) | `inference_requests`, `provider_attempts`, `tenant_routes`, `inference_targets` | insert, attach, finish, health write, provisioning; the triggers that accept or refuse each | routes are moved by operators while requests of two tenants are under way |
| billing ledger and webhook listener (`store/postgres/billing.go`, `billing/webhook.go`, migration 0009) | receipts, requirements, sessions, subscriptions, invoices, accounts | receive an event, apply it, reconcile deferred ones | events arrive late, twice, at two workers, in any order; the listener may die between two transactions |
| hosted checkout (`billing/billing.go`, `billing/stripe`) | session rows, the provider's sessions | prepare, link customer, host, record, return | five steps with a network in the middle and retries with the same or another key |
| endpoint configuration and quotes (`endpoints`, `store/postgres/endpoints*.go`, migrations 0008-0011) | configurations, requests, quotes, deployments, revisions, the model's route | configure, submit, quote, accept, approve, stage, ready, fail, change capacity | long sequences of legal calls by customer, operator and billing |
| usage rollup and target probes (`worker`, `store/postgres/worker.go`, 0006, 0007) and the reports (`portal`, `control`) | checkpoint, buckets, target health | refresh under an advisory lock, probe, report | late commits, a crash between checkpoint and rewrite, three programs that count the same rows |
| agent access and desktop client (`agentauth`, `agentclient`, 0014) | grants, tokens, the client's credential | exchange, mint, renew, revoke, use | a mint revokes the token another request is using; lost answers |
| workforce and invitations (`workforce`, `portal/invitation.go`, 0012, 0013) | invitations, setup sessions, identities, memberships, groups | invite, resend, set up, accept, disable | two browsers, callbacks, revocation during acceptance |
| portal sessions and API keys (`portal`, `store/postgres/portal.go`, 0005) | sessions, contexts, keys | sign in, switch, issue, revoke | stale reads at sign-in |

How they interact. The gateway calls the ledger, a provider and, when a request
is finished, the health column that the probe worker writes too. Provisioning
and endpoint activation write the routes that the gateway resolves. A submitted
shared configuration or an accepted quote opens a payment requirement; checkout
hosts a session for it; the webhook listener marks it paid and activates the
endpoint. Agent access issues the tokens, and portal the keys, that the gateway
authenticates. The rollup reads the rows the gateway wrote. All of it meets in
one PostgreSQL database: there is no other shared state between processes.

What makes each part correct, in short:

- *gateway and ledger*: rows tell one story about what was called; who received
  an answer is charged for it; a stream is never replayed; a request stays on
  the target it resolved; tenants do not share dedicated capacity; every handler ends.
- *billing*: paid means a matching payment event; each event counts once; nothing
  newer is overwritten; nothing is acknowledged and lost; no double payment.
- *endpoints*: nothing is deployed unpaid; ready is backed by evidence; a route
  serves one endpoint; quotes, requests and capacity agree.
- *streams*: the caller gets what the upstream said, in the events of his API, each
  opened and closed once, and an end that is true.
- *rollup and reports*: a final bucket stands; no hour of the lookback is lost; the
  readers agree on every figure.
- *agents, invitations, sessions*: what was revoked or disabled is refused at
  the next use; an invitation is used once by whom it was sent to.

`PROJECT.json` lists every component, with the ones that are not modelled and the
reason, and the hazards at their lines with the properties that would catch them.

## 2. The modules

    LedgerStore <- Gateway <- GatewayProperties <- MCGateway
                     MeteredRequest (refined) ^  <- GatewayProofs
    BillingLedger <- Billing <- BillingProperties <- MCBilling, BillingProofs
    EndpointWorkflow <- EndpointProperties <- MCEndpoints, EndpointProofs
    StreamTranslation <- StreamProperties <- MCStream, StreamProofs
    UsageReports <- UsageWorker <- UsageProperties <- MCUsage, UsageProofs
    Directory <- AgentAccess <- AgentProperties <- MCAgent, AgentProofs
    Directory <- Invitations <- InvitationProperties <- MCInvitations, InvitationProofs
    PortalAccess <- PortalProperties <- MCPortal, PortalProofs

The `MC...` modules are for TLC, the `...Proofs` modules for TLAPS.

**LedgerStore** models the tables of the ledger and registry. A trigger or check
of the schema is a named condition (`CreateProviderAttemptOk`, `Active`,
`TenancyAllows`) under which a statement is accepted. Provisioning is a
transaction that is open for a while: `ProvisionRetarget` takes the row lock and
writes, `ProvisionCommit` or `ProvisionRollback` ends it, and whoever needs the
row waits. A request's principal and alias select its route; nothing else of
the principal is kept. Token counts are reduced to the four shapes the schema's
checks distinguish (`UsageShapes`).

**Gateway** composes the handlers of all requests with the ledger, one action per
database call, provider call, write to the client and wait of `ServeHTTP`,
`serveStreaming` and `performStreamingAttempt`. Every database call has three
outcomes: done, refused or failed, and *lost*: committed although the caller sees an
error. `ctx` follows `r.Context()`; a client may leave at any moment, in the
middle of a call too ("cutting"), and calls on a detached context do not see
it. `Crash` kills a handler anywhere. `result` is what the handler is about to record.

**MeteredRequest** is the abstract promise for one request: opened before any
provider call, closed once, no call after output, a body only for a recorded
success, never output and an error. `GatewayProperties!Metered` is the refinement
mapping: row status to `ledger`, `attempt_count` to `calls`, bytes sent to
`delivered`.

**BillingLedger** is the transaction `applyBillingEventOnce`: the order of its
early returns (`Verdict`), its effects per event type (`StateAfter`,
`CommercialAfter`, the upserts, the activation of a shared endpoint) and the
conditions that roll all of it back: the receipt trigger (`ReceiptTriggerOk`), a
subscription row without a customer (`SubscriptionRowOk`) and a target that is not
available (`activateSharedEndpointOk`). An event is what the verifier keeps of a Stripe
event; it matches its requirement when it carries no amount or currency, or the same.

**Billing** adds checkout requests, concurrent webhook workers, the provider
(which emits an event only after what it reports, and delivers in any order,
repeatedly), expiring sessions, an operator who makes the shared target available or
unavailable (disabled, or the route bound to another one), and requests that die.

**EndpointWorkflow** is the life of the endpoints of one model in one environment.
An operation is one transaction that locks the rows it checks, or is serialised by a
unique index (`CreateCapacityRequest` holds the endpoint's row, and the schema admits one
active change), so it is one action. The exception is the edit of a draft: it reads the
configuration, locks it later and writes every field back, so `StartUpdate` and
`UpdateEndpointConfiguration` are two actions with anything between them. Payments and
refunds arrive at any time as the effects billing has on a requirement.

**StreamTranslation** is one streaming request seen from its caller: the checks of
`streamState.consume`, the two encoders as functions of `<<encoder, events written>>`, the frames that
are held back, and what a failed read, a bad frame, `[DONE]` and a lost caller do. The two
encoders share their operators; what differs between them is said where it differs
(`closeOpen`, `callOk`, `status`, the two `Finish`). A tool call's arguments are the pieces
`{`, `}` and `{}`, enough for arguments that are and are not an object. The text and each
tool call are the *parts* of an answer, each with a place (output index or block index) of
its own; an event names a place, and the history `said` the part that the upstream
mentioned. A chunk says of its other choices only whether one of them has a finish reason.
`Sorted` is the order in which a sort leaves a set of indices. Which rows the
attempts leave is Gateway's subject.

**UsageReports** holds the three readers of the ledger as functions of its rows:
`Rollup`, `buildPortalUsage` and `summarise` with what they are made of. The portal and the
control API are given the rows of a period by `ListInferenceRequests`, which answers
`Unavailable` when one of them was made with a human token (below); the rollup filters
those rows out. A percentile is the
sample at a place of a sorted list, and the sweep the largest count over the prefixes of
the sorted events. The code computes a place as a `float64` and truncates it; the double
nearest to 0.95 is less than it by a smaller part than half a unit in the last place, so the product
rounds to the whole number wherever there is one and the integer division of the model gives
the same place. **UsageWorker**
runs the rollup beside a gateway that commits rows late: the clock is read, the advisory
lock taken, the checkpoint set to running, the snapshot read and the rewrite committed in
steps of their own, in several processes that fail and die; and it probes the target that
the gateway's health writes also touch. A run whose clock is behind the last completed one
cannot mark its start (`NotOutrun`, a CHECK of `worker_checkpoints`), and its process ends
(`Refused`).

**Directory** is the company: users, people, memberships, the owner, groups and their
models, with the operations of the owner's page and the operator. **AgentAccess** adds one
`alzette-agent` process (`EnsureHumanCredential` under its mutex, for which the proxy's
requests queue, those too that were accepted before a shutdown; the exit), the service that mints and revokes its tokens, the network between them, where
Go's transport may repeat a mint and the first copy arrive late, and the check at the
gateway. **Invitations** adds invitations, setup sessions, OIDC transactions and identities
to the same directory: `CreateInvitation` is two steps, because its search for an
existing person comes before its locks.

**PortalAccess** has the portal's sessions and the keys issued through them. Sign-in and
the switch of context read rows that they do not lock, so they are two steps; a request is
authenticated in one transaction and served in another.

Left out everywhere: JSON, wording, logging, prices and timestamps beyond their
order, listings, cryptography (a digest is equality), idempotent repetitions that
are answered from the stored row. Some transactions are one step although they run several
READ COMMITTED statements: `AuthenticateHuman` locks the token and the grant and then reads
the policy, and a change of the policy that commits between the two counts as made before
both; `AssignInitialOwner` and `DisableHuman` lock what they check, so the models say what
follows from their guards and would not notice that a lock was dropped.

## 3. What TLC checks

| run | instance | what it shows |
|---|---|---|
| `gateway_retry` | one buffered request, 3 attempts, all nine failure classes, all four usage shapes, probes, a route that is switched off, 2 faults | `AttemptHistory`, `AttemptAccepted`, `StrandedOnlyByFault`, `HealthEvidence` |
| `gateway_delivery` | a buffered and a streaming request of two tenants, a shared and a dedicated target, one retarget per route, two attempts, 1 fault, fair | `DeliveredIsMetered`, `BindingStable`, `TenantIsolation`, `GatewayInv`, refinement `MeteredSpec`, `HandlerEnds` |
| `streaming` | three protocols, text and two tool calls in eleven shapes of chunk, 6 frames, 2 attempts | `StreamInv`, `DeltasAsReceived`, `EndTellsTheTruth`, `RetryIsFresh` |
| `billing_life` | two workers; an untagged paid invoice, its subscription, the same invoice with its tag, one of another amount; a second requirement that must not move; a target that is switched; 1 crash, fair | `BillingInv`, `AppliedOnce`, `EventuallyAcked` |
| `billing_evidence` | two keys for one requirement; events of another amount, another customer, an unknown tag, no tag, the agreed payment, the end of a dispute, a refund; a target that is switched; 1 fault | `PaidByEvidence`, `AckedIsHandled`, `NoDoublePayment` |
| `endpoint_life` | a dedicated, a free shared and a paid shared endpoint; 3 requests, 2 quotes, 2 units; one edit of a draft under way at a time (`MaxEdits`); requests and quotes are symmetric | `EndpointInv`, `ReadyHasEvidence`, `PaidBeforeDeployment`, `AcceptedQuoteValid`, `RouteExclusive` |
| `agent_session` | one process with two proxied requests (symmetric), three mints, two models of which one target is switched; six histories of policy changes | `CredentialInv`, `HeldIsLatest`, `AdmittedIsShown`, `OffboardingIsTerminal` |
| `invitations` | three users, two addresses, two accounts at the provider, a group; 2 invitations, 2 setup sessions, 2 transactions, 2 links each; six histories | `InvitationInv`, `OwnerCanAct`, `GroupsAsInvited`, `RejoinOnlyByOverlap` |
| `portal` | two organisations, a user who owns one and views the other, a viewer; two requests at a time (symmetric), 2 sessions, 2 keys, 2 passwords, 2 changes by the operator | `PortalInv`, `OldPasswordOnlyByOverlap`, `ServedInStanding` |
| `usage` | hours of two ticks, a lookback of one hour, five deployments (below), fair | `RollupInv`, `FiguresAgree`, `OperationalIsCallable`, `EventuallyReconciled` |

An invariant named `...Inv` is a conjunction of named parts, each stated with its own
comment in the properties module and each including the module's `TypeOK`:
`GatewayInv` of `TenancyInv` and, per request, `RowsInv`, `HandlerInv`, `RouteInv` and
`DeliveryInv`; `CredentialInv` of `IssuedInOrder`, `GrantSound`, `LiveTokenAuthority`,
`ReplayLeavesNoToken`, `MutexHeldByCall` and `SessionSound`; `BillingInv` of `ReceiptSound`,
`WorkerSound`, `RequirementHoldsNewest`, `RowsHoldNewest`, `SessionSound` and `SoleSession`;
`EndpointInv` of `SubmittedFactsAgree`, `OneActiveChange`, `RequestsInv`, `QuotesInv`,
`OriginsInv` and `RouteInv`; `InvitationInv` of `RowsSound`, `OnePendingPerEmail`,
`AcceptedOnce`, `JoinedByInvitation`, `AddressesKnown` and `SessionsEndWithStanding`;
`PortalInv` of `TenantBoundary`, `SessionsInv`, `RequestsInv` and `KeysInv`; `StreamInv` of
`BlocksAlternate`, `OpenUnlessUpstreamReturns`, `ItemsCompleted` and `Unfinished`; `RollupInv` of
`RowsKept`, `FinalBucketStands`, `CheckpointReconciles`, `HoursComplete`, `RunsGoForward`
and `RepresentedIsComplete`. All are inductive or, for `RollupInv` and `StreamInv`, follow from an
inductive part or are so together with the run's other invariants: they are the invariants of
section 4. `FiguresAgree` joins `ReportsAgree` (that is `PagesAgree`: `TotalsAgree`,
`FinalitiesAgree` and `PeakAgrees` for every period whose rows the readers are given; and
`RollupAgrees`, between the rollup, the portal and the control API) with two algorithms compared
with their definitions: `PeakIsLargestOverlap` (the sweep against the overlaps at each tick)
and `LatencyRanks` (the percentiles; TLC compares up to 60 samples).

Why the bounds are enough to be interesting. Three attempts give a first, a
middle and a last one, which is what the retry rules distinguish; two requests
are what a route needs to be pinned by one while another runs, and two tenants
what isolation needs. One retarget moves a route under every place of a handler; a
second one repeats the first. One fault, anywhere, is what separates a committed
from an acknowledged write; `gateway_retry` has two, for a fault in the handling
of a fault. Two workers are enough for two concurrent deliveries of one event,
and the events of each billing world are chosen in pairs: older and newer, equal
in time, matching and not. Three requests allow an initial one and two competing
capacity changes; two quotes allow one that supersedes the other.

Six frames let a stream open text and two calls, return to each and end. Three mints are
a first one, a renewal and one after that; two requests are what the mutex is for.
Policy changes are bounded by *plans*: a behaviour follows a prefix of one of the listed
histories (each way of losing access, followed where there is one by the way back), at any
moments, which keeps every single change against every place of the protocol and
leaves out only unrelated changes in one behaviour. Two invitations,
sessions and transactions are what a race needs. A portal session can be switched by one
request while another works with it, and a password rotated while it is typed.

The deployments of `usage`: two processes that probe; two that roll up, with a failure or
crash, under one request; one that an hour leaves the lookback of (`until` 5), with a
failure; one under two applications; one under an application and a person. A row
commits up to one tick after its stamp. `HourLen = Lookback = FreshFor = ProbeInterval = 2`
is the smallest scale at which an hour has an inside.

Deadlock is not checked in the gateway, endpoint, invitation, portal and usage runs,
because requests, ids or ticks are finite there and all work may be over. In the billing
runs the provider may always deliver again, and in `agent_session` and `streaming` the end
is a state of its own (`Over`, `Ended`): there deadlock is checked.

Fairness. `Gateway!Fairness` is weak fairness of each handler: provider calls run
under the target's timeout, completion under a detached context of five seconds,
the back-off is capped at five seconds, and the database answers or fails the
remaining calls. It is also weak fairness of the end of a provisioning transaction:
the command runs one transaction under a deadline, and PostgreSQL rolls it back when
the command dies. The client, the operator and faults have none. `Billing!FairSpec` is
weak fairness of each webhook request and strong fairness of the delivery of each
unacknowledged event: Stripe delivers again until it gets a 200, and the listener
serves any number of requests, so that the few workers of the instance being busy
must not count as a refusal for ever. Checkout has no fairness. `UsageWorker!Fairness` is
weak fairness of time and of each process: its ticker fires, its statements end (each has
a context with a timeout), and a process that died or was refused is started again, as the deployment's
restart policy does. Failures and crashes have none, and their number is bounded. The
other modules claim no liveness: a browser or an employee owes nobody a step.

What some properties leave open, on purpose:

- `StrandedOnlyByFault` names three ways a row can stay in progress: a fault, a
  client that left during a call, and the usage report of the finding below. The
  repository's README documents the first.
- `DeliveredIsMetered` holds for buffered bodies with faults and for streams without:
  the last frame of a stream is sent before its request is finished, and a database
  failure in between delivers an unmetered answer.
- `EventuallyAcked` speaks of events that name their requirement and are not rejected,
  while the shared target stays available from some time. One without a tag can be refused
  for ever (second finding on billing); so can a rejected one beside such a receipt, since
  it is never found processed and each redelivery reconciles again (`billing.go:233`,
  `webhook.go:139`); so can a payment whose target stays off, and a subscription event
  without a customer, which its table does not take.
- `FiguresAgree` compares the readers on periods without requests made with a human token;
  of the others the portal and the control API show nothing (below).
- `OldPasswordOnlyByOverlap`, `RejoinOnlyByOverlap`, `OpenUnlessUpstreamReturns` and
  `OperationalIsCallable` each name the one overlap in which the simpler statement fails
  in this code; without it TLC finds that overlap.

Each property has a mutant in `PROJECT.json`: a definition changed the way a plausible
bug would change the code (marked `Mutant:` next to the original), with which TLC
finds the property violated.

### Disagreements found

Two are runs that TLC must find violated:

- `gateway_usage_bug`: a provider answer that reports only `total_tokens` is a
  successful attempt that cannot be recorded on its request, which stays in progress.
- `billing_deferred_bug`: a deferred receipt that becomes resolvable is refused by the
  receipt trigger every time, so it is never reconciled.

The models show these as well; they are part of the modelled behaviour and no run is
kept for them:

- A client that leaves while a database call runs on its context is recorded as
  `route_unavailable` or `ledger_error`; `README.md:294` says `client_cancelled`.
- An `invoice.paid` that is older than an applied event is ignored;
  `docs/prd/ENDPOINTS_PRD.md:642` asks for order independence.
- The quote for a capacity change can be issued and not accepted: `AcceptDeploymentQuote`
  joins `endpoint_configurations` (`endpoints_workflow.go:157`), and a capacity change has
  no configuration. `ENDPOINTS_PRD.md:347` says "accept immutable scale-up quote".
- A checkout request that dies before `CompleteCheckout` leaves its session row in
  `creating` without a reference; no event can close it, and the unique index then refuses
  every other key for the requirement (`billing.go:135`).
- A setup session begun with an earlier link stays usable after a resend;
  `WORKFORCE_AGENT_ACCESS_PRD.md:438` says otherwise.
- A sign-in that overlaps a rotation of the password keeps its session; `README.md:248`
  and the command's answer say that sessions are revoked.
- The agent's token is not always revoked on exit: the proxy's shutdown and the
  revocation share three seconds, and a killed process revokes nothing
  (`README.md:404`, `EMPLOYEE_DESKTOP_CLIENTS.md:78`).
- The p95 of the rollup and the portal reads one sample further than the control API's
  for 20m and 20m + 1 samples.
- A run of the worker that another process has outrun is refused by the CHECK of
  `worker_checkpoints` (`0006:122-126`) and its process ends: `RunOnce` reads its clock before
  it has the lock (`worker/worker.go:78`), and only the conflict on that lock is ignored. An
  observation of a probe carries the time the run began, not the probe's.
- A period that contains one request made with a human token is not shown at all:
  `ListInferenceRequests` scans the NULL `service_account_id`, `api_key_id` and `key_prefix` of
  its row (`0014:81-98`) into strings (`store.go:366-392`), so the portal's usage and
  dashboard, the control API and the client dashboard answer `usage_unavailable`.
  `WORKFORCE_AGENT_ACCESS_PRD.md:851` has usage totals reconcile across both kinds of actor, and
  `README.md:324` an exact usage view. The rollup leaves these requests out.
- Two edits of one draft at a time: the later write puts back every field it did not mean to
  change, as it read it (`endpoints.go:103`, `:135`). No document promises otherwise;
  `EndpointInv` says that what was submitted is not reached by an edit begun before.
- The encoder for the messages API sends deltas for a block it has stopped when the
  upstream returns to an earlier part, does not compare a call's id and name later on, and
  ends an answer without content normally, which the responses encoder refuses.

## 4. What is proved

TLAPS proves the safety properties of all eight models for every value of their
constants: any number of requests, tenants, events, workers, processes, keys, people, tools,
chunks and faults, where TLC has two or three of each. `Spec` has no fairness in these theorems.

| module | theorem | states |
|---|---|---|
| `GatewayProofs` | `Inductive` | `CoreInv`: rows, handlers and routes fit together |
| | `TypeCorrect` | `TypeOK` of ledger and handlers |
| | `AttemptsTellOneStory` | `AttemptHistory` |
| | `BindingIsStable` | `BindingStable` |
| | `TenantsAreIsolated` | `TenantIsolation` |
| | `AttemptsAreAccepted` | `AttemptAccepted` |
| | `GatewayInvariance` | `GatewayInv`: `CoreInv` with the answers |
| | `StrandedRows` | `StrandedOnlyByFault` |
| | `Metering` | `DeliveredIsMetered` |
| | `HealthWrites` | the action property `HealthEvidence` |
| | `Implements` | the refinement `MeteredSpec` |
| `BillingProofs` | `Ledger` | `BillingInv` |
| | `Evidence` | `PaidByEvidence` |
| | `Acknowledged` | `AckedIsHandled` |
| | `Once` | the action property `AppliedOnce` |
| | `PaidOnce` | `NoDoublePayment` |
| `EndpointProofs` | `Workflow` | `EndpointInv` |
| | `AcceptedQuotes` | `AcceptedQuoteValid` |
| | `ExclusiveRoute` | `RouteExclusive` |
| | `Evidence` | `ReadyHasEvidence` |
| | `PaidFirst` | the action property `PaidBeforeDeployment` |
| `AgentProofs` | `Credentials` | `CredentialInv` |
| | `Latest` | `HeldIsLatest` |
| | `Admission` | the action property `AdmittedIsShown` |
| | `Offboarded` | the action property `OffboardingIsTerminal` |
| `InvitationProofs` | `Joining` | `InvitationInv` |
| | `OwnerStands` | `OwnerCanAct` |
| | `GroupEntry` | the action property `GroupsAsInvited` |
| | `Rejoining` | the action property `RejoinOnlyByOverlap` |
| `PortalProofs` | `PortalInvariance` | `PortalInv` |
| | `OldPasswords` | `OldPasswordOnlyByOverlap` |
| | `Standing` | the action property `ServedInStanding` |
| `UsageProofs` | `Rollups` | `RollupInv` |
| | `Callable` | `OperationalIsCallable` |
| | `Figures` | `FiguresAgree` |
| | `Reports` | `PagesAgree` and `RollupAgrees` in every state, without the condition of `ReportsAgree` |
| | `Ranks` | the ranks of `LatencyRanks` for every number of samples |
| `StreamProofs` | `StreamInductive` | `IInv`: the three invariants below, with what `Unfinished` says until the end |
| | `StreamWellFormed` | `StreamInv` |
| | `StreamFaithful` | `DeltasAsReceived` |
| | `StreamEnds` | `EndTellsTheTruth` |
| | `StreamRetries` | the action property `RetryIsFresh` |

### Assumptions

Each is a named `ASSUME` in the module that declares the constants, and TLC evaluates it
on every run. They say that constants are functions between the right sets, that the
values that stand for "none" are not members of those sets, and that bounds are numbers.
These say more:

- `LedgerAssumption`: the routes that exist at the start respect tenancy, and targets
  allow one to four attempts, as the check of the schema demands.
- `GatewayAssumption`: failures, usage shapes and probe results are among those the code
  knows.
- `HostedEventsAssumption` (Billing): an event about a hosted session that is tagged with
  a requirement is about a session made for that requirement, because the tag is
  the metadata `CreateCheckout` gives the session (`billing/stripe/stripe.go:79-82`);
  and a session expires once. An event may still lack the tag, or carry one that no
  requirement has, another amount or another customer.
- `StreamAssumption` (StreamTranslation): a target allows at least one attempt (the same
  check of the schema), and chunks are what `streamState.consume` has decoded. They need
  not be finitely many.
- `WorkerAssumption` (UsageWorker): the lookback is at least an hour, unless a request
  succeeded its usage is unknown, the requests of a behaviour are finitely many (a
  bucket counts its rows), token counts are numbers, and NULL and an open end are not.

### The arguments

None of the properties is inductive alone, and neither were most of the `...Inv` that TLC
checked at first. Each was strengthened until it was; TLC checks the strengthened
invariant too, as part of its run.

*The gateway.* `BindingStable` depends on no provisioning transaction being open on a route
in use, which depends on handlers past resolution having a row in progress;
`AttemptHistory` depends on what the handler is about to do next. `CoreInv` therefore
joins the types and `TenancyInv` with three relations per request:

- `RowsInv`: the request's row against its attempt rows;
- `HandlerInv`: the handler's place, number and result against those rows (when it is
  about to insert attempt `n`, there are exactly `n - 1` rows, all retryable);
- `RouteInv`: the request against the registry (a route in use is not being moved, and
  its target and generation are the bound ones).

`TypeStep` proves the types. `OthersUntouched` says that a handler's step leaves the
three relations of every other request alone, which reduces the step to one request;
`OwnStep` then has one case per action, `RegistryStep` treats provisioning, toggles
and probes, `CrashStep` the crash. `DeliveryInv` adds, per request, what was sent: a
handler on its way to an end has in `result` what it will record, a finished stream
has a success that the ledger will take, and a closed attempt is behind it unless a fault or
the client came between. `StrandedOnlyByFault` and `DeliveredIsMetered` are read off it.

*The refinement.* `Implements` maps row status to `ledger`, `attempt_count` to `calls`, bytes
and replies to `delivered` and errors to `refused`. `LedgerView`, `CallsView`,
`OutputView` and `RefusalView` say how each action moves its component, so every step is one
step of `MeteredRequest` for one request, or a stutter, and `GatewayInv` supplies the abstract
guards (nothing was sent where a provider is called; the row has succeeded where a body
is written).

*Billing.* What a transaction does to the ledger is summed up once, and the invariant is
proved part by part: `ReceiptSound` (what was applied was fit to be),
`WorkerSound` (what a worker holds is stored, and settled once applied),
`RequirementHoldsNewest` and `RowsHoldNewest`, and for sessions `SessionSound` (a row against
what the provider hosts) with `SoleSession`. `PaidByEvidence` and `AckedIsHandled` are
inductive relative to it. `NoDoublePayment` follows from `SoleSession`: a paid session is
never expired in the table, so a second one could not have been prepared.

*Endpoints.* `RequestsInv`, `QuotesInv`, `OriginsInv` and `RouteInv` relate the tables in both
directions (a request past acceptance has an accepted quote, an accepted quote has
its request), and there is one lemma per group of steps. `ReadyHasEvidence` is proved
beside it, by which of its four pieces of evidence a step could take away.

*Agents.* The hard part are generations and the network. `IssuedInOrder` and `GrantSound` say
that the tokens issued are `1 .. n`, one for each key that was used; `SessionSound`, that
the mint a caller waits for is newer than what is held, whatever copy of it arrives.
`HeldIsLatest` follows from those and the mutex. `Admission` unfolds
`AuthenticateHuman` against the access page's own joins.

*Invitations.* Every step is one of eight kinds (`Elsewhere`, `Written`, `Edited`, `Asked`,
`Dropped`, `Made`, `Opened`, `Accepted`), so each part of the invariant has eight cases
rather than one per action. `AddressesKnown` and `RowsSound` are what the stated parts need;
that an invitation is accepted once is counted in sets (`CountingUses`).

*Portal.* `SessionsInv`, `RequestsInv` and `KeysInv` say what the first step of a sign-in or a
switch has read that is still true in the second: the user and the organisation of the
session, and not the password or the standing.

*Rollups.* `RowsKept` says that snapshots and buckets hold rows as the ledger has them, and
`HoursComplete` that after a completed run every hour of its range that was over counts
exactly what the run could see of it; with `CheckpointReconciles` and `RunsGoForward` they
are inductive. `RunsGoForward` rests on `NotOutrun` and is what makes a bucket and the checkpoint
move in one direction only. `FinalBucketStands` and `RepresentedIsComplete` follow, by arithmetic about hours and the lookback (`HourUnique`,
`LastRewritten`, `OverIsRewritten`) for every `HourLen`. `OperationalIsCallable` needs that
the registry shows the last probe or something the gateway wrote after it.

*Reports.* `FiguresAgree` says what sums, sorts and a sweep compute, for any set of rows. The
library's sum over a set is a fold that takes any element first; `AdderEquation` derives
its equation from its definition, `SumAny` that the order does not matter, and `SumPlus`,
`SumCount` and `SumOfParts` how sums are added, count and split by a key. Each is an induction over a
finite set, written like the one for streams with a set of subsets in place of a predicate
(`Subsets`). The totals follow: requests that know their output know their input, so the
control API's two complete sides add up to the portal's total (`ClientTotal`) and the
groups of a breakdown to the whole (`RequestsAdd`, `TokensAdd`). The ranks are arithmetic. For
the sweep, the events up to a tick are a prefix that counts that tick's overlap
(`OverlapAttained`); and the last event of any other prefix says which tick counts at least
as many (`SweepBounded`): its own when something starts there, because the ends of that tick
came before, and otherwise the tick before it.

*Streams.* `IInv` is proved through `Pending`: until an answer is finished, `Unfinished`
(`Answering` and `FirstFrame`) and `DeltasAsReceived` hold, and `PendingGives` says that the
invariants follow. A chunk is any number of calls, so `EncodeKeeps` is an induction over
them: it shows that the set of the `i` for which the encoder is `Good` after `i` calls,
with what was said so far, is everything (`UpTo`, from the well-foundedness of the natural
numbers: a set takes the place of the library's predicate). One mention is one application
of `AnsweringBegins` (a part gets its place; the block before it is stopped) or
`AnsweringDelta`. `Alternate`, `StartsOnce`, `StopsExplained` and `SameDeltas` have lemmas of
their own for an output that grows by one event, and the elements of a type in a sequence
(`OfType`) for one that grows by one element. `OpenUnlessUpstreamReturns` needs
`StopsExplained`: a block was stopped because another part was mentioned, so a delta for it
is the upstream's return. At the end `AnthropicFinishes` and `ResponsesFinishes` show what
the closing events complete; the second needs that the places handed out are `0 .. n - 1`
and that sorting a set of numbers gives each once (`SortExists`, `SortedInterval`).
`RetryIsFresh` is `FirstFrame`: nothing has been written only as long as the encoder
has not been touched.

### Only model-checked

Liveness, which this prover does not do: `HandlerEnds`, `EventuallyAcked`,
`EventuallyReconciled`. Every safety property that a run expects to hold is proved.

## 5. Plan and what is not modelled

The modules were written in the order of what depends on them: the gateway with its
ledger; billing and endpoints, the parts with the longest protocols; then streams, the
rollup, agents, invitations and portal sessions; the proofs in the same order. Next:

1. **Composition** of EndpointWorkflow with Billing, which see each other as an
   environment (`markPaymentPaid`, `Refunded`).

Not modelled, with the reasons in `PROJECT.json`: decoding and validation of requests and
the translation of whole answers between JSON dialects (pure functions over text, of which
the gateway keeps the outcomes), rendering and listings, token validation against an
identity provider, cryptographic helpers, HTTP plumbing, schema migration, the in-memory
test store and the development tools.
