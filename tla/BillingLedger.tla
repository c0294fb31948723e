--------------------------- MODULE BillingLedger ---------------------------
(***************************************************************************)
(* The billing tables and the transaction that applies one verified        *)
(* provider event to them: billing_webhook_receipts, payment_requirements, *)
(* the commercial and runtime state of the endpoint a requirement pays     *)
(* for, billing_checkout_sessions, billing_subscriptions, billing_invoices *)
(* and billing_accounts.                                                   *)
(*                                                                         *)
(* An event is what the verifier keeps of a Stripe event.  Amounts matter  *)
(* only as equal to the requirement's or not, customers only as the        *)
(* organisation whose account they are.                                    *)
(***************************************************************************)
EXTENDS Integers, FiniteSets

CONSTANTS
    Requirements,   \* rows of payment_requirements, one per endpoint
    Shared,         \* those that pay for a shared subscription endpoint
    Organisations,
    RequirementOrg, \* payment_requirements.organisation_id
    Keys,           \* idempotency keys of checkout requests
    Subscriptions, Invoices, \* provider references
    Events,         \* provider event ids
    EventOf,        \* [Events -> Event]: the facts of an event
    UnknownPayment, \* a tag that names no requirement
    None

EventTypes ==
    {"checkout.session.completed", "checkout.session.expired",
     "invoice.finalized", "invoice.paid", "invoice.payment_failed",
     "customer.subscription.created", "customer.subscription.updated",
     "customer.subscription.deleted",
     "charge.refunded", "charge.dispute.created", "charge.dispute.closed"}

SubscriptionEvents ==
    {"customer.subscription.created", "customer.subscription.updated",
     "customer.subscription.deleted"}

\* payment is the requirement named in the object's metadata; session, the
\* checkout session that is the event's object; cause, the checkout session
\* whose completion makes the provider emit the event.  It matches when it
\* carries no amount or no currency, or those of its requirement.
Event == [type : EventTypes, created : Nat \ {0},
          payment : Requirements \cup {UnknownPayment, None},
          session : Keys \cup {None}, cause : Keys \cup {None},
          subscription : Subscriptions \cup {None}, invoice : Invoices \cup {None},
          customer : Organisations \cup {None}, matches : BOOLEAN]

ASSUME BillingAssumption ==
    /\ Shared \subseteq Requirements
    /\ RequirementOrg \in [Requirements -> Organisations]
    /\ EventOf \in [Events -> Event]
    /\ UnknownPayment \notin Requirements
    /\ None \notin Requirements \cup {UnknownPayment} \cup Keys \cup
                   Subscriptions \cup Invoices \cup Organisations

VARIABLES
    receipt,       \* [Events -> ReceiptStates]: processing_state, "absent" without a row
    receiptClass,  \* [Events -> FailureClasses]: safe_failure_class
    reqState,      \* [Requirements -> RequirementStates]: payment_requirements.state
    reqLatest,     \* [Requirements -> Nat]: latest_event_at, 0 for NULL
    paidAt,        \* [Requirements -> Nat]: paid_at, 0 for NULL
    commercial,    \* [Requirements -> CommercialStates]: the endpoint's commercial_state
    runtime,       \* [Requirements -> RuntimeStates]: the endpoint's runtime_state
    sessState,     \* [Keys -> SessionStates]: billing_checkout_sessions.state
    sessPayment,   \* [Keys -> Requirements \cup {None}]: its payment_requirement_id
    sessRef,       \* the keys whose session row has a provider_session_ref
    subscriptions, \* [Subscriptions -> Row]: billing_subscriptions
    invoices,      \* [Invoices -> Row]: billing_invoices
    customers,     \* the organisations with a billing account
    targetUp       \* BOOLEAN: the shared target of the offer is enabled, and no
                   \* route of the model is bound to another one

paymentVars == <<reqState, reqLatest, paidAt, commercial, runtime>>
rowVars     == <<subscriptions, invoices>>
receiptVars == <<receipt, receiptClass>>
sessionVars == <<sessState, sessPayment, sessRef>>
billingVars == <<receiptVars, paymentVars, sessionVars, rowVars, customers, targetUp>>

ReceiptStates     == {"absent", "received", "processed", "deferred", "rejected"}
FailureClasses    == {"none", "unmatched_reference", "unknown_requirement",
                      "customer_mismatch", "commercial_mismatch", "out_of_order_ignored"}
RequirementStates == {"action_required", "processing", "paid", "past_due",
                      "refunded", "disputed"}
CommercialStates  == {"payment_action_required", "processing", "paid", "past_due",
                      "refunded", "disputed"}
RuntimeStates     == {"awaiting_payment", "route_bound"}
SessionStates     == {"absent", "creating", "open", "complete", "expired"}

\* A subscription or invoice row: its requirement and its newest event.
NoRow == [payment |-> None, event |-> None, latest |-> 0]
Row == [payment : Requirements, event : Events, latest : Nat] \cup {NoRow}

BillingTypeOK ==
    /\ receipt \in [Events -> ReceiptStates]
    /\ receiptClass \in [Events -> FailureClasses]
    /\ reqState \in [Requirements -> RequirementStates]
    /\ reqLatest \in [Requirements -> Nat]
    /\ paidAt \in [Requirements -> Nat]
    /\ commercial \in [Requirements -> CommercialStates]
    /\ runtime \in [Requirements -> RuntimeStates]
    /\ sessState \in [Keys -> SessionStates]
    /\ sessPayment \in [Keys -> Requirements \cup {None}]
    /\ sessRef \subseteq Keys
    /\ subscriptions \in [Subscriptions -> Row]
    /\ invoices \in [Invoices -> Row]
    /\ customers \subseteq Organisations
    /\ targetUp \in BOOLEAN

BillingInit ==
    /\ receipt = [e \in Events |-> "absent"]
    /\ receiptClass = [e \in Events |-> "none"]
    /\ reqState = [p \in Requirements |-> "action_required"]
    /\ reqLatest = [p \in Requirements |-> 0]
    /\ paidAt = [p \in Requirements |-> 0]
    /\ commercial = [p \in Requirements |-> "payment_action_required"]
    /\ runtime = [p \in Requirements |-> "awaiting_payment"]
    /\ sessState = [k \in Keys |-> "absent"]
    /\ sessPayment = [k \in Keys |-> None]
    /\ sessRef = {}
    /\ subscriptions = [s \in Subscriptions |-> NoRow]
    /\ invoices = [i \in Invoices |-> NoRow]
    /\ customers = {}
    /\ targetUp = TRUE

----------------------------------------------------------------------------
(* Which requirement an event is about, and whether it may be applied.     *)

\* The requirement an untagged event's references lead to, or None.
resolveBillingPaymentReference(e) ==
    LET ev == EventOf[e] IN
    IF ev.session \in sessRef THEN sessPayment[ev.session]
    ELSE IF ev.subscription # None /\ subscriptions[ev.subscription] # NoRow
         THEN subscriptions[ev.subscription].payment
    ELSE IF ev.invoice # None THEN invoices[ev.invoice].payment
    ELSE None

PaymentOf(e) ==
    IF EventOf[e].payment # None THEN EventOf[e].payment
    ELSE resolveBillingPaymentReference(e)

\* Mutant: a receipt that was processed is applied again.
AlreadyProcessedNever(e) == FALSE

AlreadyProcessed(e) == receipt[e] = "processed"

\* The event's customer is not the account of the requirement's organisation.
CustomerMismatch(e, p) ==
    LET org == EventOf[e].customer IN
    org # None /\ (org \notin customers \/ org # RequirementOrg[p])

\* The requirement has seen a newer event.
OutOfOrder(e, p) == EventOf[e].created < reqLatest[p]

\* Mutant: the amount of an invoice is not compared.
CommercialMismatchSession(e, p) ==
    ~EventOf[e].matches /\ EventOf[e].type = "checkout.session.completed"

\* An event that claims a payment of another amount or currency.
CommercialMismatch(e, p) ==
    /\ ~EventOf[e].matches
    /\ EventOf[e].type \in {"invoice.paid", "checkout.session.completed"}

\* What a transaction makes of an event: "processed" when its receipt says
\* so already, "none" to apply it, otherwise the class it is recorded with.
Verdict(e) ==
    LET p == PaymentOf(e) IN
    IF AlreadyProcessed(e) THEN "processed"
    ELSE IF p = None THEN "unmatched_reference"
    ELSE IF p \notin Requirements THEN "unknown_requirement"
    ELSE IF CustomerMismatch(e, p) THEN "customer_mismatch"
    ELSE IF OutOfOrder(e, p) THEN "out_of_order_ignored"
    ELSE IF CommercialMismatch(e, p) THEN "commercial_mismatch"
    ELSE "none"

ReceiptAfter(class) ==
    CASE class = "unmatched_reference" -> "deferred"
      [] class \in {"unknown_requirement", "customer_mismatch",
                    "commercial_mismatch"} -> "rejected"
      [] OTHER -> "processed"

\* The receipt trigger refuses to write the requirement a reference led to
\* into a receipt that was stored without one.
ReceiptTriggerOk(e, class) ==
    ReceiptAfter(class) = "processed" => EventOf[e].payment # None

\* A subscription row names its customer.
SubscriptionRowOk(e, class) ==
    LET ev == EventOf[e] IN
    class = "none" /\ ev.type \in SubscriptionEvents /\ ev.subscription # None =>
        ev.customer # None

\* A paid shared subscription needs the offer's target.
activateSharedEndpointOk(e, class) ==
    class = "none" /\ EventOf[e].type = "invoice.paid" /\ PaymentOf(e) \in Shared =>
        targetUp

\* The transaction is rolled back and the caller gets an error.
ApplyFails(e) ==
    /\ Verdict(e) # "processed"
    /\ ~ /\ ReceiptTriggerOk(e, Verdict(e)) /\ SubscriptionRowOk(e, Verdict(e))
         /\ activateSharedEndpointOk(e, Verdict(e))

----------------------------------------------------------------------------
(* The effects of an event on its requirement p.                           *)

\* Event types that move a requirement whatever its state, and those that
\* leave a paid one alone.
AlwaysMoves     == {"invoice.paid", "charge.refunded", "charge.dispute.created"}
MovesUnlessPaid == {"checkout.session.completed", "checkout.session.expired",
                    "invoice.payment_failed", "charge.dispute.closed"}

Moves(t, s) == t \in AlwaysMoves \/ (t \in MovesUnlessPaid /\ s # "paid")

StateAfter(t, s) ==
    CASE ~Moves(t, s) -> s
      [] Moves(t, s) /\ t \in {"checkout.session.completed", "charge.dispute.closed"}
            -> "processing"
      [] Moves(t, s) /\ t = "checkout.session.expired" -> "action_required"
      [] t = "invoice.paid" -> "paid"
      [] Moves(t, s) /\ t = "invoice.payment_failed" -> "past_due"
      [] t = "charge.refunded" -> "refunded"
      [] t = "charge.dispute.created" -> "disputed"

CommercialAfter(t, s, c) ==
    CASE t = "checkout.session.completed" /\ s # "paid" -> "processing"
      [] t = "invoice.paid" -> "paid"
      [] t = "invoice.payment_failed" -> "past_due"
      [] t = "charge.refunded" -> "refunded"
      [] t = "charge.dispute.created" -> "disputed"
      [] OTHER -> c

markPaymentPaid(e, p) ==
    IF EventOf[e].type # "invoice.paid" THEN UNCHANGED <<paidAt, runtime>>
    ELSE /\ paidAt' = [paidAt EXCEPT ![p] = IF @ = 0 THEN EventOf[e].created ELSE @]
         /\ runtime' = IF p \in Shared THEN [runtime EXCEPT ![p] = "route_bound"]
                                       ELSE runtime

\* INSERT ... ON CONFLICT DO UPDATE, for the same requirement and not an
\* older event.
Upserted(row, e, p) ==
    IF row = NoRow \/ (row.payment = p /\ row.latest <= EventOf[e].created)
    THEN [payment |-> p, event |-> e, latest |-> EventOf[e].created] ELSE row

upsertBillingSubscription(e, p) ==
    LET s == EventOf[e].subscription IN
    subscriptions' = IF s # None /\ EventOf[e].type \in SubscriptionEvents
                     THEN [subscriptions EXCEPT ![s] = Upserted(@, e, p)]
                     ELSE subscriptions

upsertBillingInvoice(e, p) ==
    LET i == EventOf[e].invoice IN
    invoices' = IF i # None /\ EventOf[e].type \in {"invoice.paid", "invoice.finalized"}
                THEN [invoices EXCEPT ![i] = Upserted(@, e, p)]
                ELSE invoices

\* The checkout session an event closes, if its reference is recorded.
CheckoutAfter(e) ==
    LET ev == EventOf[e] IN
    sessState' =
        IF ev.session \notin sessRef THEN sessState
        ELSE CASE ev.type = "checkout.session.completed" ->
                    [sessState EXCEPT ![ev.session] = "complete"]
               [] ev.type = "checkout.session.expired" ->
                    [sessState EXCEPT ![ev.session] =
                        IF @ = "complete" THEN @ ELSE "expired"]
               [] OTHER -> sessState

applyBillingEventEffects(e, p) ==
    LET ev == EventOf[e] IN
    /\ reqState' = [reqState EXCEPT ![p] = StateAfter(ev.type, @)]
    /\ reqLatest' = [reqLatest EXCEPT ![p] =
                        IF Moves(ev.type, reqState[p]) THEN ev.created ELSE @]
    /\ commercial' = [commercial EXCEPT ![p] = CommercialAfter(ev.type, reqState[p], @)]
    /\ markPaymentPaid(e, p)
    /\ CheckoutAfter(e)
    /\ upsertBillingSubscription(e, p)
    /\ upsertBillingInvoice(e, p)

\* One committed transaction: the effects and the receipt together.
applyBillingEventOnce(e) ==
    LET class == Verdict(e) IN
    /\ ~ApplyFails(e)
    /\ IF class = "processed" THEN UNCHANGED receiptVars
       ELSE /\ receipt' = [receipt EXCEPT ![e] = ReceiptAfter(class)]
            /\ receiptClass' = [receiptClass EXCEPT ![e] = class]
    /\ IF class = "none" THEN applyBillingEventEffects(e, PaymentOf(e))
       ELSE UNCHANGED <<paymentVars, rowVars, sessState>>
    /\ UNCHANGED <<sessPayment, sessRef, customers, targetUp>>
============================================================================
