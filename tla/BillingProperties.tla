------------------------- MODULE BillingProperties -------------------------
(***************************************************************************)
(* What hosted checkout and the webhook listener promise.                  *)
(***************************************************************************)
EXTENDS Billing

\* The events that were applied to requirement p.
AppliedTo(p) ==
    {e \in Events : receipt[e] = "processed" /\ receiptClass[e] = "none" /\ PaymentOf(e) = p}

\* A requirement counts as paid, and a shared endpoint gets its route, only on
\* the strength of an applied invoice.paid event of the agreed amount from the
\* organisation's own customer; the redirect of a hosted session, an event for
\* another amount or one of another customer never does (applyBillingEventOnce,
\* markPaymentPaid).
PaidByEvidence ==
    \A p \in Requirements :
        reqState[p] = "paid" \/ paidAt[p] # 0 \/ runtime[p] = "route_bound" =>
            \E e \in AppliedTo(p) :
                /\ EventOf[e].type = "invoice.paid" /\ EventOf[e].matches
                /\ EventOf[e].customer \in {None, RequirementOrg[p]}
                /\ EventOf[e].created = paidAt[p]

\* The step applies at most one event, and none that was applied before.
OneApplication ==
    /\ \A e \in Events : receipt[e] = "processed" =>
          receipt'[e] = "processed" /\ receiptClass'[e] = receiptClass[e]
    /\ (<<paymentVars, rowVars>>)' # <<paymentVars, rowVars>> =>
          \E e \in Events :
              /\ receipt[e] # "processed" /\ receipt'[e] = "processed"
              /\ receiptClass'[e] = "none"
              /\ \A p \in Requirements \ {EventOf[e].payment} :
                    /\ reqState'[p] = reqState[p] /\ paidAt'[p] = paidAt[p]
                    /\ commercial'[p] = commercial[p] /\ runtime'[p] = runtime[p]

\* However often and by however many workers an event is delivered, it changes
\* payment state once: a step that changes a requirement, its endpoint, its
\* subscription or its invoice is the step in which the receipt of one event of
\* that requirement becomes processed, and a processed receipt stays as it is
\* (the FOR UPDATE read and finishBillingReceipt of applyBillingEventOnce).
AppliedOnce == [][OneApplication]_vars

\* A requirement reflects the newest payment event applied to it: no later
\* delivery of an older event sets it back (the latest_event_at comparison).
RequirementHoldsNewest ==
    \A p \in Requirements : \A e \in AppliedTo(p) :
        EventOf[e].type \in AlwaysMoves => EventOf[e].created <= reqLatest[p]

\* A subscription or invoice row reflects the newest event applied to it, also
\* when its events do not touch the requirement and so are not ordered by it
\* (the WHERE of the two upserts).
RowsHoldNewest ==
    \A p \in Requirements : \A e \in AppliedTo(p) :
        LET ev == EventOf[e] IN
        /\ ev.type \in SubscriptionEvents /\ ev.subscription # None =>
              LET row == subscriptions[ev.subscription] IN
              row.payment # None /\ (row.payment = p => ev.created <= row.latest)
        /\ ev.type \in {"invoice.paid", "invoice.finalized"} /\ ev.invoice # None =>
              LET row == invoices[ev.invoice] IN
              row.payment # None /\ (row.payment = p => ev.created <= row.latest)

\* A processed receipt names its requirement, and one without a failure
\* class was fit to be applied.
ReceiptSound(e) ==
    LET ev == EventOf[e] IN
    /\ receipt[e] # "absent" => Emitted(e)
    /\ receipt[e] = "processed" => ev.payment # None
    /\ receipt[e] = "processed" /\ receiptClass[e] = "none" =>
          /\ ev.payment \in Requirements
          /\ ev.customer \in {None, RequirementOrg[ev.payment]}
          /\ ev.type \in {"invoice.paid", "checkout.session.completed"} => ev.matches

\* The receipts on which a transaction has reached a verdict.
Settled == {"processed", "deferred", "rejected"}

\* What a worker holds is stored, and settled once it was applied.
WorkerSound(w) ==
    /\ wpc[w] # "idle" => event[w] \in Events /\ receipt[event[w]] # "absent"
    /\ wpc[w] \in {"list", "reconcile"} => receipt[event[w]] \in Settled
    /\ \A e \in todo[w] : receipt[e] # "absent"

\* The row of a checkout key agrees with the session the provider hosts.
SessionSound(k) ==
    /\ sessState[k] = "absent" => cpc[k] = "idle" /\ hosted[k] = "none"
    /\ sessState[k] # "absent" => sessPayment[k] = KeyPayment[k]
    /\ k \in sessRef => sessState[k] \in {"open", "complete", "expired"}
    /\ cpc[k] = "recorded" \/ k \in url => k \in sessRef
    /\ hosted[k] = "completed" => k \in url
    /\ sessState[k] = "complete" =>
          hosted[k] = "completed" /\ reqState[KeyPayment[k]] # "action_required"
    /\ sessState[k] = "expired" =>
          /\ hosted[k] = "expired"
          /\ \A e \in Events :
                EventOf[e].type = "checkout.session.expired" /\ EventOf[e].session = k =>
                    receipt[e] = "processed"

\* A requirement has one session that is not expired.
SoleSession(k, l) ==
    /\ k # l /\ KeyPayment[k] = KeyPayment[l]
    /\ sessState[k] \in {"creating", "open", "complete"}
    => sessState[l] \in {"absent", "expired"}

\* The rows of the billing ledger are well formed and agree with each other:
\* a requirement, a subscription and an invoice each show the newest event
\* applied to them, in whatever order and by whatever worker the events were
\* applied; what was applied was fit to be; and of the sessions of a
\* requirement one at most is not expired (applyBillingEventOnce and its
\* upserts, PrepareCheckout).
BillingInv ==
    /\ TypeOK
    /\ \A e \in Events : ReceiptSound(e)
    /\ \A w \in Workers : WorkerSound(w)
    /\ RequirementHoldsNewest
    /\ RowsHoldNewest
    /\ \A k \in Keys : SessionSound(k)
    /\ \A k, l \in Keys : SoleSession(k, l)

\* The provider is told to stop delivering an event only when a transaction
\* has reached a verdict on it, whatever crashes in between (ServeHTTP answers
\* 200 after ApplyBillingEvent).
AckedIsHandled ==
    \A e \in acked : receipt[e] \in Settled

\* Whatever keys the customer retries with and whichever requests die on the
\* way, at most one hosted session of a requirement is ever paid.
NoDoublePayment ==
    \A p \in Requirements :
        Cardinality({k \in Keys : KeyPayment[k] = p /\ hosted[k] = "completed"}) <= 1

\* Every emitted event that names its requirement and is not rejected is
\* acknowledged in the end, whatever delivery dies and whatever deferred
\* receipt cannot be reconciled beside it, provided the shared target stays
\* available from some time: a delivery that fails is repeated until one runs
\* to its end or finds the event processed (ServeHTTP, ApplyBillingEvent).  A
\* rejected event is never found processed, and beside such a receipt every
\* delivery of it fails.  A payment whose target stays unavailable fails every
\* time as well, and so does a subscription event without a customer.
EventuallyAcked ==
    <>[]targetUp =>
        <>[](\A e \in {f \in Events : EventOf[f].payment # None /\ SubscriptionRowOk(f, "none")} :
                Emitted(e) /\ receipt[e] # "rejected" => e \in acked)

----------------------------------------------------------------------------
(* Statements of the documentation.                                        *)

\* The comment in ApplyBillingEvent: an event whose references a later event
\* makes resolvable is reconciled.
DeferredReconciled ==
    \A e \in Events :
        receipt[e] = "deferred" /\ PaymentOf(e) \in Requirements ~> receipt[e] = "processed"
============================================================================
