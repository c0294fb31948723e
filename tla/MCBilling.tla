----------------------------- MODULE MCBilling -----------------------------
(***************************************************************************)
(* Small instances of checkout and the webhook listener.  Each world is a  *)
(* list of provider events; an event id is its place in the list.          *)
(***************************************************************************)
EXTENDS BillingProperties

CONSTANTS p1, p2, o1, o2, k1, k2, s1, i1

\* An event about requirement p1, caused by the payment of session k1.
Fact(type, created) ==
    [type |-> type, created |-> created, payment |-> p1, session |-> None,
     cause |-> k1, subscription |-> None, invoice |-> None, customer |-> o1,
     matches |-> TRUE]

Session(type, created, k) ==
    [Fact(type, created) EXCEPT !.session = k, !.cause = None]
OfInvoice(type, created) == [Fact(type, created) EXCEPT !.subscription = s1, !.invoice = i1]
OfSubscription(type, created) == [Fact(type, created) EXCEPT !.subscription = s1]

Mine     == [p \in Requirements |-> o1]
EveryKey == [k \in Keys |-> p1]

\* A payment whose invoice carries no tag, the subscription that leads to it,
\* the same payment with its tag, and one of another amount.
LifeFacts == <<[OfInvoice("invoice.paid", 2) EXCEPT !.payment = None],
               OfSubscription("customer.subscription.created", 1),
               OfInvoice("invoice.paid", 2),
               [OfInvoice("invoice.paid", 2) EXCEPT !.matches = FALSE]>>

\* A session for p1 that ends either way while another key waits, and its
\* payment: of another amount, of another customer, with a tag that names
\* nothing or none at all, and as agreed; the end of a dispute and a refund.
StrangeFacts == <<Session("checkout.session.completed", 1, k1),
                  Session("checkout.session.expired", 2, k1),
                  [OfInvoice("invoice.paid", 2) EXCEPT !.matches = FALSE],
                  [OfInvoice("invoice.paid", 2) EXCEPT !.customer = o2],
                  [OfInvoice("invoice.finalized", 1) EXCEPT !.payment = UnknownPayment],
                  [OfInvoice("invoice.paid", 3) EXCEPT !.payment = None],
                  OfInvoice("invoice.paid", 3),
                  Fact("charge.dispute.closed", 4),
                  Fact("charge.refunded", 4)>>

\* An invoice that carries no tag and the subscription that leads to it.
LinkedFacts == <<[OfInvoice("invoice.paid", 2) EXCEPT !.payment = None],
                 OfSubscription("customer.subscription.created", 1)>>

Life        == [e \in Events |-> LifeFacts[e]]
Strange     == [e \in Events |-> StrangeFacts[e]]
LinkedLater == [e \in Events |-> LinkedFacts[e]]
============================================================================
