------------------------------ MODULE Billing ------------------------------
(***************************************************************************)
(* Hosted checkout and the webhook listener over the tables of module      *)
(* BillingLedger.  A checkout request with idempotency key k prepares a    *)
(* session row, links the organisation's customer, has the provider host a *)
(* session and records it, each in a transaction or call of its own.  A    *)
(* webhook worker stores the receipt of a delivered event, applies it, and *)
(* then tries the deferred ones.  The provider delivers events in any      *)
(* order, again and again until one delivery is acknowledged, and          *)
(* sometimes after.                                                        *)
(***************************************************************************)
EXTENDS BillingLedger

CONSTANTS
    KeyPayment,  \* [Keys -> Requirements]: what the checkout with a key pays
    Workers,     \* webhook requests served at the same time
    BatchLimit,  \* deferred receipts one delivery reconciles
    TargetToggles, \* BOOLEAN: operators switch the shared target off and on
    MaxFaults    \* bound: requests that die on the way

ASSUME BillingServiceAssumption ==
    /\ KeyPayment \in [Keys -> Requirements]
    /\ BatchLimit \in Nat \ {0}
    /\ TargetToggles \in BOOLEAN
    /\ MaxFaults \in Nat

SessionEvents == {"checkout.session.completed", "checkout.session.expired"}

\* What the provider guarantees of the events about its sessions.  Their tag
\* is the metadata the session was created with, so it names the requirement
\* of the key; and a session runs out once, in one event.
ASSUME HostedEventsAssumption ==
    /\ \A e \in Events :
          EventOf[e].type \in SessionEvents /\ EventOf[e].payment \in Requirements =>
              /\ EventOf[e].session \in Keys
              /\ KeyPayment[EventOf[e].session] = EventOf[e].payment
    /\ \A e, f \in Events :
          /\ EventOf[e].type = "checkout.session.expired"
          /\ EventOf[f].type = "checkout.session.expired"
          /\ EventOf[e].session = EventOf[f].session /\ EventOf[e].session # None
          => e = f

VARIABLES
    cpc,     \* [Keys -> CheckoutPlaces]: where the checkout request is
    hosted,  \* [Keys -> HostedStates]: the provider's session for the key
    url,     \* the keys whose hosted URL reached the customer
    wpc,     \* [Workers -> WorkerPlaces]
    event,   \* [Workers -> Events \cup {None}]: the event being served
    todo,    \* [Workers -> SUBSET Events]: deferred receipts still to try
    acked,   \* the events of which a delivery was answered with 200
    faults

serviceVars == <<cpc, hosted, url, wpc, event, todo, acked, faults>>
checkoutVars == <<cpc, hosted, url>>
workerVars   == <<wpc, event, todo, acked>>
vars == <<billingVars, serviceVars>>

CheckoutPlaces == {"idle", "prepared", "linked", "hosted", "recorded"}
HostedStates   == {"none", "live", "completed", "expired"}
WorkerPlaces   == {"idle", "apply", "list", "reconcile"}

TypeOK ==
    /\ BillingTypeOK
    /\ cpc \in [Keys -> CheckoutPlaces]
    /\ hosted \in [Keys -> HostedStates]
    /\ url \subseteq Keys
    /\ wpc \in [Workers -> WorkerPlaces]
    /\ event \in [Workers -> Events \cup {None}]
    /\ todo \in [Workers -> SUBSET Events]
    /\ acked \subseteq Events
    /\ faults \in 0 .. MaxFaults

Init ==
    /\ BillingInit
    /\ cpc = [k \in Keys |-> "idle"]
    /\ hosted = [k \in Keys |-> "none"]
    /\ url = {}
    /\ wpc = [w \in Workers |-> "idle"]
    /\ event = [w \in Workers |-> None]
    /\ todo = [w \in Workers |-> {}]
    /\ acked = {}
    /\ faults = 0

----------------------------------------------------------------------------
(* Hosted checkout.                                                        *)

\* Mutant: the open sessions of a requirement are not counted.
OneOpenSessionAny(p) == TRUE

\* The unique index on the sessions of a requirement that are not over.
OneOpenSession(p) ==
    \A k \in Keys : sessPayment[k] = p => sessState[k] \notin {"creating", "open"}

\* A request with a known key goes on with its session row, whatever became
\* of it; a new key needs a requirement that awaits payment and no other
\* session under way.
PrepareCheckout(k) ==
    LET p == KeyPayment[k] IN
    /\ cpc[k] = "idle"
    /\ reqState[p] = "action_required"
    /\ \/ /\ sessState[k] # "absent"
          /\ UNCHANGED <<sessState, sessPayment>>
       \/ /\ sessState[k] = "absent"
          /\ OneOpenSession(p)
          /\ sessState' = [sessState EXCEPT ![k] = "creating"]
          /\ sessPayment' = [sessPayment EXCEPT ![k] = p]
    /\ cpc' = [cpc EXCEPT ![k] = "prepared"]
    /\ UNCHANGED <<receiptVars, paymentVars, sessRef, rowVars, customers, targetUp,
                   hosted, url, workerVars, faults>>

\* The customer is created under a key derived from the organisation, so
\* every attempt links the same one.
SetBillingCustomer(k) ==
    /\ cpc[k] = "prepared"
    /\ customers' = customers \cup {RequirementOrg[KeyPayment[k]]}
    /\ cpc' = [cpc EXCEPT ![k] = "linked"]
    /\ UNCHANGED <<receiptVars, paymentVars, sessionVars, rowVars, targetUp,
                   hosted, url, workerVars, faults>>

\* The provider answers a repeated operation key with the session it has.
HostCheckout(k) ==
    /\ cpc[k] = "linked"
    /\ hosted' = [hosted EXCEPT ![k] = IF @ = "none" THEN "live" ELSE @]
    /\ cpc' = [cpc EXCEPT ![k] = "hosted"]
    /\ UNCHANGED <<billingVars, url, workerVars, faults>>

CompleteCheckout(k) ==
    /\ cpc[k] = "hosted"
    /\ IF sessState[k] \in {"creating", "open"}
       THEN /\ sessState' = [sessState EXCEPT ![k] = "open"]
            /\ sessRef' = sessRef \cup {k}
            /\ cpc' = [cpc EXCEPT ![k] = "recorded"]
       ELSE /\ cpc' = [cpc EXCEPT ![k] = "idle"]
            /\ UNCHANGED <<sessState, sessRef>>
    /\ UNCHANGED <<receiptVars, paymentVars, sessPayment, rowVars, customers, targetUp,
                   hosted, url, workerVars, faults>>

\* The hosted URL is returned to the browser.
ReturnCheckout(k) ==
    /\ cpc[k] = "recorded"
    /\ cpc' = [cpc EXCEPT ![k] = "idle"]
    /\ url' = url \cup {k}
    /\ UNCHANGED <<billingVars, hosted, workerVars, faults>>

\* A checkout request fails or dies between two of its steps.
AbandonCheckout(k) ==
    /\ cpc[k] # "idle"
    /\ faults < MaxFaults
    /\ faults' = faults + 1
    /\ cpc' = [cpc EXCEPT ![k] = "idle"]
    /\ UNCHANGED <<billingVars, hosted, url, workerVars>>

----------------------------------------------------------------------------
(* The webhook listener.                                                   *)

\* Session events follow what the provider's session did; the events of an
\* invoice, a subscription or a charge follow the payment they come from.
Emitted(e) ==
    LET ev == EventOf[e] IN
    /\ ev.session # None =>
          hosted[ev.session] = IF ev.type = "checkout.session.expired"
                               THEN "expired" ELSE "completed"
    /\ ev.cause # None => hosted[ev.cause] = "completed"

\* Mutant: an event is acknowledged when it is stored.
ReceiveEarly(w, e) ==
    /\ wpc[w] = "idle" /\ Emitted(e)
    /\ receipt' = [receipt EXCEPT ![e] = IF @ = "absent" THEN "received" ELSE @]
    /\ IF receipt[e] = "processed" THEN UNCHANGED <<wpc, event>>
       ELSE /\ wpc' = [wpc EXCEPT ![w] = "apply"]
            /\ event' = [event EXCEPT ![w] = e]
    /\ acked' = acked \cup {e}
    /\ UNCHANGED <<receiptClass, paymentVars, sessionVars, rowVars, customers, targetUp,
                   checkoutVars, todo, faults>>

\* Mutant: storing a receipt that is already there is an error.
ReceiveNewOnly(w, e) ==
    /\ wpc[w] = "idle" /\ Emitted(e)
    /\ receipt' = [receipt EXCEPT ![e] = IF @ = "absent" THEN "received" ELSE @]
    /\ wpc' = [wpc EXCEPT ![w] = IF receipt[e] = "absent" THEN "apply" ELSE @]
    /\ event' = [event EXCEPT ![w] = IF receipt[e] = "absent" THEN e ELSE @]
    /\ UNCHANGED <<receiptClass, paymentVars, sessionVars, rowVars, customers, targetUp,
                   checkoutVars, todo, acked, faults>>

\* The receipt is stored once; an event that is processed is acknowledged
\* without looking further.
ReceiveBillingEvent(w, e) ==
    /\ wpc[w] = "idle" /\ Emitted(e)
    /\ receipt' = [receipt EXCEPT ![e] = IF @ = "absent" THEN "received" ELSE @]
    /\ IF receipt[e] = "processed"
       THEN /\ acked' = acked \cup {e}
            /\ UNCHANGED <<wpc, event>>
       ELSE /\ wpc' = [wpc EXCEPT ![w] = "apply"]
            /\ event' = [event EXCEPT ![w] = e]
            /\ UNCHANGED acked
    /\ UNCHANGED <<receiptClass, paymentVars, sessionVars, rowVars, customers, targetUp,
                   checkoutVars, todo, faults>>

\* The request ends with an error; the provider will deliver again.
Fail(w) ==
    /\ wpc' = [wpc EXCEPT ![w] = "idle"]
    /\ event' = [event EXCEPT ![w] = None]
    /\ todo' = [todo EXCEPT ![w] = {}]
    /\ UNCHANGED acked

ApplyBillingEvent(w) ==
    /\ wpc[w] = "apply"
    /\ IF ApplyFails(event[w])
       THEN Fail(w) /\ UNCHANGED billingVars
       ELSE /\ applyBillingEventOnce(event[w])
            /\ wpc' = [wpc EXCEPT ![w] = "list"]
            /\ UNCHANGED <<event, todo, acked>>
    /\ UNCHANGED <<checkoutVars, faults>>

Deferred == {e \in Events : receipt[e] = "deferred"}

\* The oldest deferred receipts, up to the limit, without the one served.
ListDeferred(w) ==
    /\ wpc[w] = "list"
    /\ todo' = [todo EXCEPT ![w] =
           {e \in Deferred : Cardinality({f \in Deferred :
                EventOf[f].created < EventOf[e].created}) < BatchLimit} \ {event[w]}]
    /\ wpc' = [wpc EXCEPT ![w] = "reconcile"]
    /\ UNCHANGED <<billingVars, checkoutVars, event, acked, faults>>

Reconcile(w) ==
    /\ wpc[w] = "reconcile"
    /\ \/ /\ todo[w] = {}
          /\ acked' = acked \cup {event[w]}
          /\ wpc' = [wpc EXCEPT ![w] = "idle"]
          /\ event' = [event EXCEPT ![w] = None]
          /\ UNCHANGED <<billingVars, todo>>
       \/ \E e \in todo[w] :
            /\ \A f \in todo[w] : EventOf[e].created <= EventOf[f].created
            /\ IF ApplyFails(e)
               THEN Fail(w) /\ UNCHANGED billingVars
               ELSE /\ applyBillingEventOnce(e)
                    /\ todo' = [todo EXCEPT ![w] = @ \ {e}]
                    /\ UNCHANGED <<wpc, event, acked>>
    /\ UNCHANGED <<checkoutVars, faults>>

\* The listener dies, or its database connection or its caller goes away.
Crash(w) ==
    /\ wpc[w] # "idle"
    /\ faults < MaxFaults
    /\ faults' = faults + 1
    /\ Fail(w)
    /\ UNCHANGED <<billingVars, checkoutVars>>

----------------------------------------------------------------------------
(* The world outside.                                                      *)

\* The customer pays at the hosted URL, or the hosted session runs out.
CustomerPays(k) ==
    /\ hosted[k] = "live" /\ k \in url
    /\ hosted' = [hosted EXCEPT ![k] = "completed"]
    /\ UNCHANGED <<billingVars, cpc, url, workerVars, faults>>

SessionExpires(k) ==
    /\ hosted[k] = "live"
    /\ hosted' = [hosted EXCEPT ![k] = "expired"]
    /\ UNCHANGED <<billingVars, cpc, url, workerVars, faults>>

\* An operator disables or enables the target, or somebody binds the model's
\* route to another one and back.
ToggleTarget ==
    /\ TargetToggles
    /\ targetUp' = ~targetUp
    /\ UNCHANGED <<receiptVars, paymentVars, sessionVars, rowVars, customers, serviceVars>>

Checkout(k) == \/ PrepareCheckout(k) \/ SetBillingCustomer(k) \/ HostCheckout(k)
               \/ CompleteCheckout(k) \/ ReturnCheckout(k)
Serve(w)    == ApplyBillingEvent(w) \/ ListDeferred(w) \/ Reconcile(w)

Next ==
    \/ \E k \in Keys : Checkout(k) \/ AbandonCheckout(k) \/ CustomerPays(k) \/ SessionExpires(k)
    \/ \E w \in Workers, e \in Events : ReceiveBillingEvent(w, e)
    \/ \E w \in Workers : Serve(w) \/ Crash(w)
    \/ ToggleTarget

Spec == Init /\ [][Next]_vars

\* A webhook request runs to its end, and the provider delivers an event
\* again and again until a delivery is acknowledged.  The listener serves any
\* number of requests, so Workers being busy never turns a delivery away for
\* good: delivery is strongly fair.
FairSpec ==
    /\ Spec
    /\ \A w \in Workers : WF_vars(Serve(w))
    /\ \A e \in Events :
          SF_vars(e \notin acked /\ \E w \in Workers : ReceiveBillingEvent(w, e))
============================================================================
