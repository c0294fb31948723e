--------------------------- MODULE BillingProofs ---------------------------
(***************************************************************************)
(* Machine-checked proofs about hosted checkout and the webhook listener,  *)
(* for any number of requirements, checkout keys, provider events and      *)
(* workers, and any order in which the provider delivers.                  *)
(***************************************************************************)
EXTENDS BillingProperties, TLAPS, FiniteSetTheorems

\* The fields of an event have their types.
LEMMA EventFacts ==
    ASSUME NEW e \in Events
    PROVE  /\ EventOf[e].type \in EventTypes
           /\ EventOf[e].created \in Nat /\ EventOf[e].created # 0
           /\ EventOf[e].payment \in Requirements \cup {UnknownPayment, None}
           /\ EventOf[e].session \in Keys \cup {None}
           /\ EventOf[e].cause \in Keys \cup {None}
           /\ EventOf[e].subscription \in Subscriptions \cup {None}
           /\ EventOf[e].invoice \in Invoices \cup {None}
           /\ EventOf[e].customer \in Organisations \cup {None}
  <1>1. EventOf[e] \in Event
    BY BillingAssumption
  <1> QED BY <1>1 DEF Event

\* Where an event takes the state of its requirement.
LEMMA StateAfterFacts ==
    ASSUME NEW t \in EventTypes, NEW s \in RequirementStates
    PROVE  /\ StateAfter(t, s) \in RequirementStates
           /\ StateAfter(t, s) = "paid" => s = "paid" \/ t = "invoice.paid"
           /\ StateAfter(t, s) = "action_required" =>
                 \/ t = "checkout.session.expired"
                 \/ s = "action_required" /\ t # "checkout.session.completed"
  <1>1. CASE ~Moves(t, s)
    BY <1>1 DEF StateAfter, Moves, AlwaysMoves, MovesUnlessPaid
  <1>2. CASE t \in AlwaysMoves
    <2>1. Moves(t, s)
      BY <1>2 DEF Moves
    <2> QED BY <1>2, <2>1 DEF StateAfter, AlwaysMoves, RequirementStates
  <1>3. CASE t \in MovesUnlessPaid /\ s # "paid"
    <2>1. Moves(t, s)
      BY <1>3 DEF Moves
    <2> QED BY <1>3, <2>1 DEF StateAfter, MovesUnlessPaid, RequirementStates
  <1> QED BY <1>1, <1>2, <1>3 DEF Moves

\* The commercial state of an endpoint stays one of its states.
LEMMA CommercialType ==
    ASSUME NEW t \in EventTypes, NEW s, NEW c \in CommercialStates
    PROVE  CommercialAfter(t, s, c) \in CommercialStates
  BY DEF CommercialAfter, CommercialStates

\* A verdict settles a receipt.
LEMMA VerdictSettles ==
    ASSUME NEW c \in FailureClasses
    PROVE  ReceiptAfter(c) \in Settled
  BY DEF ReceiptAfter, Settled, FailureClasses

----------------------------------------------------------------------------
(* What a step does to the ledger.                                         *)

\* A transaction that records its verdict on an event and nothing else.
Recorded(e, c) ==
    /\ receipt[e] # "processed"
    /\ receipt' = [receipt EXCEPT ![e] = ReceiptAfter(c)]
    /\ receiptClass' = [receiptClass EXCEPT ![e] = c]
    /\ ReceiptAfter(c) = "processed" => EventOf[e].payment # None
    /\ UNCHANGED <<paymentVars, rowVars, sessState>>

\* A transaction that applies an event to the requirement it names.
Applied(e) ==
    LET ev == EventOf[e] IN
    /\ receipt[e] # "processed"
    /\ ev.payment \in Requirements
    /\ ev.customer \in {None, RequirementOrg[ev.payment]}
    /\ ev.type \in {"invoice.paid", "checkout.session.completed"} => ev.matches
    /\ reqLatest[ev.payment] <= ev.created
    /\ receipt' = [receipt EXCEPT ![e] = "processed"]
    /\ receiptClass' = [receiptClass EXCEPT ![e] = "none"]
    /\ applyBillingEventEffects(e, ev.payment)

\* A step without a verdict: at most a new receipt is stored.
Quiet ==
    /\ UNCHANGED <<receiptClass, paymentVars, rowVars>>
    /\ \/ receipt' = receipt
       \/ \E e \in Events : /\ receipt[e] = "absent" /\ Emitted(e)
                            /\ receipt' = [receipt EXCEPT ![e] = "received"]

\* A committed transaction passes over a processed event, records a verdict
\* or applies the event.
LEMMA Transaction ==
    ASSUME TypeOK, NEW e \in Events, applyBillingEventOnce(e)
    PROVE  /\ UNCHANGED <<sessPayment, sessRef, customers, targetUp>>
           /\ \/ /\ receipt[e] = "processed"
                 /\ UNCHANGED <<receiptVars, paymentVars, rowVars, sessState>>
              \/ \E c \in FailureClasses \ {"none"} : Recorded(e, c)
              \/ Applied(e)
  <1> DEFINE class == Verdict(e)
  <1>0. UNCHANGED <<sessPayment, sessRef, customers, targetUp>>
    BY DEF applyBillingEventOnce
  <1>1. CASE class = "processed"
    <2>1. receipt[e] = "processed"
      BY <1>1 DEF Verdict, AlreadyProcessed
    <2>2. UNCHANGED <<receiptVars, paymentVars, rowVars, sessState>>
      BY <1>1 DEF applyBillingEventOnce
    <2> QED BY <1>0, <2>1, <2>2
  <1>2. CASE class # "processed" /\ class # "none"
    <2>1. class \in FailureClasses \ {"none"}
      BY <1>2 DEF Verdict, FailureClasses
    <2>2. receipt[e] # "processed"
      BY <1>2 DEF Verdict, AlreadyProcessed
    <2>3. ReceiptAfter(class) = "processed" => EventOf[e].payment # None
      BY <1>2 DEF applyBillingEventOnce, ApplyFails, ReceiptTriggerOk
    <2>4. Recorded(e, class)
      BY <1>2, <2>2, <2>3 DEF applyBillingEventOnce, Recorded
    <2> QED BY <1>0, <2>1, <2>4
  <1>3. CASE class = "none"
    <2>1. receipt[e] # "processed"
      BY <1>3 DEF Verdict, AlreadyProcessed
    <2>2. ReceiptAfter(class) = "processed"
      BY <1>3 DEF ReceiptAfter
    <2>3. EventOf[e].payment # None
      BY <1>3, <2>2 DEF applyBillingEventOnce, ApplyFails, ReceiptTriggerOk
    <2>4. PaymentOf(e) = EventOf[e].payment
      BY <2>3 DEF PaymentOf
    <2> DEFINE p == EventOf[e].payment
    <2>5. /\ p \in Requirements /\ ~CustomerMismatch(e, p)
          /\ ~OutOfOrder(e, p) /\ ~CommercialMismatch(e, p)
      BY <1>3, <2>4 DEF Verdict
    <2>6. EventOf[e].customer \in {None, RequirementOrg[p]}
      BY <2>5 DEF CustomerMismatch
    <2>7. reqLatest[p] <= EventOf[e].created
      <3>1. reqLatest[p] \in Nat
        BY <2>5 DEF TypeOK, BillingTypeOK
      <3> QED BY <2>5, <3>1, EventFacts DEF OutOfOrder
    <2>8. EventOf[e].type \in {"invoice.paid", "checkout.session.completed"} =>
              EventOf[e].matches
      BY <2>5 DEF CommercialMismatch
    <2>9. applyBillingEventEffects(e, p)
      BY <1>3, <2>4 DEF applyBillingEventOnce
    <2>10. /\ receipt' = [receipt EXCEPT ![e] = "processed"]
           /\ receiptClass' = [receiptClass EXCEPT ![e] = "none"]
      BY <1>3, <2>2 DEF applyBillingEventOnce
    <2>11. Applied(e)
      BY <2>1, <2>5, <2>6, <2>7, <2>8, <2>9, <2>10 DEF Applied
    <2> QED BY <1>0, <2>11
  <1> QED BY <1>1, <1>2, <1>3

\* Every step is quiet, records a verdict or applies an event whose receipt
\* is stored.
LEMMA StepKinds ==
    ASSUME TypeOK, \A w \in Workers : WorkerSound(w), [Next]_vars
    PROVE  \/ Quiet
           \/ \E e \in Events : \E c \in FailureClasses \ {"none"} :
                  receipt[e] # "absent" /\ Recorded(e, c)
           \/ \E e \in Events : receipt[e] # "absent" /\ Applied(e)
  <1>1. ASSUME NEW e \in Events, receipt[e] # "absent", applyBillingEventOnce(e)
        PROVE  \/ Quiet
               \/ \E c \in FailureClasses \ {"none"} : Recorded(e, c)
               \/ Applied(e)
    BY <1>1, Transaction DEF Quiet, receiptVars
  <1>2. ASSUME NEW k \in Keys,
               Checkout(k) \/ AbandonCheckout(k) \/ CustomerPays(k) \/ SessionExpires(k)
        PROVE  Quiet
    BY <1>2 DEF Quiet, Checkout, PrepareCheckout, SetBillingCustomer, HostCheckout,
           CompleteCheckout, ReturnCheckout, AbandonCheckout, CustomerPays, SessionExpires,
           billingVars, receiptVars
  <1>3. ASSUME NEW w \in Workers, NEW e \in Events, ReceiveBillingEvent(w, e)
        PROVE  Quiet
    <2>1. UNCHANGED <<receiptClass, paymentVars, rowVars>>
      BY <1>3 DEF ReceiveBillingEvent
    <2>2. CASE receipt[e] = "absent"
      BY <1>3, <2>1, <2>2 DEF ReceiveBillingEvent, Quiet
    <2>3. CASE receipt[e] # "absent"
      <3>1. receipt' = receipt
        BY <1>3, <2>3 DEF ReceiveBillingEvent, TypeOK, BillingTypeOK
      <3> QED BY <2>1, <3>1 DEF Quiet
    <2> QED BY <2>2, <2>3
  <1>4. ASSUME NEW w \in Workers, ApplyBillingEvent(w)
        PROVE  \/ Quiet
               \/ \E e \in Events : \E c \in FailureClasses \ {"none"} :
                      receipt[e] # "absent" /\ Recorded(e, c)
               \/ \E e \in Events : receipt[e] # "absent" /\ Applied(e)
    <2>1. event[w] \in Events /\ receipt[event[w]] # "absent"
      BY <1>4 DEF ApplyBillingEvent, WorkerSound
    <2>2. CASE UNCHANGED billingVars
      BY <2>2 DEF Quiet, billingVars, receiptVars
    <2>3. CASE applyBillingEventOnce(event[w])
      BY <1>1, <2>1, <2>3
    <2> QED BY <1>4, <2>2, <2>3 DEF ApplyBillingEvent
  <1>5. ASSUME NEW w \in Workers, Reconcile(w)
        PROVE  \/ Quiet
               \/ \E e \in Events : \E c \in FailureClasses \ {"none"} :
                      receipt[e] # "absent" /\ Recorded(e, c)
               \/ \E e \in Events : receipt[e] # "absent" /\ Applied(e)
    <2>1. CASE UNCHANGED billingVars
      BY <2>1 DEF Quiet, billingVars, receiptVars
    <2>2. ASSUME NEW e \in todo[w], applyBillingEventOnce(e)
          PROVE  \/ Quiet
                 \/ \E f \in Events : \E c \in FailureClasses \ {"none"} :
                        receipt[f] # "absent" /\ Recorded(f, c)
                 \/ \E f \in Events : receipt[f] # "absent" /\ Applied(f)
      <3>1. e \in Events /\ receipt[e] # "absent"
        BY DEF TypeOK, WorkerSound
      <3> QED BY <1>1, <2>2, <3>1
    <2> QED BY <1>5, <2>1, <2>2 DEF Reconcile
  <1>6. ASSUME NEW w \in Workers, ListDeferred(w) \/ Crash(w)
        PROVE  Quiet
    BY <1>6 DEF Quiet, ListDeferred, Crash, billingVars, receiptVars
  <1>7. CASE ToggleTarget \/ UNCHANGED vars
    BY <1>7 DEF Quiet, ToggleTarget, vars, billingVars, receiptVars
  <1> QED BY <1>2, <1>3, <1>4, <1>5, <1>6, <1>7 DEF Next, Serve

\* A stored receipt stays stored, a settled one settled, and a processed one
\* as it is.
LEMMA ReceiptsGrow ==
    ASSUME BillingInv, [Next]_vars, NEW e \in Events
    PROVE  /\ receipt[e] # "absent" => receipt'[e] # "absent"
           /\ receipt[e] \in Settled => receipt'[e] \in Settled
           /\ receipt[e] = "processed" =>
                 receipt'[e] = "processed" /\ receiptClass'[e] = receiptClass[e]
  <1> USE DEF BillingInv
  <1>0. receipt \in [Events -> ReceiptStates] /\ receiptClass \in [Events -> FailureClasses]
    BY DEF TypeOK, BillingTypeOK
  <1>1. CASE Quiet
    BY <1>0, <1>1 DEF Quiet, Settled
  <1>2. ASSUME NEW f \in Events, NEW c \in FailureClasses, Recorded(f, c)
        PROVE  /\ receipt[e] # "absent" => receipt'[e] # "absent"
               /\ receipt[e] \in Settled => receipt'[e] \in Settled
               /\ receipt[e] = "processed" =>
                     receipt'[e] = "processed" /\ receiptClass'[e] = receiptClass[e]
    BY <1>0, <1>2, VerdictSettles DEF Recorded, Settled
  <1>3. ASSUME NEW f \in Events, Applied(f)
        PROVE  /\ receipt[e] # "absent" => receipt'[e] # "absent"
               /\ receipt[e] \in Settled => receipt'[e] \in Settled
               /\ receipt[e] = "processed" =>
                     receipt'[e] = "processed" /\ receiptClass'[e] = receiptClass[e]
    BY <1>0, <1>3 DEF Applied, Settled
  <1> QED BY <1>1, <1>2, <1>3, StepKinds

----------------------------------------------------------------------------
(* The invariant, part by part.                                            *)

\* The effects of an event keep the tables typed.
LEMMA EffectsTyped ==
    ASSUME TypeOK, NEW e \in Events, Applied(e)
    PROVE  /\ reqState' \in [Requirements -> RequirementStates]
           /\ reqLatest' \in [Requirements -> Nat]
           /\ paidAt' \in [Requirements -> Nat]
           /\ commercial' \in [Requirements -> CommercialStates]
           /\ runtime' \in [Requirements -> RuntimeStates]
           /\ sessState' \in [Keys -> SessionStates]
           /\ subscriptions' \in [Subscriptions -> Row]
           /\ invoices' \in [Invoices -> Row]
  <1> DEFINE p == EventOf[e].payment
  <1> USE EventFacts DEF TypeOK, BillingTypeOK
  <1>0. p \in Requirements /\ applyBillingEventEffects(e, p)
    BY DEF Applied
  <1>1. reqState' \in [Requirements -> RequirementStates]
    BY <1>0, StateAfterFacts DEF applyBillingEventEffects
  <1>2. reqLatest' \in [Requirements -> Nat]
    BY <1>0 DEF applyBillingEventEffects
  <1>3. commercial' \in [Requirements -> CommercialStates]
    BY <1>0, CommercialType DEF applyBillingEventEffects
  <1>4. paidAt' \in [Requirements -> Nat] /\ runtime' \in [Requirements -> RuntimeStates]
    BY <1>0 DEF applyBillingEventEffects, markPaymentPaid, RuntimeStates
  <1>5. sessState' \in [Keys -> SessionStates]
    <2>1. sessState \in [Keys -> SessionStates] /\ CheckoutAfter(e)
      BY <1>0 DEF applyBillingEventEffects
    <2>2. CASE EventOf[e].type = "checkout.session.completed"
      BY <2>1, <2>2 DEF CheckoutAfter, SessionStates
    <2>3. CASE EventOf[e].type = "checkout.session.expired"
      BY <2>1, <2>3 DEF CheckoutAfter, SessionStates
    <2>4. CASE EventOf[e].type \notin SessionEvents
      BY <2>1, <2>4 DEF CheckoutAfter, SessionEvents
    <2> QED BY <2>2, <2>3, <2>4 DEF SessionEvents
  <1>6. \A row \in Row : Upserted(row, e, p) \in Row
    BY <1>0 DEF Upserted, Row
  <1>7. subscriptions' \in [Subscriptions -> Row] /\ invoices' \in [Invoices -> Row]
    BY <1>0, <1>6 DEF applyBillingEventEffects, upsertBillingSubscription, upsertBillingInvoice
  <1> QED BY <1>1, <1>2, <1>3, <1>4, <1>5, <1>7

\* A transaction keeps the ledger typed.
LEMMA TransactionTyped ==
    ASSUME TypeOK, NEW e \in Events, applyBillingEventOnce(e)
    PROVE  BillingTypeOK'
  <1> USE DEF TypeOK, BillingTypeOK
  <1>0. UNCHANGED <<sessPayment, sessRef, customers, targetUp>>
    BY Transaction
  <1>1. CASE UNCHANGED <<receiptVars, paymentVars, rowVars, sessState>>
    BY <1>0, <1>1 DEF receiptVars, paymentVars, rowVars
  <1>2. ASSUME NEW c \in FailureClasses, Recorded(e, c)
        PROVE  BillingTypeOK'
    <2>1. ReceiptAfter(c) \in ReceiptStates
      BY VerdictSettles DEF Settled, ReceiptStates
    <2>2. receipt' \in [Events -> ReceiptStates] /\ receiptClass' \in [Events -> FailureClasses]
      BY <1>2, <2>1 DEF Recorded
    <2>3. UNCHANGED <<paymentVars, rowVars, sessState>>
      BY <1>2 DEF Recorded
    <2> QED BY <1>0, <2>2, <2>3 DEF paymentVars, rowVars
  <1>3. CASE Applied(e)
    <2>1. receipt' \in [Events -> ReceiptStates] /\ receiptClass' \in [Events -> FailureClasses]
      BY <1>3 DEF Applied, ReceiptStates, FailureClasses
    <2> HIDE DEF TypeOK
    <2> QED BY <1>0, <1>3, <2>1, EffectsTyped DEF TypeOK
  <1> HIDE DEF TypeOK, BillingTypeOK
  <1> QED BY <1>1, <1>2, <1>3, Transaction

\* A step of a checkout request, or of its hosted session, keeps the types.
LEMMA CheckoutTyped ==
    ASSUME TypeOK, NEW k \in Keys,
           Checkout(k) \/ AbandonCheckout(k) \/ CustomerPays(k) \/ SessionExpires(k)
    PROVE  TypeOK'
  <1> USE DEF TypeOK, BillingTypeOK, billingVars, receiptVars, paymentVars, sessionVars, rowVars,
              workerVars, CheckoutPlaces, HostedStates, SessionStates
  <1>0. KeyPayment[k] \in Requirements /\ RequirementOrg[KeyPayment[k]] \in Organisations
    BY BillingAssumption, BillingServiceAssumption
  <1>1. CASE PrepareCheckout(k)
    <2>1. sessState' \in [Keys -> SessionStates] /\ sessPayment' \in [Keys -> Requirements \cup {None}]
      BY <1>0, <1>1 DEF PrepareCheckout
    <2> QED BY <1>1, <2>1 DEF PrepareCheckout
  <1>2. CASE SetBillingCustomer(k)
    BY <1>0, <1>2 DEF SetBillingCustomer
  <1>3. CASE HostCheckout(k)
    BY <1>3 DEF HostCheckout
  <1>4. CASE CompleteCheckout(k)
    <2>1. CASE sessState[k] \in {"creating", "open"}
      BY <1>4, <2>1 DEF CompleteCheckout
    <2>2. CASE sessState[k] \notin {"creating", "open"}
      BY <1>4, <2>2 DEF CompleteCheckout
    <2> QED BY <2>1, <2>2
  <1>5. CASE ReturnCheckout(k)
    BY <1>5 DEF ReturnCheckout
  <1>6. CASE AbandonCheckout(k)
    <2>1. faults' \in 0 .. MaxFaults
      BY <1>6, BillingServiceAssumption DEF AbandonCheckout
    <2> QED BY <1>6, <2>1 DEF AbandonCheckout
  <1>7. CASE CustomerPays(k) \/ SessionExpires(k)
    BY <1>7 DEF CustomerPays, SessionExpires
  <1> QED BY <1>1, <1>2, <1>3, <1>4, <1>5, <1>6, <1>7 DEF Checkout

\* Types are preserved.
LEMMA Typed ==
    ASSUME BillingInv, [Next]_vars
    PROVE  TypeOK'
  <1> USE DEF BillingInv
  <1>1. ASSUME NEW w \in Workers, NEW e \in Events, ReceiveBillingEvent(w, e)
        PROVE  TypeOK'
    <2> USE <1>1 DEF TypeOK, BillingTypeOK, ReceiveBillingEvent
    <2>1. receipt' \in [Events -> ReceiptStates]
      BY DEF ReceiptStates
    <2>2. wpc' \in [Workers -> WorkerPlaces] /\ event' \in [Workers -> Events \cup {None}]
      BY DEF WorkerPlaces
    <2>3. acked' \subseteq Events
      OBVIOUS
    <2> QED BY <2>1, <2>2, <2>3 DEF paymentVars, sessionVars, rowVars, checkoutVars
  <1>2. ASSUME NEW w \in Workers, Fail(w), TypeOK
        PROVE  /\ wpc' \in [Workers -> WorkerPlaces]
               /\ event' \in [Workers -> Events \cup {None}]
               /\ todo' \in [Workers -> SUBSET Events] /\ acked' \subseteq Events
    BY <1>2 DEF Fail, TypeOK, WorkerPlaces
  <1>3. UNCHANGED billingVars => BillingTypeOK'
    BY DEF TypeOK, BillingTypeOK, billingVars, receiptVars, paymentVars, sessionVars, rowVars
  <1>4. ASSUME NEW w \in Workers, ApplyBillingEvent(w)
        PROVE  TypeOK'
    <2>1. UNCHANGED <<cpc, hosted, url, faults>>
      BY <1>4 DEF ApplyBillingEvent, checkoutVars
    <2>2. event[w] \in Events
      BY <1>4 DEF ApplyBillingEvent, WorkerSound
    <2>3. CASE ApplyFails(event[w])
      BY <1>2, <1>3, <1>4, <2>1, <2>3 DEF ApplyBillingEvent, TypeOK
    <2>4. CASE ~ApplyFails(event[w])
      <3>1. BillingTypeOK'
        BY <1>4, <2>2, <2>4, TransactionTyped DEF ApplyBillingEvent
      <3>2. wpc' \in [Workers -> WorkerPlaces] /\ UNCHANGED <<event, todo, acked>>
        BY <1>4, <2>4 DEF ApplyBillingEvent, TypeOK, WorkerPlaces
      <3> QED BY <2>1, <3>1, <3>2 DEF TypeOK
    <2> QED BY <2>3, <2>4
  <1>5. ASSUME NEW w \in Workers, ListDeferred(w)
        PROVE  TypeOK'
    <2>1. todo' \in [Workers -> SUBSET Events] /\ wpc' \in [Workers -> WorkerPlaces]
      BY <1>5 DEF ListDeferred, Deferred, TypeOK, WorkerPlaces
    <2> QED BY <1>3, <1>5, <2>1 DEF ListDeferred, TypeOK, checkoutVars
  <1>6. ASSUME NEW w \in Workers, Reconcile(w)
        PROVE  TypeOK'
    <2>1. UNCHANGED <<cpc, hosted, url, faults>>
      BY <1>6 DEF Reconcile, checkoutVars
    <2>2. CASE /\ todo[w] = {} /\ acked' = acked \cup {event[w]}
               /\ wpc' = [wpc EXCEPT ![w] = "idle"] /\ event' = [event EXCEPT ![w] = None]
               /\ UNCHANGED <<billingVars, todo>>
      <3>1. event[w] \in Events
        BY <1>6 DEF Reconcile, WorkerSound
      <3>2. /\ acked' \subseteq Events /\ wpc' \in [Workers -> WorkerPlaces]
            /\ event' \in [Workers -> Events \cup {None}]
        BY <2>2, <3>1 DEF TypeOK, WorkerPlaces
      <3> QED BY <1>3, <2>1, <2>2, <3>2 DEF TypeOK
    <2>3. ASSUME NEW e \in todo[w], Fail(w), UNCHANGED billingVars
          PROVE  TypeOK'
      BY <1>2, <1>3, <2>1, <2>3 DEF TypeOK
    <2>4. ASSUME NEW e \in todo[w], applyBillingEventOnce(e),
                 todo' = [todo EXCEPT ![w] = @ \ {e}], UNCHANGED <<wpc, event, acked>>
          PROVE  TypeOK'
      <3>1. e \in Events
        BY DEF TypeOK
      <3>2. BillingTypeOK'
        BY <2>4, <3>1, TransactionTyped
      <3>3. todo' \in [Workers -> SUBSET Events]
        BY <2>4 DEF TypeOK
      <3> QED BY <2>1, <2>4, <3>2, <3>3 DEF TypeOK
    <2> QED BY <1>6, <2>2, <2>3, <2>4 DEF Reconcile
  <1>7. ASSUME NEW w \in Workers, Crash(w)
        PROVE  TypeOK'
    <2>1. faults' \in 0 .. MaxFaults
      BY <1>7, BillingServiceAssumption DEF Crash, TypeOK
    <2> QED BY <1>2, <1>3, <1>7, <2>1 DEF Crash, TypeOK, checkoutVars
  <1>8. CASE ToggleTarget
    BY <1>8 DEF ToggleTarget, TypeOK, BillingTypeOK, receiptVars, paymentVars, sessionVars,
           rowVars, serviceVars
  <1>9. CASE UNCHANGED vars
    BY <1>3, <1>9 DEF vars, serviceVars, TypeOK
  <1> QED BY <1>1, <1>4, <1>5, <1>6, <1>7, <1>8, <1>9, CheckoutTyped DEF Next, Serve

\* A hosted session that ended stays as it ended.
LEMMA HostedStays ==
    ASSUME TypeOK, [Next]_vars, NEW k \in Keys, hosted[k] \in {"completed", "expired"}
    PROVE  hosted'[k] = hosted[k]
  <1>0. hosted \in [Keys -> HostedStates]
    BY DEF TypeOK
  <1>1. ASSUME NEW l \in Keys, HostCheckout(l) \/ CustomerPays(l) \/ SessionExpires(l)
        PROVE  hosted'[k] = hosted[k]
    BY <1>0, <1>1 DEF HostCheckout, CustomerPays, SessionExpires
  <1>2. CASE UNCHANGED hosted
    BY <1>2
  <1> QED BY <1>1, <1>2 DEF Next, Checkout, Serve, PrepareCheckout, SetBillingCustomer,
        CompleteCheckout, ReturnCheckout, AbandonCheckout, ReceiveBillingEvent, ApplyBillingEvent,
        ListDeferred, Reconcile, Crash, ToggleTarget, checkoutVars, serviceVars, vars

\* What the provider has emitted stays emitted.
LEMMA EmittedStays ==
    ASSUME TypeOK, [Next]_vars, NEW e \in Events, Emitted(e)
    PROVE  Emitted(e)'
  <1>1. EventOf[e].session # None =>
            hosted'[EventOf[e].session] = hosted[EventOf[e].session]
    BY HostedStays, EventFacts DEF Emitted
  <1>2. EventOf[e].cause # None => hosted'[EventOf[e].cause] = hosted[EventOf[e].cause]
    BY HostedStays, EventFacts DEF Emitted
  <1> QED BY <1>1, <1>2 DEF Emitted

\* Receipts stay sound.
LEMMA ReceiptsStaySound ==
    ASSUME BillingInv, [Next]_vars, NEW e \in Events
    PROVE  ReceiptSound(e)'
  <1> USE DEF BillingInv
  <1>0. receipt \in [Events -> ReceiptStates] /\ receiptClass \in [Events -> FailureClasses]
    BY DEF TypeOK, BillingTypeOK
  <1>a. ReceiptSound(e)
    OBVIOUS
  <1>b. \A f \in Events : receipt[f] # "absent" \/ Emitted(f) => Emitted(f)'
    BY EmittedStays DEF ReceiptSound
  <1> DEFINE Fit == /\ EventOf[e].payment \in Requirements
                    /\ EventOf[e].customer \in {None, RequirementOrg[EventOf[e].payment]}
                    /\ EventOf[e].type \in {"invoice.paid", "checkout.session.completed"} =>
                          EventOf[e].matches
  <1>c. /\ receipt[e] = "processed" => EventOf[e].payment # None
        /\ receipt[e] = "processed" /\ receiptClass[e] = "none" => Fit
    BY <1>a DEF ReceiptSound
  <1> DEFINE Kept ==
        /\ receipt'[e] # "absent" => Emitted(e)'
        /\ receipt'[e] = "processed" => EventOf[e].payment # None
        /\ receipt'[e] = "processed" /\ receiptClass'[e] = "none" => Fit
  <1>1. Kept
    <2>1. CASE Quiet
      <3> HIDE DEF Fit
      <3> QED BY <1>0, <1>b, <1>c, <2>1 DEF Quiet
    <2>2. ASSUME NEW f \in Events, NEW c \in FailureClasses \ {"none"},
                 receipt[f] # "absent", Recorded(f, c)
          PROVE  Kept
      <3> HIDE DEF Fit
      <3> QED BY <1>0, <1>b, <1>c, <2>2 DEF Recorded
    <2>3. ASSUME NEW f \in Events, receipt[f] # "absent", Applied(f)
          PROVE  Kept
      <3>1. f = e => Fit /\ EventOf[e].payment # None
        BY <2>3, BillingAssumption DEF Applied
      <3> HIDE DEF Fit
      <3> QED BY <1>0, <1>b, <1>c, <2>3, <3>1 DEF Applied
    <2> HIDE DEF Kept
    <2> QED BY <2>1, <2>2, <2>3, StepKinds
  <1> QED BY <1>1 DEF ReceiptSound

\* Workers hold stored events, settled ones once they were applied.
LEMMA WorkersStaySound ==
    ASSUME BillingInv, [Next]_vars, NEW w \in Workers
    PROVE  WorkerSound(w)'
  <1> USE DEF BillingInv
  <1>0. /\ receipt \in [Events -> ReceiptStates] /\ wpc \in [Workers -> WorkerPlaces]
        /\ event \in [Workers -> Events \cup {None}] /\ todo \in [Workers -> SUBSET Events]
    BY DEF TypeOK, BillingTypeOK
  <1>a. /\ wpc[w] # "idle" => event[w] \in Events /\ receipt[event[w]] # "absent"
        /\ wpc[w] \in {"list", "reconcile"} => receipt[event[w]] \in Settled
        /\ \A e \in todo[w] : receipt[e] # "absent"
    BY DEF WorkerSound
  <1>g. \A e \in Events : /\ receipt[e] # "absent" => receipt'[e] # "absent"
                          /\ receipt[e] \in Settled => receipt'[e] \in Settled
    BY ReceiptsGrow
  <1>1. CASE wpc'[w] = wpc[w] /\ event'[w] = event[w] /\ todo'[w] \subseteq todo[w]
    <2>1. /\ wpc'[w] # "idle" => event'[w] \in Events /\ receipt'[event'[w]] # "absent"
          /\ \A e \in todo'[w] : receipt'[e] # "absent"
      BY <1>0, <1>a, <1>g, <1>1
    <2>2. wpc'[w] \in {"list", "reconcile"} => receipt'[event'[w]] \in Settled
      BY <1>0, <1>a, <1>g, <1>1
    <2> QED BY <2>1, <2>2 DEF WorkerSound
  <1>2. CASE wpc'[w] = "idle" /\ todo'[w] = {}
    BY <1>2 DEF WorkerSound
  <1>3. ASSUME NEW e \in Events, ReceiveBillingEvent(w, e)
        PROVE  WorkerSound(w)'
    <2>1. UNCHANGED todo
      BY <1>3 DEF ReceiveBillingEvent
    <2>2. CASE receipt[e] = "processed"
      BY <1>1, <1>3, <2>1, <2>2 DEF ReceiveBillingEvent
    <2>3. CASE receipt[e] # "processed"
      <3>1. wpc'[w] = "apply" /\ event'[w] = e
        BY <1>0, <1>3, <2>3 DEF ReceiveBillingEvent
      <3>2. receipt'[e] # "absent"
        BY <1>0, <1>3 DEF ReceiveBillingEvent
      <3> QED BY <1>0, <1>a, <1>g, <2>1, <3>1, <3>2 DEF WorkerSound
    <2> QED BY <2>2, <2>3
  <1>4. ASSUME NEW v \in Workers, NEW e \in Events, ReceiveBillingEvent(v, e), v # w
        PROVE  WorkerSound(w)'
    BY <1>0, <1>1, <1>4 DEF ReceiveBillingEvent
  <1>5. CASE ApplyBillingEvent(w)
    <2>1. CASE ApplyFails(event[w])
      BY <1>0, <1>2, <1>5, <2>1 DEF ApplyBillingEvent, Fail
    <2>2. CASE ~ApplyFails(event[w])
      <3>1. event[w] \in Events /\ applyBillingEventOnce(event[w])
        BY <1>a, <1>5, <2>2 DEF ApplyBillingEvent
      <3>2. receipt'[event[w]] \in Settled
        <4>1. CASE /\ receipt[event[w]] = "processed"
                   /\ UNCHANGED <<receiptVars, paymentVars, rowVars, sessState>>
          BY <4>1 DEF receiptVars, Settled
        <4>2. ASSUME NEW c \in FailureClasses, Recorded(event[w], c)
              PROVE  receipt'[event[w]] \in Settled
          BY <1>0, <3>1, <4>2, VerdictSettles DEF Recorded
        <4>3. CASE Applied(event[w])
          BY <1>0, <3>1, <4>3 DEF Applied, Settled
        <4> QED BY <3>1, <4>1, <4>2, <4>3, Transaction
      <3>3. wpc'[w] = "list" /\ event'[w] = event[w] /\ todo'[w] = todo[w]
        BY <1>0, <1>5, <2>2 DEF ApplyBillingEvent
      <3>4. receipt'[event[w]] # "absent"
        BY <3>2 DEF Settled
      <3> QED BY <1>0, <1>a, <1>g, <3>1, <3>2, <3>3, <3>4 DEF WorkerSound
    <2> QED BY <2>1, <2>2
  <1>6. CASE ListDeferred(w)
    <2>1. wpc'[w] = "reconcile" /\ event'[w] = event[w]
      BY <1>0, <1>6 DEF ListDeferred
    <2>2. receipt' = receipt
      BY <1>6 DEF ListDeferred, billingVars, receiptVars
    <2>3. todo'[w] \subseteq Deferred
      BY <1>0, <1>6 DEF ListDeferred
    <2>4. \A e \in todo'[w] : receipt'[e] # "absent"
      BY <2>2, <2>3 DEF Deferred
    <2> QED BY <1>a, <1>6, <2>1, <2>2, <2>4 DEF WorkerSound, ListDeferred
  <1>7. CASE Reconcile(w)
    <2>1. CASE todo[w] = {} /\ wpc' = [wpc EXCEPT ![w] = "idle"] /\ UNCHANGED todo
      BY <1>0, <1>2, <2>1
    <2>2. CASE Fail(w)
      BY <1>0, <1>2, <2>2 DEF Fail
    <2>3. ASSUME NEW e \in todo[w], todo' = [todo EXCEPT ![w] = @ \ {e}],
                 UNCHANGED <<wpc, event>>
          PROVE  WorkerSound(w)'
      <3>1. todo'[w] \subseteq todo[w]
        BY <1>0, <2>3
      <3> QED BY <1>1, <2>3, <3>1
    <2> QED BY <1>7, <2>1, <2>2, <2>3 DEF Reconcile
  <1>8. CASE Crash(w)
    BY <1>0, <1>2, <1>8 DEF Crash, Fail
  <1>9. ASSUME NEW v \in Workers, v # w, Serve(v) \/ Crash(v)
        PROVE  WorkerSound(w)'
    <2>1. wpc'[w] = wpc[w] /\ event'[w] = event[w] /\ todo'[w] = todo[w]
      BY <1>0, <1>9 DEF Serve, Crash, ApplyBillingEvent, ListDeferred, Reconcile, Fail
    <2> QED BY <1>1, <2>1
  <1>10. CASE UNCHANGED <<wpc, event, todo>>
    BY <1>1, <1>10
  <1>11. ASSUME NEW k \in Keys,
                Checkout(k) \/ AbandonCheckout(k) \/ CustomerPays(k) \/ SessionExpires(k)
         PROVE  UNCHANGED <<wpc, event, todo>>
    BY <1>11 DEF Checkout, PrepareCheckout, SetBillingCustomer, HostCheckout,
           CompleteCheckout, ReturnCheckout, AbandonCheckout, CustomerPays, SessionExpires,
           workerVars
  <1>12. ToggleTarget \/ UNCHANGED vars => UNCHANGED <<wpc, event, todo>>
    BY DEF ToggleTarget, vars, serviceVars
  <1> QED BY <1>3, <1>4, <1>5, <1>6, <1>7, <1>8, <1>9, <1>10, <1>11, <1>12 DEF Next, Serve

----------------------------------------------------------------------------
(* What was applied, and what it shows.                                    *)

\* The events applied to a requirement are processed ones that name it.
LEMMA AppliedNow ==
    ASSUME BillingInv, NEW p \in Requirements
    PROVE  AppliedTo(p) = {e \in Events : /\ receipt[e] = "processed"
                                          /\ receiptClass[e] = "none"
                                          /\ EventOf[e].payment = p}
  BY DEF BillingInv, ReceiptSound, AppliedTo, PaymentOf

\* The same after a step.
LEMMA AppliedNext ==
    ASSUME BillingInv, [Next]_vars, NEW p \in Requirements
    PROVE  AppliedTo(p)' = {e \in Events : /\ receipt'[e] = "processed"
                                           /\ receiptClass'[e] = "none"
                                           /\ EventOf[e].payment = p}
  <1>1. \A e \in Events : receipt'[e] = "processed" => EventOf[e].payment # None
    BY ReceiptsStaySound DEF ReceiptSound
  <1>2. \A e \in Events : receipt'[e] = "processed" => PaymentOf(e)' = EventOf[e].payment
    BY <1>1 DEF PaymentOf
  <1> QED BY <1>2 DEF AppliedTo

\* Without a transaction that applies an event, nothing is applied.
LEMMA NothingApplied ==
    ASSUME BillingInv, [Next]_vars, NEW p \in Requirements,
           Quiet \/ \E f \in Events : \E c \in FailureClasses \ {"none"} : Recorded(f, c)
    PROVE  AppliedTo(p)' = AppliedTo(p)
  <1>0. receipt \in [Events -> ReceiptStates] /\ receiptClass \in [Events -> FailureClasses]
    BY DEF BillingInv, TypeOK, BillingTypeOK
  <1>1. ASSUME NEW e \in Events
        PROVE  receipt'[e] = "processed" /\ receiptClass'[e] = "none" <=>
               receipt[e] = "processed" /\ receiptClass[e] = "none"
    <2>1. CASE Quiet
      BY <1>0, <2>1 DEF Quiet
    <2>2. ASSUME NEW f \in Events, NEW c \in FailureClasses \ {"none"}, Recorded(f, c)
          PROVE  receipt'[e] = "processed" /\ receiptClass'[e] = "none" <=>
                 receipt[e] = "processed" /\ receiptClass[e] = "none"
      BY <1>0, <2>2 DEF Recorded
    <2> QED BY <2>1, <2>2
  <1>2. AppliedTo(p) \subseteq Events /\ AppliedTo(p)' \subseteq Events
    BY DEF AppliedTo
  <1>3. ASSUME NEW e \in Events
        PROVE  e \in AppliedTo(p)' <=> e \in AppliedTo(p)
    BY <1>1, AppliedNow, AppliedNext
  <1> QED BY <1>2, <1>3

\* A transaction that applies an event applies that one.
LEMMA OneApplied ==
    ASSUME BillingInv, [Next]_vars, NEW f \in Events, Applied(f), NEW p \in Requirements
    PROVE  /\ p = EventOf[f].payment => AppliedTo(p)' = AppliedTo(p) \cup {f}
           /\ p # EventOf[f].payment => AppliedTo(p)' = AppliedTo(p)
  <1>0. receipt \in [Events -> ReceiptStates] /\ receiptClass \in [Events -> FailureClasses]
    BY DEF BillingInv, TypeOK, BillingTypeOK
  <1>1. /\ receipt[f] # "processed" /\ receipt'[f] = "processed" /\ receiptClass'[f] = "none"
        /\ \A e \in Events \ {f} : receipt'[e] = receipt[e] /\ receiptClass'[e] = receiptClass[e]
    BY <1>0 DEF Applied
  <1>2. AppliedTo(p) \subseteq Events /\ AppliedTo(p)' \subseteq Events
    BY DEF AppliedTo
  <1>3. ASSUME NEW e \in Events
        PROVE  e \in AppliedTo(p)' <=> e \in AppliedTo(p) \/ (e = f /\ p = EventOf[f].payment)
    <2>1. CASE e = f
      BY <1>1, <2>1, AppliedNow, AppliedNext
    <2>2. CASE e # f
      BY <1>1, <2>2, AppliedNow, AppliedNext
    <2> QED BY <2>1, <2>2
  <1> QED BY <1>2, <1>3

\* No event applied later sets a requirement back.
LEMMA NewestStays ==
    ASSUME BillingInv, [Next]_vars
    PROVE  RequirementHoldsNewest'
  <1> SUFFICES ASSUME NEW p \in Requirements, NEW e \in AppliedTo(p)',
                      EventOf[e].type \in AlwaysMoves
               PROVE  EventOf[e].created <= reqLatest'[p]
    BY DEF RequirementHoldsNewest
  <1>0. reqLatest \in [Requirements -> Nat] /\ reqState \in [Requirements -> RequirementStates]
    BY DEF BillingInv, TypeOK, BillingTypeOK
  <1>a. \A x \in AppliedTo(p) : EventOf[x].type \in AlwaysMoves =>
            EventOf[x].created <= reqLatest[p]
    BY DEF BillingInv, RequirementHoldsNewest
  <1>b. e \in Events /\ EventOf[e].created \in Nat
    BY AppliedNext, EventFacts
  <1>1. CASE Quiet \/ \E f \in Events : \E c \in FailureClasses \ {"none"} : Recorded(f, c)
    <2>1. e \in AppliedTo(p)
      BY <1>1, NothingApplied
    <2>2. reqLatest' = reqLatest
      BY <1>1 DEF Quiet, Recorded, paymentVars
    <2> QED BY <1>a, <2>1, <2>2
  <1>2. ASSUME NEW f \in Events, Applied(f)
        PROVE  EventOf[e].created <= reqLatest'[p]
    <2> DEFINE q == EventOf[f].payment
    <2>1. /\ q \in Requirements /\ reqLatest[q] <= EventOf[f].created
          /\ reqLatest' = [reqLatest EXCEPT ![q] =
                 IF Moves(EventOf[f].type, reqState[q]) THEN EventOf[f].created ELSE @]
      BY <1>2 DEF Applied, applyBillingEventEffects
    <2>2. EventOf[f].created \in Nat
      BY EventFacts
    <2>3. CASE p # q
      BY <1>0, <1>2, <1>a, <2>1, <2>3, OneApplied
    <2>4. CASE p = q
      <3>1. reqLatest'[p] = EventOf[f].created \/ reqLatest'[p] = reqLatest[p]
        BY <1>0, <2>1, <2>4
      <3>2. CASE e = f
        <4>1. Moves(EventOf[f].type, reqState[q])
          BY <3>2 DEF Moves
        <4> QED BY <1>0, <1>b, <2>1, <2>4, <3>2, <4>1
      <3>3. CASE e # f
        <4>1. EventOf[e].created <= reqLatest[p]
          BY <1>2, <1>a, <2>4, <3>3, OneApplied
        <4> QED BY <1>0, <1>b, <2>1, <2>2, <2>4, <3>1, <4>1
      <3> QED BY <3>2, <3>3
    <2> QED BY <2>3, <2>4
  <1> QED BY <1>1, <1>2, StepKinds DEF BillingInv

\* What an upsert makes of a row.
LEMMA UpsertFacts ==
    ASSUME NEW row \in Row, NEW e \in Events, NEW p \in Requirements
    PROVE  LET new == Upserted(row, e, p) IN
           /\ new.payment # None
           /\ new.payment = p => EventOf[e].created <= new.latest
           /\ row.payment # None => new.payment = row.payment /\ row.latest <= new.latest
           /\ new \in Row
  <1>1. EventOf[e].created \in Nat /\ p # None
    BY EventFacts, BillingAssumption
  <1>2. row.latest \in Nat /\ (row # NoRow => row.payment \in Requirements)
    BY DEF Row, NoRow
  <1> DEFINE full == [payment |-> p, event |-> e, latest |-> EventOf[e].created]
  <1>a. None \notin Requirements
    BY BillingAssumption
  <1>3. full \in Row /\ full.payment = p /\ full.latest = EventOf[e].created
    BY <1>1 DEF Row
  <1>4. CASE row = NoRow
    BY <1>1, <1>3, <1>4 DEF Upserted, NoRow
  <1>5. CASE row # NoRow /\ row.payment = p /\ row.latest <= EventOf[e].created
    BY <1>1, <1>2, <1>3, <1>5 DEF Upserted
  <1>6. CASE row # NoRow /\ ~(row.payment = p /\ row.latest <= EventOf[e].created)
    <2>1. Upserted(row, e, p) = row
      BY <1>6 DEF Upserted
    <2> QED BY <1>1, <1>2, <1>6, <1>a, <2>1
  <1> QED BY <1>4, <1>5, <1>6

\* No event applied later sets a subscription or an invoice back.
LEMMA RowsStay ==
    ASSUME BillingInv, [Next]_vars
    PROVE  RowsHoldNewest'
  <1> SUFFICES ASSUME NEW p \in Requirements, NEW e \in AppliedTo(p)'
               PROVE  /\ EventOf[e].type \in SubscriptionEvents /\ EventOf[e].subscription # None =>
                            /\ subscriptions'[EventOf[e].subscription].payment # None
                            /\ subscriptions'[EventOf[e].subscription].payment = p =>
                                  EventOf[e].created <= subscriptions'[EventOf[e].subscription].latest
                      /\ EventOf[e].type \in {"invoice.paid", "invoice.finalized"}
                         /\ EventOf[e].invoice # None =>
                            /\ invoices'[EventOf[e].invoice].payment # None
                            /\ invoices'[EventOf[e].invoice].payment = p =>
                                  EventOf[e].created <= invoices'[EventOf[e].invoice].latest
    BY DEF RowsHoldNewest
  <1> DEFINE Shows(x, row) == row.payment # None /\ (row.payment = p => EventOf[x].created <= row.latest)
             s == EventOf[e].subscription
             i == EventOf[e].invoice
  <1>0. subscriptions \in [Subscriptions -> Row] /\ invoices \in [Invoices -> Row]
    BY DEF BillingInv, TypeOK, BillingTypeOK
  <1>b. e \in Events
    BY AppliedNext
  <1>c. /\ EventOf[e].created \in Nat
        /\ s \in Subscriptions \cup {None} /\ i \in Invoices \cup {None}
    BY <1>b, EventFacts
  <1>d. \A row \in Row : row.latest \in Nat
    BY DEF Row, NoRow
  <1>a. ASSUME e \in AppliedTo(p)
        PROVE  /\ EventOf[e].type \in SubscriptionEvents /\ s # None => Shows(e, subscriptions[s])
               /\ EventOf[e].type \in {"invoice.paid", "invoice.finalized"} /\ i # None =>
                     Shows(e, invoices[i])
    BY <1>a DEF BillingInv, RowsHoldNewest
  <1>1. CASE Quiet \/ \E f \in Events : \E c \in FailureClasses \ {"none"} : Recorded(f, c)
    <2>1. e \in AppliedTo(p)
      BY <1>1, NothingApplied
    <2>2. subscriptions' = subscriptions /\ invoices' = invoices
      BY <1>1 DEF Quiet, Recorded, rowVars
    <2> QED BY <1>a, <2>1, <2>2
  <1>2. ASSUME NEW f \in Events, Applied(f)
        PROVE  /\ EventOf[e].type \in SubscriptionEvents /\ s # None => Shows(e, subscriptions'[s])
               /\ EventOf[e].type \in {"invoice.paid", "invoice.finalized"} /\ i # None =>
                     Shows(e, invoices'[i])
    <2> DEFINE q == EventOf[f].payment
    <2>0. /\ q \in Requirements
          /\ upsertBillingSubscription(f, q) /\ upsertBillingInvoice(f, q)
      BY <1>2 DEF Applied, applyBillingEventEffects
    <2>1. e = f \/ e \in AppliedTo(p)
      BY <1>2, OneApplied
    <2>p. e = f => p = q
      BY AppliedNext
    <2>2. ASSUME NEW old \in Row, Shows(e, old)
          PROVE  Shows(e, Upserted(old, f, q))
      <3>1. /\ Upserted(old, f, q).payment = old.payment
            /\ old.latest <= Upserted(old, f, q).latest
            /\ Upserted(old, f, q) \in Row
        BY <2>0, <2>2, UpsertFacts
      <3> QED BY <1>c, <1>d, <2>2, <3>1
    <2>3. ASSUME NEW old \in Row, e = f
          PROVE  Shows(e, Upserted(old, f, q))
      BY <2>0, <2>3, <2>p, UpsertFacts
    <2> HIDE DEF Shows
    <2>4. ASSUME EventOf[e].type \in SubscriptionEvents, s # None
          PROVE  Shows(e, subscriptions'[s])
      <3>0. s \in Subscriptions /\ subscriptions[s] \in Row
        BY <1>0, <1>c, <2>4
      <3>1. CASE e = f
        <4>1. subscriptions'[s] = Upserted(subscriptions[s], f, q)
          BY <1>0, <2>0, <2>4, <3>0, <3>1 DEF upsertBillingSubscription
        <4> QED BY <2>3, <3>0, <3>1, <4>1
      <3>2. CASE e \in AppliedTo(p)
        <4>1. \/ subscriptions'[s] = subscriptions[s]
              \/ subscriptions'[s] = Upserted(subscriptions[s], f, q)
          BY <1>0, <2>0, <3>0 DEF upsertBillingSubscription
        <4> QED BY <1>a, <2>2, <2>4, <3>0, <3>2, <4>1
      <3> QED BY <2>1, <3>1, <3>2
    <2>5. ASSUME EventOf[e].type \in {"invoice.paid", "invoice.finalized"}, i # None
          PROVE  Shows(e, invoices'[i])
      <3>0. i \in Invoices /\ invoices[i] \in Row
        BY <1>0, <1>c, <2>5
      <3>1. CASE e = f
        <4>1. invoices'[i] = Upserted(invoices[i], f, q)
          BY <1>0, <2>0, <2>5, <3>0, <3>1 DEF upsertBillingInvoice
        <4> QED BY <2>3, <3>0, <3>1, <4>1
      <3>2. CASE e \in AppliedTo(p)
        <4>1. \/ invoices'[i] = invoices[i]
              \/ invoices'[i] = Upserted(invoices[i], f, q)
          BY <1>0, <2>0, <3>0 DEF upsertBillingInvoice
        <4> QED BY <1>a, <2>2, <2>5, <3>0, <3>2, <4>1
      <3> QED BY <2>1, <3>1, <3>2
    <2> QED BY <2>4, <2>5
  <1> QED BY <1>1, <1>2, StepKinds DEF BillingInv

\* Payment keeps its evidence.
LEMMA EvidenceStays ==
    ASSUME BillingInv, PaidByEvidence, [Next]_vars
    PROVE  PaidByEvidence'
  <1> SUFFICES ASSUME NEW p \in Requirements,
                      reqState'[p] = "paid" \/ paidAt'[p] # 0 \/ runtime'[p] = "route_bound"
               PROVE  \E e \in AppliedTo(p)' :
                         /\ EventOf[e].type = "invoice.paid" /\ EventOf[e].matches
                         /\ EventOf[e].customer \in {None, RequirementOrg[p]}
                         /\ EventOf[e].created = paidAt'[p]
    BY DEF PaidByEvidence
  <1> DEFINE Shows(e, t) == /\ EventOf[e].type = "invoice.paid" /\ EventOf[e].matches
                            /\ EventOf[e].customer \in {None, RequirementOrg[p]}
                            /\ EventOf[e].created = t
  <1>0. /\ reqState \in [Requirements -> RequirementStates]
        /\ paidAt \in [Requirements -> Nat] /\ runtime \in [Requirements -> RuntimeStates]
    BY DEF BillingInv, TypeOK, BillingTypeOK
  <1>a. reqState[p] = "paid" \/ paidAt[p] # 0 \/ runtime[p] = "route_bound" =>
            \E e \in AppliedTo(p) : Shows(e, paidAt[p])
    BY DEF PaidByEvidence
  <1>b. (\E e \in AppliedTo(p) : Shows(e, paidAt[p])) => paidAt[p] # 0
    BY AppliedNow, EventFacts
  <1>1. CASE Quiet \/ \E f \in Events : \E c \in FailureClasses \ {"none"} : Recorded(f, c)
    <2>1. AppliedTo(p)' = AppliedTo(p)
      BY <1>1, NothingApplied
    <2>2. UNCHANGED <<reqState, paidAt, runtime>>
      BY <1>1 DEF Quiet, Recorded, paymentVars
    <2> QED BY <1>a, <2>1, <2>2
  <1>2. ASSUME NEW f \in Events, Applied(f)
        PROVE  \E e \in AppliedTo(p)' : Shows(e, paidAt'[p])
    <2> DEFINE q == EventOf[f].payment
    <2>0. /\ q \in Requirements /\ markPaymentPaid(f, q)
          /\ reqState' = [reqState EXCEPT ![q] = StateAfter(EventOf[f].type, reqState[q])]
          /\ EventOf[f].customer \in {None, RequirementOrg[q]}
          /\ EventOf[f].type = "invoice.paid" => EventOf[f].matches
      BY <1>2 DEF Applied, applyBillingEventEffects
    <2>1. AppliedTo(p) \subseteq AppliedTo(p)'
      BY <1>2, OneApplied
    <2>2. CASE p # q \/ EventOf[f].type # "invoice.paid"
      <3>1. paidAt'[p] = paidAt[p] /\ runtime'[p] = runtime[p]
        BY <1>0, <2>0, <2>2 DEF markPaymentPaid
      <3>2. reqState'[p] = "paid" => reqState[p] = "paid"
        BY <1>0, <2>0, <2>2, EventFacts, StateAfterFacts
      <3> HIDE DEF Shows
      <3> QED BY <1>a, <2>1, <3>1, <3>2
    <2>3. CASE p = q /\ EventOf[f].type = "invoice.paid"
      <3>1. f \in AppliedTo(p)'
        BY <1>2, <2>3, OneApplied
      <3>2. paidAt'[p] = IF paidAt[p] = 0 THEN EventOf[f].created ELSE paidAt[p]
        BY <1>0, <2>0, <2>3 DEF markPaymentPaid
      <3>3. CASE paidAt[p] = 0
        <4>1. Shows(f, paidAt'[p])
          BY <2>0, <2>3, <3>2, <3>3
        <4> HIDE DEF Shows
        <4> QED BY <3>1, <4>1
      <3>4. CASE paidAt[p] # 0
        <4> HIDE DEF Shows
        <4> QED BY <1>a, <2>1, <3>2, <3>4
      <3> QED BY <3>3, <3>4
    <2> QED BY <2>2, <2>3
  <1> QED BY <1>1, <1>2, StepKinds DEF BillingInv

\* An acknowledged event stays settled.
LEMMA AckedStays ==
    ASSUME BillingInv, AckedIsHandled, [Next]_vars
    PROVE  AckedIsHandled'
  <1>0. acked \subseteq Events
    BY DEF BillingInv, TypeOK
  <1>1. ASSUME NEW e \in acked
        PROVE  receipt'[e] \in Settled
    BY <1>0, ReceiptsGrow DEF AckedIsHandled
  <1>2. CASE acked' = acked
    BY <1>1, <1>2 DEF AckedIsHandled
  <1>3. ASSUME NEW w \in Workers, NEW e \in Events, ReceiveBillingEvent(w, e)
        PROVE  AckedIsHandled'
    <2>1. CASE receipt[e] = "processed"
      <3>1. receipt'[e] \in Settled
        BY <2>1, ReceiptsGrow DEF Settled
      <3> QED BY <1>1, <1>3, <2>1, <3>1 DEF ReceiveBillingEvent, AckedIsHandled
    <2>2. CASE receipt[e] # "processed"
      BY <1>2, <1>3, <2>2 DEF ReceiveBillingEvent
    <2> QED BY <2>1, <2>2
  <1>4. ASSUME NEW w \in Workers, wpc[w] = "reconcile", acked' = acked \cup {event[w]}
        PROVE  AckedIsHandled'
    <2>1. event[w] \in Events /\ receipt[event[w]] \in Settled
      BY <1>4 DEF BillingInv, WorkerSound
    <2>2. receipt'[event[w]] \in Settled
      BY <2>1, ReceiptsGrow
    <2> QED BY <1>1, <1>4, <2>2 DEF AckedIsHandled
  <1>5. ASSUME NEW w \in Workers, Serve(w) \/ Crash(w)
        PROVE  acked' = acked \/ (wpc[w] = "reconcile" /\ acked' = acked \cup {event[w]})
    BY <1>5 DEF Serve, Crash, ApplyBillingEvent, ListDeferred, Reconcile, Fail
  <1>6. ASSUME NEW k \in Keys,
               Checkout(k) \/ AbandonCheckout(k) \/ CustomerPays(k) \/ SessionExpires(k)
        PROVE  acked' = acked
    BY <1>6 DEF Checkout, PrepareCheckout, SetBillingCustomer, HostCheckout,
           CompleteCheckout, ReturnCheckout, AbandonCheckout, CustomerPays, SessionExpires,
           workerVars
  <1>7. ToggleTarget \/ UNCHANGED vars => acked' = acked
    BY DEF ToggleTarget, vars, serviceVars
  <1> QED BY <1>2, <1>3, <1>4, <1>5, <1>6, <1>7 DEF Next

\* A step applies one event at most.
LEMMA AppliesOnce ==
    ASSUME BillingInv, [Next]_vars
    PROVE  OneApplication
  <1>0. BillingTypeOK
    BY DEF BillingInv, TypeOK
  <1>1. \A e \in Events : receipt[e] = "processed" =>
            receipt'[e] = "processed" /\ receiptClass'[e] = receiptClass[e]
    BY ReceiptsGrow
  <1>2. CASE Quiet \/ \E f \in Events : \E c \in FailureClasses \ {"none"} : Recorded(f, c)
    <2>1. (<<paymentVars, rowVars>>)' = <<paymentVars, rowVars>>
      BY <1>2 DEF Quiet, Recorded, paymentVars, rowVars
    <2> QED BY <1>1, <2>1 DEF OneApplication
  <1>3. ASSUME NEW f \in Events, Applied(f)
        PROVE  OneApplication
    <2>1. receipt[f] # "processed" /\ receipt'[f] = "processed" /\ receiptClass'[f] = "none"
      BY <1>0, <1>3 DEF Applied, BillingTypeOK
    <2>2. ASSUME NEW p \in Requirements \ {EventOf[f].payment}
          PROVE  /\ reqState'[p] = reqState[p] /\ paidAt'[p] = paidAt[p]
                 /\ commercial'[p] = commercial[p] /\ runtime'[p] = runtime[p]
      BY <1>0, <1>3 DEF Applied, applyBillingEventEffects, markPaymentPaid, BillingTypeOK
    <2> QED BY <1>1, <2>1, <2>2 DEF OneApplication
  <1> QED BY <1>2, <1>3, StepKinds DEF BillingInv

----------------------------------------------------------------------------
(* Hosted sessions.                                                        *)

\* The sessions of a ledger agree with what the provider hosts, and are one
\* per requirement.
Sessions == (\A k \in Keys : SessionSound(k)) /\ (\A k, l \in Keys : SoleSession(k, l))

\* The webhook listener touches sessions by applying an event only.
LEMMA ListenerSteps ==
    ASSUME BillingInv,
           \/ \E w \in Workers : Serve(w) \/ Crash(w)
           \/ \E w \in Workers, e \in Events : ReceiveBillingEvent(w, e)
           \/ ToggleTarget \/ UNCHANGED vars
    PROVE  /\ UNCHANGED <<cpc, hosted, url, sessPayment, sessRef>>
           /\ \/ UNCHANGED <<sessState, reqState>>
              \/ \E e \in Events : receipt[e] # "absent" /\ Applied(e)
  <1> DEFINE Kept == /\ UNCHANGED <<cpc, hosted, url, sessPayment, sessRef>>
                     /\ \/ UNCHANGED <<sessState, reqState>>
                        \/ \E e \in Events : receipt[e] # "absent" /\ Applied(e)
  <1>1. ASSUME NEW e \in Events, receipt[e] # "absent", applyBillingEventOnce(e),
               UNCHANGED checkoutVars
        PROVE  Kept
    <2>1. UNCHANGED <<cpc, hosted, url, sessPayment, sessRef>>
      BY <1>1, Transaction DEF checkoutVars, BillingInv
    <2>2. ASSUME NEW c, Recorded(e, c)
          PROVE  UNCHANGED <<sessState, reqState>>
      BY <2>2 DEF Recorded, paymentVars
    <2>3. CASE UNCHANGED <<receiptVars, paymentVars, rowVars, sessState>>
      BY <2>1, <2>3 DEF paymentVars
    <2> QED BY <1>1, <2>1, <2>2, <2>3, Transaction DEF BillingInv
  <1>2. UNCHANGED <<billingVars, checkoutVars>> => Kept
    BY DEF billingVars, checkoutVars, paymentVars, sessionVars
  <1>3. ASSUME NEW w \in Workers, ApplyBillingEvent(w)
        PROVE  Kept
    <2>1. event[w] \in Events /\ receipt[event[w]] # "absent"
      BY <1>3 DEF ApplyBillingEvent, BillingInv, WorkerSound
    <2> HIDE DEF Kept
    <2> QED BY <1>1, <1>2, <1>3, <2>1 DEF ApplyBillingEvent
  <1>4. ASSUME NEW w \in Workers, Reconcile(w)
        PROVE  Kept
    <2>1. \A e \in todo[w] : e \in Events /\ receipt[e] # "absent"
      BY DEF BillingInv, TypeOK, WorkerSound
    <2>2. \/ UNCHANGED <<billingVars, checkoutVars>>
          \/ \E e \in todo[w] : applyBillingEventOnce(e) /\ UNCHANGED checkoutVars
      BY <1>4 DEF Reconcile
    <2> HIDE DEF Kept
    <2> QED BY <1>1, <1>2, <2>1, <2>2
  <1>5. ASSUME NEW w \in Workers, ListDeferred(w) \/ Crash(w)
        PROVE  UNCHANGED <<billingVars, checkoutVars>>
    BY <1>5 DEF ListDeferred, Crash
  <1>6. ASSUME NEW w \in Workers, NEW e \in Events, ReceiveBillingEvent(w, e)
        PROVE  Kept
    BY <1>6 DEF ReceiveBillingEvent, paymentVars, sessionVars, checkoutVars
  <1>7. ToggleTarget \/ UNCHANGED vars => Kept
    BY DEF ToggleTarget, vars, serviceVars, billingVars, paymentVars, sessionVars
  <1> HIDE DEF Kept
  <1>8. Kept
    BY <1>2, <1>3, <1>4, <1>5, <1>6, <1>7 DEF Serve
  <1> QED BY <1>8 DEF Kept

\* An applied event leaves the sessions in agreement.
LEMMA ApplicationKeepsSessions ==
    ASSUME BillingInv, [Next]_vars, NEW f \in Events, receipt[f] # "absent", Applied(f),
           UNCHANGED <<cpc, hosted, url, sessPayment, sessRef>>
    PROVE  Sessions'
  <1> DEFINE s == EventOf[f].session
             p == EventOf[f].payment
             t == EventOf[f].type
  <1>0. /\ sessState \in [Keys -> SessionStates] /\ sessRef \subseteq Keys
        /\ reqState \in [Requirements -> RequirementStates]
        /\ receipt \in [Events -> ReceiptStates]
    BY DEF BillingInv, TypeOK, BillingTypeOK
  <1>1. /\ p \in Requirements /\ receipt[f] # "processed"
        /\ receipt' = [receipt EXCEPT ![f] = "processed"]
        /\ reqState' = [reqState EXCEPT ![p] = StateAfter(t, reqState[p])]
        /\ CheckoutAfter(f)
    BY DEF Applied, applyBillingEventEffects
  <1>2. t \in SessionEvents => s \in Keys /\ s # None /\ KeyPayment[s] = p
    BY <1>1, HostedEventsAssumption, BillingAssumption
  <1>3. t \in SessionEvents =>
            hosted[s] = IF t = "checkout.session.expired" THEN "expired" ELSE "completed"
    <2>1. Emitted(f)
      BY DEF BillingInv, ReceiptSound
    <2> QED BY <1>2, <2>1 DEF Emitted
  <1>k. \A k \in Keys : SessionSound(k) /\ KeyPayment[k] \in Requirements
    BY BillingServiceAssumption DEF BillingInv
  <1>g. \A e \in Events : receipt[e] = "processed" => receipt'[e] = "processed"
    BY <1>0, <1>1
  \* How the row of a key moves.
  <1>4. ASSUME NEW k \in Keys
        PROVE  /\ sessState'[k] = sessState[k] \/ (k = s /\ k \in sessRef /\ t \in SessionEvents)
               /\ k = s /\ k \in sessRef /\ t = "checkout.session.completed" =>
                     sessState'[k] = "complete" /\ sessState[k] \in {"open", "complete"}
               /\ k = s /\ k \in sessRef /\ t = "checkout.session.expired" =>
                     sessState'[k] = "expired" /\ sessState[k] \in {"open", "expired"}
    <2>1. /\ k \in sessRef => sessState[k] \in {"open", "complete", "expired"}
          /\ sessState[k] = "complete" => hosted[k] = "completed"
          /\ sessState[k] = "expired" => hosted[k] = "expired"
      BY <1>k DEF SessionSound
    <2>2. CASE t = "checkout.session.completed"
      BY <1>0, <1>1, <1>3, <2>1, <2>2 DEF CheckoutAfter, SessionEvents
    <2>3. CASE t = "checkout.session.expired"
      BY <1>0, <1>1, <1>3, <2>1, <2>3 DEF CheckoutAfter, SessionEvents
    <2>4. CASE t \notin SessionEvents
      BY <1>1, <2>4 DEF CheckoutAfter, SessionEvents
    <2> QED BY <2>2, <2>3, <2>4 DEF SessionEvents
  \* A requirement whose session is complete does not ask for payment again.
  <1>5. ASSUME NEW k \in Keys, sessState'[k] = "complete"
        PROVE  reqState'[KeyPayment[k]] # "action_required"
    <2>0. KeyPayment[k] \in Requirements
      BY <1>k
    <2>1. /\ StateAfter(t, reqState[p]) = "action_required" =>
                \/ t = "checkout.session.expired"
                \/ reqState[p] = "action_required" /\ t # "checkout.session.completed"
      BY <1>0, <1>1, EventFacts, StateAfterFacts
    <2>2. CASE sessState[k] = "complete"
      <3>1. reqState[KeyPayment[k]] # "action_required" /\ hosted[k] = "completed"
        BY <1>k, <2>2 DEF SessionSound
      <3>2. CASE t = "checkout.session.expired" /\ KeyPayment[k] = p
        <4>1. s \in Keys /\ s # k /\ KeyPayment[s] = p /\ hosted[s] = "expired"
          BY <1>2, <1>3, <3>1, <3>2 DEF SessionEvents
        <4>2. sessState[s] \in {"absent", "expired"}
          BY <2>2, <3>2, <4>1 DEF BillingInv, SoleSession
        <4>3. sessState[s] = "expired"
          BY <1>k, <4>1, <4>2 DEF SessionSound
        <4>4. receipt[f] = "processed"
          BY <1>k, <3>2, <4>1, <4>3 DEF SessionSound
        <4> QED BY <1>1, <4>4
      <3>3. CASE KeyPayment[k] # p
        BY <1>0, <1>1, <2>0, <3>1, <3>3
      <3>4. CASE KeyPayment[k] = p /\ t # "checkout.session.expired"
        BY <1>0, <1>1, <2>1, <3>1, <3>4
      <3> QED BY <3>2, <3>3, <3>4
    <2>3. CASE sessState[k] # "complete"
      <3>1. k = s /\ t = "checkout.session.completed"
        BY <1>4, <1>5, <2>3 DEF SessionEvents
      <3>2. KeyPayment[k] = p
        BY <1>2, <3>1 DEF SessionEvents
      <3> QED BY <1>0, <1>1, <2>1, <3>1, <3>2
    <2> QED BY <2>2, <2>3
  <1>6. ASSUME NEW k \in Keys
        PROVE  SessionSound(k)'
    <2>0. SessionSound(k)
      BY <1>k
    <2>1. /\ sessState'[k] = "absent" => cpc'[k] = "idle" /\ hosted'[k] = "none"
          /\ sessState'[k] # "absent" => sessPayment'[k] = KeyPayment[k]
          /\ k \in sessRef' => sessState'[k] \in {"open", "complete", "expired"}
          /\ cpc'[k] = "recorded" \/ k \in url' => k \in sessRef'
          /\ hosted'[k] = "completed" => k \in url'
      BY <1>4, <2>0 DEF SessionSound, SessionEvents
    <2>2. sessState'[k] = "complete" => hosted'[k] = "completed"
      BY <1>3, <1>4, <2>0 DEF SessionSound, SessionEvents
    <2>3. sessState'[k] = "expired" => hosted'[k] = "expired"
      BY <1>3, <1>4, <2>0 DEF SessionSound, SessionEvents
    <2>4. ASSUME sessState'[k] = "expired", NEW e \in Events,
                 EventOf[e].type = "checkout.session.expired", EventOf[e].session = k
          PROVE  receipt'[e] = "processed"
      <3>1. CASE sessState[k] = "expired"
        BY <1>g, <2>0, <2>4, <3>1 DEF SessionSound
      <3>2. CASE sessState[k] # "expired"
        <4>1. k = s /\ t = "checkout.session.expired"
          BY <1>4, <2>4, <3>2 DEF SessionEvents
        <4>2. e = f
          BY <1>2, <2>4, <4>1, HostedEventsAssumption DEF SessionEvents
        <4> QED BY <1>0, <1>1, <4>2
      <3> QED BY <3>1, <3>2
    <2> QED BY <1>5, <2>1, <2>2, <2>3, <2>4 DEF SessionSound
  <1>7. ASSUME NEW k \in Keys, NEW l \in Keys
        PROVE  SoleSession(k, l)'
    <2> SUFFICES ASSUME k # l, KeyPayment[k] = KeyPayment[l],
                        sessState'[k] \in {"creating", "open", "complete"}
                 PROVE  sessState'[l] \in {"absent", "expired"}
      BY DEF SoleSession
    <2>1. sessState[k] \in {"creating", "open", "complete"}
      BY <1>4 DEF SessionEvents
    <2>2. sessState[l] \in {"absent", "expired"}
      BY <2>1 DEF BillingInv, SoleSession
    <2> QED BY <1>4, <2>2 DEF SessionEvents
  <1> QED BY <1>6, <1>7 DEF Sessions

\* The rows of sessions that a step leaves alone stay sound when nothing else
\* about them changes.
LEMMA SameSession ==
    ASSUME BillingInv, [Next]_vars, NEW k \in Keys,
           sessState'[k] = sessState[k], sessPayment'[k] = sessPayment[k],
           k \in sessRef' <=> k \in sessRef, k \in url' <=> k \in url,
           hosted'[k] = hosted[k], cpc'[k] \in {cpc[k], "idle"},
           reqState' = reqState
    PROVE  SessionSound(k)'
  <1>1. SessionSound(k)
    BY DEF BillingInv
  <1>2. \A e \in Events : receipt[e] = "processed" => receipt'[e] = "processed"
    BY ReceiptsGrow
  <1> QED BY <1>1, <1>2 DEF SessionSound

\* The steps of a checkout request and of its hosted session.
LEMMA CheckoutKeepsSessions ==
    ASSUME BillingInv, [Next]_vars, NEW l \in Keys,
           Checkout(l) \/ AbandonCheckout(l) \/ CustomerPays(l) \/ SessionExpires(l)
    PROVE  Sessions'
  <1>0. /\ sessState \in [Keys -> SessionStates] /\ sessRef \subseteq Keys /\ url \subseteq Keys
        /\ sessPayment \in [Keys -> Requirements \cup {None}]
        /\ cpc \in [Keys -> CheckoutPlaces] /\ hosted \in [Keys -> HostedStates]
    BY DEF BillingInv, TypeOK, BillingTypeOK
  <1>a. /\ UNCHANGED <<receipt, reqState>>
        /\ \A k \in Keys \ {l} : /\ sessState'[k] = sessState[k] /\ hosted'[k] = hosted[k]
                                 /\ sessPayment'[k] = sessPayment[k] /\ cpc'[k] = cpc[k]
                                 /\ k \in sessRef' <=> k \in sessRef
                                 /\ k \in url' <=> k \in url
    BY <1>0 DEF Checkout, PrepareCheckout, SetBillingCustomer, HostCheckout, CompleteCheckout,
           ReturnCheckout, AbandonCheckout, CustomerPays, SessionExpires, billingVars,
           receiptVars, paymentVars, sessionVars
  <1>b. \A k \in Keys \ {l} : SessionSound(k)'
    BY <1>a, SameSession
  <1>c. SessionSound(l)
    BY DEF BillingInv
  <1> DEFINE Sole == \A k, m \in Keys : SoleSession(k, m)
  <1>s. Sole
    BY DEF BillingInv
  <1>1. CASE PrepareCheckout(l)
    <2> DEFINE p == KeyPayment[l]
    <2>0. /\ cpc[l] = "idle" /\ cpc'[l] = "prepared" /\ reqState[p] = "action_required"
          /\ UNCHANGED <<sessRef, hosted, url>>
      BY <1>0, <1>1 DEF PrepareCheckout
    <2>1. CASE sessState[l] # "absent" /\ UNCHANGED <<sessState, sessPayment>>
      <3>1. SessionSound(l)'
        BY <1>a, <1>c, <2>0, <2>1 DEF SessionSound
      <3>2. Sole'
        BY <1>s, <2>1 DEF SoleSession
      <3> QED BY <1>b, <3>1, <3>2 DEF Sessions
    <2>2. CASE /\ sessState[l] = "absent" /\ OneOpenSession(p)
               /\ sessState' = [sessState EXCEPT ![l] = "creating"]
               /\ sessPayment' = [sessPayment EXCEPT ![l] = p]
      <3>1. sessState'[l] = "creating" /\ sessPayment'[l] = p
        BY <1>0, <2>2
      <3>2. SessionSound(l)'
        BY <1>a, <1>c, <2>0, <2>2, <3>1 DEF SessionSound
      <3>3. ASSUME NEW k \in Keys, k # l, KeyPayment[k] = p
            PROVE  sessState[k] \in {"absent", "expired"}
        <4>1. SessionSound(k)
          BY DEF BillingInv
        <4>2. sessState[k] # "complete"
          BY <2>0, <3>3, <4>1 DEF SessionSound
        <4>3. sessState[k] \notin {"creating", "open"}
          BY <2>2, <3>3, <4>1 DEF SessionSound, OneOpenSession
        <4> QED BY <1>0, <4>2, <4>3 DEF SessionStates
      <3>4. ASSUME NEW k \in Keys, NEW m \in Keys
            PROVE  SoleSession(k, m)'
        <4>1. CASE k = l
          BY <1>a, <3>3, <4>1 DEF SoleSession
        <4>2. CASE m = l /\ k # l
          BY <1>a, <3>3, <4>2 DEF SoleSession
        <4>3. CASE m # l /\ k # l
          BY <1>a, <1>s, <4>3 DEF SoleSession
        <4> QED BY <4>1, <4>2, <4>3
      <3> QED BY <1>b, <3>2, <3>4 DEF Sessions
    <2> QED BY <1>1, <2>1, <2>2 DEF PrepareCheckout
  <1>2. CASE CompleteCheckout(l) /\ sessState[l] \in {"creating", "open"}
    <2>1. /\ sessState'[l] = "open" /\ l \in sessRef' /\ UNCHANGED <<sessPayment, hosted, url>>
      BY <1>0, <1>2 DEF CompleteCheckout
    <2>2. SessionSound(l)'
      BY <1>a, <1>c, <1>2, <2>1 DEF SessionSound
    <2>3. ASSUME NEW k \in Keys, NEW m \in Keys
          PROVE  SoleSession(k, m)'
      <3>0. SoleSession(k, m)
        BY <1>s
      <3>1. CASE k = l
        BY <1>a, <1>2, <3>0, <3>1 DEF SoleSession
      <3>2. CASE m = l
        BY <1>a, <1>2, <3>0, <3>2 DEF SoleSession
      <3>3. CASE m # l /\ k # l
        BY <1>a, <3>0, <3>3 DEF SoleSession
      <3> QED BY <3>1, <3>2, <3>3
    <2> QED BY <1>b, <2>2, <2>3 DEF Sessions
  <1>3. CASE UNCHANGED <<sessState, sessPayment>>
    <2>1. Sole'
      BY <1>s, <1>3 DEF SoleSession
    <2>2. UNCHANGED <<sessRef, hosted, url>> /\ cpc'[l] \in {cpc[l], "idle"} => SessionSound(l)'
      BY <1>a, <1>3, SameSession
    <2>3. CASE SetBillingCustomer(l)
      <3>1. cpc[l] = "prepared" /\ cpc'[l] = "linked" /\ UNCHANGED <<sessRef, hosted, url>>
        BY <1>0, <2>3 DEF SetBillingCustomer, sessionVars
      <3>2. SessionSound(l)'
        BY <1>a, <1>c, <1>3, <3>1 DEF SessionSound
      <3> QED BY <1>b, <2>1, <3>2 DEF Sessions
    <2>4. CASE HostCheckout(l)
      <3>1. /\ cpc[l] = "linked" /\ cpc'[l] = "hosted" /\ UNCHANGED <<sessRef, url>>
            /\ hosted'[l] = hosted[l] \/ (hosted[l] = "none" /\ hosted'[l] = "live")
        BY <1>0, <2>4 DEF HostCheckout, billingVars, sessionVars
      <3>2. SessionSound(l)'
        BY <1>a, <1>c, <1>3, <3>1 DEF SessionSound
      <3> QED BY <1>b, <2>1, <3>2 DEF Sessions
    <2>5. CASE CompleteCheckout(l) /\ sessState[l] \notin {"creating", "open"}
      <3>1. cpc'[l] = "idle" /\ UNCHANGED <<sessRef, hosted, url>>
        BY <1>0, <2>5 DEF CompleteCheckout
      <3> QED BY <1>b, <2>1, <2>2, <3>1 DEF Sessions
    <2>6. CASE ReturnCheckout(l)
      <3>1. /\ cpc[l] = "recorded" /\ cpc'[l] = "idle" /\ url' = url \cup {l}
            /\ UNCHANGED <<sessRef, hosted>>
        BY <1>0, <2>6 DEF ReturnCheckout, billingVars, sessionVars
      <3>2. SessionSound(l)'
        BY <1>a, <1>c, <1>3, <3>1 DEF SessionSound
      <3> QED BY <1>b, <2>1, <3>2 DEF Sessions
    <2>7. CASE AbandonCheckout(l)
      <3>1. cpc'[l] = "idle" /\ UNCHANGED <<sessRef, hosted, url>>
        BY <1>0, <2>7 DEF AbandonCheckout, billingVars, sessionVars
      <3> QED BY <1>b, <2>1, <2>2, <3>1 DEF Sessions
    <2>8. CASE CustomerPays(l) \/ SessionExpires(l)
      <3>1. /\ hosted[l] = "live" /\ UNCHANGED <<cpc, sessRef, url>>
            /\ (hosted'[l] = "completed" /\ l \in url) \/ hosted'[l] = "expired"
        BY <1>0, <2>8 DEF CustomerPays, SessionExpires, billingVars, sessionVars
      <3>2. SessionSound(l)'
        BY <1>a, <1>c, <1>3, <3>1 DEF SessionSound
      <3> QED BY <1>b, <2>1, <3>2 DEF Sessions
    <2>9. CASE PrepareCheckout(l)
      BY <1>1, <2>9
    <2> QED BY <1>2, <2>3, <2>4, <2>5, <2>6, <2>7, <2>8, <2>9 DEF Checkout
  <1>4. \/ PrepareCheckout(l) \/ (CompleteCheckout(l) /\ sessState[l] \in {"creating", "open"})
        \/ UNCHANGED <<sessState, sessPayment>>
    BY DEF Checkout, SetBillingCustomer, HostCheckout, CompleteCheckout, ReturnCheckout,
           AbandonCheckout, CustomerPays, SessionExpires, billingVars, sessionVars
  <1> QED BY <1>1, <1>2, <1>3, <1>4

\* Sessions stay in agreement with the provider, one per requirement.
LEMMA SessionsStay ==
    ASSUME BillingInv, [Next]_vars
    PROVE  Sessions'
  <1>1. ASSUME UNCHANGED <<cpc, hosted, url, sessPayment, sessRef>>,
               UNCHANGED <<sessState, reqState>>
        PROVE  Sessions'
    <2>1. \A k \in Keys : SessionSound(k)'
      BY <1>1, SameSession
    <2>2. \A k, l \in Keys : SoleSession(k, l)'
      BY <1>1 DEF BillingInv, SoleSession
    <2> QED BY <2>1, <2>2 DEF Sessions
  <1>2. ASSUME \/ \E w \in Workers : Serve(w) \/ Crash(w)
               \/ \E w \in Workers, e \in Events : ReceiveBillingEvent(w, e)
               \/ ToggleTarget \/ UNCHANGED vars
        PROVE  Sessions'
    BY <1>1, <1>2, ListenerSteps, ApplicationKeepsSessions
  <1> QED BY <1>2, CheckoutKeepsSessions DEF Next

----------------------------------------------------------------------------
(* The theorems.                                                           *)

\* The initial state satisfies the invariant.
LEMMA InitSound == Init => BillingInv /\ PaidByEvidence /\ AckedIsHandled
  <1> SUFFICES ASSUME Init
               PROVE  BillingInv /\ PaidByEvidence /\ AckedIsHandled
    OBVIOUS
  <1> USE DEF Init, BillingInit
  <1>1. TypeOK
    BY BillingServiceAssumption DEF TypeOK, BillingTypeOK, ReceiptStates, FailureClasses,
           RequirementStates, CommercialStates, RuntimeStates, SessionStates, Row,
           CheckoutPlaces, HostedStates, WorkerPlaces
  <1>2. \A p \in Requirements : AppliedTo(p) = {}
    BY DEF AppliedTo
  <1>3. RequirementHoldsNewest /\ RowsHoldNewest /\ PaidByEvidence /\ AckedIsHandled
    BY <1>2 DEF RequirementHoldsNewest, RowsHoldNewest, PaidByEvidence, AckedIsHandled
  <1>4. \A e \in Events : ReceiptSound(e)
    BY DEF ReceiptSound
  <1>5. \A w \in Workers : WorkerSound(w)
    BY DEF WorkerSound
  <1>6. (\A k \in Keys : SessionSound(k)) /\ (\A k, l \in Keys : SoleSession(k, l))
    BY DEF SessionSound, SoleSession
  <1> QED BY <1>1, <1>3, <1>4, <1>5, <1>6 DEF BillingInv

\* A step preserves the invariant.
LEMMA StepSound == BillingInv /\ [Next]_vars => BillingInv'
  <1> SUFFICES ASSUME BillingInv, [Next]_vars
               PROVE  BillingInv'
    OBVIOUS
  <1>1. (\A k \in Keys : SessionSound(k)') /\ (\A k, l \in Keys : SoleSession(k, l)')
    BY SessionsStay DEF Sessions
  <1> QED BY <1>1, Typed, ReceiptsStaySound, WorkersStaySound, NewestStays, RowsStay DEF BillingInv

\* The tables of the billing ledger agree with each other in every reachable
\* state: a requirement, a subscription and an invoice show the newest event
\* applied to them, whatever was applied was fit to be, and a requirement has
\* one session that is not expired (applyBillingEventOnce, PrepareCheckout).
THEOREM Ledger == Spec => []BillingInv
  BY InitSound, StepSound, PTL DEF Spec

\* A requirement counts as paid, and gets its route, on the strength of an
\* applied invoice.paid event of the agreed amount and customer only
\* (applyBillingEventOnce, markPaymentPaid).
THEOREM Evidence == Spec => []PaidByEvidence
  <1>1. BillingInv /\ PaidByEvidence /\ [Next]_vars => PaidByEvidence'
    BY EvidenceStays
  <1> QED BY <1>1, InitSound, Ledger, PTL DEF Spec

\* The provider is told to stop delivering an event only when a transaction
\* has reached a verdict on it (ServeHTTP).
THEOREM Acknowledged == Spec => []AckedIsHandled
  <1>1. BillingInv /\ AckedIsHandled /\ [Next]_vars => AckedIsHandled'
    BY AckedStays
  <1> QED BY <1>1, InitSound, Ledger, PTL DEF Spec

\* However often an event is delivered, it changes payment state once
\* (applyBillingEventOnce).
THEOREM Once == Spec => AppliedOnce
  <1>1. BillingInv /\ [Next]_vars => [OneApplication]_vars
    BY AppliesOnce
  <1> QED BY <1>1, Ledger, PTL DEF Spec, AppliedOnce

\* At most one hosted session of a requirement is ever paid (PrepareCheckout,
\* CompleteCheckout, applyBillingEventOnce).
THEOREM PaidOnce == Spec => []NoDoublePayment
  <1>1. BillingInv => NoDoublePayment
    <2> SUFFICES ASSUME BillingInv, NEW p \in Requirements
                 PROVE  Cardinality({k \in Keys : KeyPayment[k] = p /\ hosted[k] = "completed"}) <= 1
      BY DEF NoDoublePayment
    <2> DEFINE paid == {k \in Keys : KeyPayment[k] = p /\ hosted[k] = "completed"}
    <2>1. ASSUME NEW k \in paid
          PROVE  sessState[k] \in {"open", "complete"}
      BY DEF BillingInv, SessionSound
    <2>2. ASSUME NEW k \in paid, NEW l \in paid
          PROVE  k = l
      <3>1. SoleSession(k, l)
        BY DEF BillingInv
      <3> QED BY <2>1, <3>1 DEF SoleSession
    <2>3. CASE paid = {}
      BY <2>3, FS_EmptySet
    <2>4. ASSUME NEW k \in paid
          PROVE  Cardinality(paid) <= 1
      <3>1. paid = {k}
        BY <2>2, <2>4
      <3>2. Cardinality({k}) = 1
        BY FS_Singleton, Zenon
      <3> HIDE DEF paid
      <3> QED BY <3>1, <3>2
    <2> QED BY <2>3, <2>4
  <1> QED BY <1>1, Ledger, PTL
============================================================================
