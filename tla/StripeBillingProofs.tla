------------------------ MODULE StripeBillingProofs ------------------------
(***************************************************************************)
(* For every number of subscriptions, workers, requests, events and        *)
(* failures: the billing model keeps its types, ClaimInv is inductive, no  *)
(* event is applied twice, and the endpoint implements WebhookLedger.      *)
(***************************************************************************)
EXTENDS StripeBilling, SequenceTheorems, FiniteSetTheorems, TLAPS

-----------------------------------------------------------------------------
(* Helpers *)

\* The columns written by a session are plans, ids and customers like those
\* it was given.
LEMMA MergeType ==
    ASSUME NEW current \in Rows, NEW loaded \in Rows, NEW new \in Rows
    PROVE  Merge(current, loaded, new) \in Rows
BY DEF Merge, Rows

\* A handler turns a row into a row, whichever event it handles.
LEMMA HandleType ==
    ASSUME NEW row \in Rows, NEW ev \in EventRecords
    PROVE  Handle(row, ev) \in Rows
<1>1. HandleCheckoutCompleted(row, ev) \in Rows
  BY DEF HandleCheckoutCompleted, Rows, EventRecords
<1>2. HandleSubscriptionUpdated(row, ev) \in Rows
  <2>1. PlanOf(ev.price) \in Plans
    BY DEF PlanOf, Plans, EventRecords
  <2> QED
    BY <2>1 DEF HandleSubscriptionUpdated, Rows, EventRecords, Plans
<1>3. HandleSubscriptionDeleted(row, ev) \in Rows
  BY DEF HandleSubscriptionDeleted, Rows, Plans
<1> QED
  BY <1>1, <1>2, <1>3 DEF Handle

\* The rows and requests nobody holds are well typed.
LEMMA BlankTypes == BlankRow \in Rows
BY DEF BlankRow, Rows, Plans

\* What Emit does to the list of events and to the deliverable ones.
LEMMA EmitEffect ==
    ASSUME BoundsAssumption, TypeOK, NEW evs \in Seq(EventRecords), Emit(evs)
    PROVE  /\ emitted' \in Seq(EventRecords)
           /\ Len(emitted') <= MaxEvents
           /\ Len(emitted') = Len(emitted) + Len(evs)
           /\ live' = live \cup (Len(emitted) + 1 .. Len(emitted'))
           /\ live' \subseteq 1 .. Len(emitted')
           /\ acked' \subseteq 1 .. Len(emitted')
           /\ UNCHANGED <<orderly, acked, appVars, historyVars>>
<1>1. /\ emitted \in Seq(EventRecords)
      /\ live \subseteq 1 .. Len(emitted)
      /\ acked \subseteq 1 .. Len(emitted)
  BY DEF TypeOK
<1>2. /\ emitted' = emitted \o evs
      /\ live' = live \cup (Len(emitted) + 1 .. Len(emitted) + Len(evs))
      /\ Len(emitted) + Len(evs) <= MaxEvents
      /\ UNCHANGED <<orderly, acked, appVars, historyVars>>
  BY DEF Emit
<1>3. emitted' \in Seq(EventRecords) /\ Len(emitted') = Len(emitted) + Len(evs)
  BY <1>1, <1>2, ConcatProperties
<1>4. Len(emitted) \in Nat /\ Len(evs) \in Nat
  BY <1>1, LenProperties
<1>5. acked' = acked
  BY <1>2
<1>6. live' \subseteq 1 .. Len(emitted') /\ acked' \subseteq 1 .. Len(emitted')
  <2> DEFINE n == Len(emitted)  m == Len(evs)
  <2>1. n \in Nat /\ m \in Nat /\ Len(emitted') = n + m
    BY <1>3, <1>4
  <2>2. 1 .. n \subseteq 1 .. n + m /\ n + 1 .. n + m \subseteq 1 .. n + m
    <3> HIDE DEF n, m
    <3> QED
      BY <2>1
  <2> QED
    BY <1>1, <1>2, <1>5, <2>1, <2>2
<1> QED
  BY <1>2, <1>3, <1>6

-----------------------------------------------------------------------------
\* Nothing is claimed, emitted or in hand at the start.
THEOREM InitClaimInv == BoundsAssumption /\ Init => ClaimInv
<1> SUFFICES ASSUME BoundsAssumption, Init PROVE ClaimInv
  OBVIOUS
<1>1. TypeOK
  BY BlankTypes, TiersAssumption
  DEF Init, TypeOK, IdleWorker, IdleCheckout, Statuses, WorkerRecords,
      CheckoutRecords, BoundsAssumption, TiersAssumption
<1> QED
  BY <1>1 DEF Init, ClaimInv, ClaimCounts, ClaimHeld, OneHolder, Holds, IdleWorker

-----------------------------------------------------------------------------
(* Steps that leave the claims, the events and the workers alone *)

\* What the claim invariants read.
claimVars == <<worker, processed, claims, applied, emitted, live>>

LEMMA ClaimsUntouched ==
    ASSUME ClaimInv, UNCHANGED claimVars, TypeOK' PROVE ClaimInv'
BY DEF claimVars, ClaimInv, ClaimCounts, ClaimHeld, OneHolder, Holds

\* A checkout changes the account and its own request only.
LEMMA CheckoutKeepsClaimInv ==
    ASSUME ClaimInv, NEW r \in Requests, CheckoutStep(r) PROVE ClaimInv'
<1> USE DEF stripeVars, historyVars, claimVars
<1>t. TypeOK
  BY DEF ClaimInv
<1>1. ASSUME NEW tier \in Tiers, BeginCheckout(r, tier) PROVE ClaimInv'
  <2>1. TypeOK'
    BY <1>1, <1>t, BlankTypes DEF TypeOK, CheckoutRecords, BeginCheckout
  <2> QED
    BY <2>1, <1>1, ClaimsUntouched DEF BeginCheckout
<1>2. CASE CreateCustomer(r)
  <2>1. IdleCheckout \in CheckoutRecords
    BY BlankTypes DEF IdleCheckout, CheckoutRecords
  <2>2. ASSUME NEW u \in Rows PROVE [u EXCEPT !.customer = Customer] \in Rows
    BY DEF Rows
  <2>3. [checkout[r] EXCEPT !.pc = "load", !.user.customer = Customer] \in CheckoutRecords
    <3>1. checkout[r] \in CheckoutRecords
      BY <1>t DEF TypeOK
    <3>2. [checkout[r].user EXCEPT !.customer = Customer] \in Rows
      BY <3>1, <2>2 DEF CheckoutRecords
    <3> QED
      BY <3>1, <3>2 DEF CheckoutRecords
  <2>4. checkout' \in [Requests -> CheckoutRecords]
    BY <2>1, <2>3, <1>2, <1>t DEF TypeOK, CreateCustomer
  <2>5. TypeOK'
    BY <2>4, <1>2, <1>t DEF TypeOK, CreateCustomer
  <2> QED
    BY <2>5, <1>2, ClaimsUntouched DEF CreateCustomer
<1>3. CASE LoadForUpdate(r)
  <2>1. TypeOK'
    BY <1>3, <1>t DEF TypeOK, CheckoutRecords, LoadForUpdate
  <2> QED
    BY <2>1, <1>3, ClaimsUntouched DEF LoadForUpdate
<1>4. CASE SaveUser(r)
  <2>1. account' \in Rows
    BY <1>4, <1>t, MergeType DEF TypeOK, CheckoutRecords, SaveUser
  <2>2. checkout' \in [Requests -> CheckoutRecords]
    <3>1. [IdleCheckout EXCEPT !.pc = "session", !.tier = checkout[r].tier] \in CheckoutRecords
      BY <1>t, BlankTypes DEF TypeOK, IdleCheckout, CheckoutRecords
    <3> QED
      BY <3>1, <1>4, <1>t DEF TypeOK, SaveUser
  <2>3. TypeOK'
    BY <2>1, <2>2, <1>4, <1>t DEF TypeOK, SaveUser
  <2> QED
    BY <2>3, <1>4, ClaimsUntouched DEF SaveUser
<1>5. CASE CreateSession(r)
  <2>1. sessions' \subseteq PricedTiers
    BY <1>5, <1>t DEF TypeOK, CreateSession
  <2>2. checkout' \in [Requests -> CheckoutRecords]
    BY <1>5, <1>t, BlankTypes DEF TypeOK, CreateSession, IdleCheckout, CheckoutRecords
  <2>3. TypeOK'
    BY <2>1, <2>2, <1>5, <1>t DEF TypeOK, CreateSession
  <2> QED
    BY <2>3, <1>5, ClaimsUntouched DEF CreateSession
<1> QED
  BY <1>1, <1>2, <1>3, <1>4, <1>5 DEF CheckoutStep

-----------------------------------------------------------------------------
(* Stripe's steps *)

\* New events are unclaimed, so emitting them disturbs no claim.
LEMMA EmitKeepsClaimInv ==
    ASSUME BoundsAssumption, ClaimInv,
           NEW evs \in Seq(EventRecords), Emit(evs),
           subs' \in [Subs -> [status : Statuses, price : Prices]],
           sessions' \subseteq PricedTiers
    PROVE  ClaimInv'
<1>1. TypeOK
  BY DEF ClaimInv
<1>2. /\ emitted' \in Seq(EventRecords)
      /\ Len(emitted') <= MaxEvents
      /\ Len(emitted') = Len(emitted) + Len(evs)
      /\ live' = live \cup (Len(emitted) + 1 .. Len(emitted'))
      /\ live' \subseteq 1 .. Len(emitted')
      /\ acked' \subseteq 1 .. Len(emitted')
      /\ UNCHANGED <<orderly, acked, appVars, historyVars>>
  BY <1>1, EmitEffect
<1>3. /\ UNCHANGED <<account, processed, worker, checkout, failures>>
      /\ UNCHANGED <<orderly, acked, claims, applied>>
  BY <1>2 DEF appVars, historyVars
<1>4. TypeOK'
  BY <1>1, <1>2, <1>3 DEF TypeOK
<1>5. Len(emitted) \in Nat /\ Len(evs) \in Nat /\ Len(emitted') >= Len(emitted)
  BY <1>1, <1>2, LenProperties DEF TypeOK
<1>6. ClaimCounts'
  <2> SUFFICES ASSUME NEW e \in Events
               PROVE  /\ claims[e] <= 1
                      /\ applied[e] <= claims[e]
                      /\ e \in live' /\ claims[e] = 1 => e \in processed
                      /\ e > Len(emitted') => claims[e] = 0
    BY <1>3 DEF ClaimCounts
  <2>1. /\ claims[e] <= 1
        /\ applied[e] <= claims[e]
        /\ e \in live /\ claims[e] = 1 => e \in processed
        /\ e > Len(emitted) => claims[e] = 0
    BY DEF ClaimInv, ClaimCounts
  <2>2. e \in Nat
    BY DEF Events
  <2> QED
    BY <2>1, <2>2, <1>2, <1>5
<1>7. ClaimHeld' /\ OneHolder'
  BY <1>2, <1>3 DEF ClaimInv, ClaimHeld, OneHolder, Holds
<1> QED
  BY <1>4, <1>6, <1>7 DEF ClaimInv

\* What Stripe does to its subscriptions, and what it stops sending, leaves
\* every claim as it is.
LEMMA StripeKeepsClaimInv ==
    ASSUME BoundsAssumption, TiersAssumption, ClaimInv, StripeStep PROVE ClaimInv'
<1>t. TypeOK
  BY DEF ClaimInv
<1>e. ASSUME NEW type \in {"completed", "updated", "deleted", "payment_failed"},
             NEW s \in Subs, NEW sub \in [status : Statuses, price : Prices]
      PROVE  Event(type, s, sub) \in EventRecords
  BY DEF Event, EventRecords
<1>1. ASSUME NEW s \in Subs, NEW tier \in PricedTiers, CompleteCheckout(s, tier)
      PROVE  ClaimInv'
  <2>1. subs' \in [Subs -> [status : Statuses, price : Prices]]
    BY <1>1, <1>t, TiersAssumption
    DEF TypeOK, CompleteCheckout, Statuses, PricedTiers, TiersAssumption
  <2>2. sessions' \subseteq PricedTiers
    BY <1>1, <1>t DEF TypeOK, CompleteCheckout
  <2>3. <<Event("completed", s, subs'[s]), Event("updated", s, subs'[s])>> \in Seq(EventRecords)
    BY <2>1, <1>e
  <2> QED
    BY <1>1, <2>1, <2>2, <2>3, EmitKeepsClaimInv DEF CompleteCheckout
<1>2. ASSUME NEW s \in Subs, NEW price \in Prices,
             NEW status \in Statuses \ {"canceled"}, ChangeSubscription(s, price, status)
      PROVE  ClaimInv'
  <2>1. subs' \in [Subs -> [status : Statuses, price : Prices]]
    BY <1>2, <1>t DEF TypeOK, ChangeSubscription
  <2>2. sessions' \subseteq PricedTiers
    BY <1>2, <1>t DEF TypeOK, ChangeSubscription
  <2>3. <<Event("updated", s, subs'[s])>> \in Seq(EventRecords)
    BY <2>1, <1>e
  <2> QED
    BY <1>2, <2>1, <2>2, <2>3, EmitKeepsClaimInv DEF ChangeSubscription
<1>3. ASSUME NEW s \in Subs, PaymentFails(s) PROVE ClaimInv'
  <2>1. subs' \in [Subs -> [status : Statuses, price : Prices]] /\ sessions' \subseteq PricedTiers
    BY <1>3, <1>t DEF TypeOK, PaymentFails
  <2>2. <<Event("payment_failed", s, subs[s])>> \in Seq(EventRecords)
    BY <1>t, <1>e DEF TypeOK
  <2> QED
    BY <1>3, <2>1, <2>2, EmitKeepsClaimInv DEF PaymentFails
<1>4. ASSUME NEW s \in Subs, CancelSubscription(s) PROVE ClaimInv'
  <2>1. subs' \in [Subs -> [status : Statuses, price : Prices]] /\ sessions' \subseteq PricedTiers
    BY <1>4, <1>t DEF TypeOK, CancelSubscription, Statuses
  <2>2. <<Event("deleted", s, subs'[s])>> \in Seq(EventRecords)
    BY <2>1, <1>e
  <2> QED
    BY <1>4, <2>1, <2>2, EmitKeepsClaimInv DEF CancelSubscription
<1>5. ASSUME NEW e \in Events, Expire(e) PROVE ClaimInv'
  <2>1. TypeOK'
    BY <1>5, <1>t DEF TypeOK, Expire, appVars, historyVars
  <2>2. ClaimCounts' /\ ClaimHeld' /\ OneHolder'
    BY <1>5, <1>t DEF ClaimInv, ClaimCounts, ClaimHeld, OneHolder, Holds, Expire,
                     appVars, historyVars
  <2> QED
    BY <2>1, <2>2 DEF ClaimInv
<1> QED
  BY <1>1, <1>2, <1>3, <1>4, <1>5 DEF StripeStep

-----------------------------------------------------------------------------
(* The webhook endpoint *)

\* The event of a delivery in hand is one Stripe has emitted.
LEMMA EventInHand ==
    ASSUME ClaimInv, NEW w \in Workers, worker[w].pc # "idle"
    PROVE  /\ worker[w] \in WorkerRecords
           /\ worker[w].event \in Events
           /\ worker[w].event \in 1 .. Len(emitted)
           /\ worker[w].event \in live
           /\ emitted[worker[w].event] \in EventRecords
<1>1. worker[w] \in WorkerRecords /\ live \subseteq 1 .. Len(emitted)
  BY DEF ClaimInv, TypeOK
<1>2. worker[w].event \in live
  BY DEF ClaimInv, ClaimHeld
<1>3. worker[w].event \in 1 .. Len(emitted)
  BY <1>1, <1>2
<1>4. emitted \in Seq(EventRecords) /\ Len(emitted) \in Nat /\ Len(emitted) <= MaxEvents
  BY LenProperties DEF ClaimInv, TypeOK
<1>5. emitted[worker[w].event] \in EventRecords
  BY <1>3, <1>4, ElementOfSeq
<1>6. worker[w].event \in Events
  <2> DEFINE n == Len(emitted)
  <2>1. n \in Nat /\ n <= MaxEvents /\ worker[w].event \in 1 .. n
    BY <1>3, <1>4
  <2> HIDE DEF n
  <2> QED
    BY <2>1, BoundsAssumption DEF Events, BoundsAssumption
<1> QED
  BY <1>1, <1>2, <1>3, <1>5, <1>6

\* An idle worker is one of the records a worker can be.
LEMMA IdleType == IdleWorker \in WorkerRecords
BY BlankTypes DEF IdleWorker, WorkerRecords

\* A new delivery holds no claim yet.
LEMMA DeliverKeepsClaimInv ==
    ASSUME ClaimInv, NEW w \in Workers, NEW e \in Events, Deliver(w, e) PROVE ClaimInv'
<1>t. TypeOK
  BY DEF ClaimInv
<1>1. [IdleWorker EXCEPT !.pc = "received", !.event = e] \in WorkerRecords
  BY BlankTypes DEF IdleWorker, WorkerRecords
<1>2. TypeOK'
  BY <1>1, <1>t DEF TypeOK, Deliver, stripeVars, historyVars
<1>3. /\ worker' = [worker EXCEPT ![w] = [IdleWorker EXCEPT !.pc = "received", !.event = e]]
      /\ e \in live
      /\ UNCHANGED <<processed, claims, applied, emitted, live>>
  BY DEF Deliver, stripeVars, historyVars
<1>4. worker'[w].pc = "received" /\ worker'[w].event = e
  BY <1>3, <1>t DEF TypeOK, IdleWorker
<1>5. \A v \in Workers \ {w} : worker'[v] = worker[v]
  BY <1>3, <1>t DEF TypeOK
<1>6. ClaimCounts'
  BY <1>3 DEF ClaimInv, ClaimCounts
<1>7. ClaimHeld'
  BY <1>3, <1>4, <1>5 DEF ClaimInv, ClaimHeld, Holds
<1>8. OneHolder'
  BY <1>4, <1>5 DEF ClaimInv, OneHolder, Holds
<1> QED
  BY <1>2, <1>6, <1>7, <1>8 DEF ClaimInv

\* A worker that goes idle without applying anything leaves the claims alone.
LEMMA ReleaseKeepsClaimInv ==
    ASSUME ClaimInv, TypeOK', NEW w \in Workers,
           worker' = [worker EXCEPT ![w] = IdleWorker],
           UNCHANGED <<processed, claims, applied, emitted, live>>
    PROVE  ClaimInv'
<1>1. worker'[w].pc = "idle"
  BY DEF ClaimInv, TypeOK, IdleWorker
<1>2. \A v \in Workers \ {w} : worker'[v] = worker[v]
  BY DEF ClaimInv, TypeOK
<1>3. ClaimCounts'
  BY DEF ClaimInv, ClaimCounts
<1>4. ClaimHeld' /\ OneHolder'
  BY <1>1, <1>2 DEF ClaimInv, ClaimHeld, OneHolder, Holds
<1> QED
  BY <1>3, <1>4 DEF ClaimInv

\* Answering a duplicate, and dying, release the worker and no more.
LEMMA SkipKeepsClaimInv ==
    ASSUME ClaimInv, NEW w \in Workers, SkipDuplicate(w) PROVE ClaimInv'
<1>1. worker[w].event \in 1 .. Len(emitted)
  BY EventInHand DEF SkipDuplicate
<1>2. TypeOK'
  BY <1>1, IdleType DEF ClaimInv, TypeOK, SkipDuplicate, Acknowledge, historyVars
<1> QED
  BY <1>2, ReleaseKeepsClaimInv DEF SkipDuplicate, Acknowledge, historyVars

\* A delivery that dies takes its claim, spent or not, with it.
LEMMA FailKeepsClaimInv ==
    ASSUME BoundsAssumption, ClaimInv, NEW w \in Workers, FailDelivery(w) PROVE ClaimInv'
<1>1. failures' \in 0 .. MaxFailures
  BY DEF FailDelivery, ClaimInv, TypeOK, BoundsAssumption
<1>2. TypeOK'
  BY <1>1, IdleType DEF ClaimInv, TypeOK, FailDelivery, stripeVars, historyVars
<1> QED
  BY <1>2, ReleaseKeepsClaimInv DEF FailDelivery, stripeVars, historyVars

\* The insert succeeds only when the event has never been claimed: its row,
\* while the event is live, would still be there.
LEMMA RecordKeepsClaimInv ==
    ASSUME ClaimInv, NEW w \in Workers, RecordEvent(w) PROVE ClaimInv'
<1> DEFINE e == worker[w].event
<1>t. TypeOK
  BY DEF ClaimInv
<1>e. e \in Events /\ e \in live /\ e \in 1 .. Len(emitted) /\ worker[w] \in WorkerRecords
  BY EventInHand DEF RecordEvent
<1>1. /\ worker[w].pc = "received"
      /\ e \notin processed
      /\ processed' = processed \cup {e}
      /\ claims' = [claims EXCEPT ![e] = @ + 1]
      /\ worker' = [worker EXCEPT ![w].pc = "recorded"]
      /\ UNCHANGED <<applied, emitted, live>>
  BY DEF RecordEvent, stripeVars
<1>2. claims[e] = 0
  <2>1. claims[e] \in Nat /\ claims[e] <= 1 /\ claims[e] # 1
    BY <1>e, <1>1, <1>t DEF ClaimInv, ClaimCounts, TypeOK
  <2> QED
    BY <2>1
<1>3. applied[e] = 0
  BY <1>e, <1>2, <1>t DEF ClaimInv, ClaimCounts, TypeOK
<1>4. claims'[e] = 1 /\ \A d \in Events \ {e} : claims'[d] = claims[d]
  BY <1>e, <1>1, <1>2, <1>t DEF TypeOK
<1>5. [worker[w] EXCEPT !.pc = "recorded"] \in WorkerRecords
  BY <1>e DEF WorkerRecords
<1>6. TypeOK'
  <2>1. worker' \in [Workers -> WorkerRecords]
    BY <1>1, <1>5, <1>t DEF TypeOK
  <2>2. claims' \in [Events -> Nat]
    <3>1. claims[e] + 1 \in Nat
      BY <1>2
    <3> HIDE DEF e
    <3> QED
      BY <3>1, <1>1, <1>e, <1>t DEF TypeOK
  <2> QED
    BY <2>1, <2>2, <1>e, <1>t DEF TypeOK, RecordEvent, stripeVars
<1>7. /\ worker'[w].pc = "recorded" /\ worker'[w].event = e
      /\ \A v \in Workers \ {w} : worker'[v] = worker[v]
  BY <1>1, <1>e, <1>t DEF TypeOK, WorkerRecords
<1>8. ClaimCounts'
  <2> SUFFICES ASSUME NEW d \in Events
               PROVE  /\ claims'[d] <= 1
                      /\ applied'[d] <= claims'[d]
                      /\ d \in live' /\ claims'[d] = 1 => d \in processed'
                      /\ d > Len(emitted') => claims'[d] = 0
    BY DEF ClaimCounts
  <2>1. CASE d = e
    <3> HIDE DEF e
    <3>1. ~(d > Len(emitted))
      BY <1>e, <2>1, LenProperties, <1>t DEF TypeOK
    <3> QED
      BY <2>1, <3>1, <1>1, <1>3, <1>4
  <2>2. CASE d # e
    BY <2>2, <1>1, <1>4 DEF ClaimInv, ClaimCounts
  <2> QED
    BY <2>1, <2>2
<1>9. \A v \in Workers : Holds(v) => worker[v].event # e
  BY <1>2 DEF ClaimInv, ClaimHeld
<1>10. ClaimHeld'
  <2> SUFFICES ASSUME NEW v \in Workers
               PROVE  /\ worker'[v].pc # "idle" => worker'[v].event \in live'
                      /\ Holds(v)' => /\ claims'[worker'[v].event] = 1
                                      /\ applied'[worker'[v].event] = 0
    BY DEF ClaimHeld
  <2>1. CASE v = w
    BY <2>1, <1>e, <1>1, <1>3, <1>4, <1>7
  <2>2. CASE v # w
    <3>1. worker'[v] = worker[v] /\ (Holds(v)' <=> Holds(v))
      BY <2>2, <1>7 DEF Holds
    <3>2. Holds(v) => worker[v].event \in Events /\ worker[v].event # e
      BY <1>9, EventInHand DEF Holds
    <3> QED
      BY <3>1, <3>2, <1>1, <1>4 DEF ClaimInv, ClaimHeld
  <2> QED
    BY <2>1, <2>2
<1>11. OneHolder'
  <2>1. \A v \in Workers \ {w} : Holds(v)' <=> Holds(v)
    BY <1>7 DEF Holds
  <2> QED
    BY <2>1, <1>7, <1>9 DEF ClaimInv, OneHolder
<1> QED
  BY <1>6, <1>8, <1>10, <1>11 DEF ClaimInv

\* Loading the row moves the claim along, it does not spend it.
LEMMA LoadKeepsClaimInv ==
    ASSUME ClaimInv, NEW w \in Workers, LoadAccount(w) PROVE ClaimInv'
<1>t. TypeOK
  BY DEF ClaimInv
<1>1. /\ worker[w].pc = "recorded"
      /\ worker' = [worker EXCEPT ![w].pc = "loaded", ![w].row = account]
      /\ UNCHANGED <<processed, claims, applied, emitted, live>>
  BY DEF LoadAccount, stripeVars, historyVars
<1>2. worker' \in [Workers -> WorkerRecords]
  <2>1. [worker[w] EXCEPT !.pc = "loaded", !.row = account] \in WorkerRecords
    BY <1>t DEF TypeOK, WorkerRecords
  <2> QED
    BY <2>1, <1>1, <1>t DEF TypeOK
<1>3. TypeOK'
  BY <1>2, <1>t DEF TypeOK, LoadAccount, stripeVars, historyVars
<1>4. /\ worker'[w].pc = "loaded" /\ worker'[w].event = worker[w].event
      /\ \A v \in Workers \ {w} : worker'[v] = worker[v]
  BY <1>1, <1>t DEF TypeOK, WorkerRecords
<1>5. \A v \in Workers : (Holds(v)' <=> Holds(v)) /\ worker'[v].event = worker[v].event
  BY <1>1, <1>4 DEF Holds
<1>6. \A v \in Workers : worker'[v].pc # "idle" => worker[v].pc # "idle"
  BY <1>1, <1>4
<1>7. ClaimCounts'
  BY <1>1 DEF ClaimInv, ClaimCounts
<1>8. ClaimHeld'
  <2> SUFFICES ASSUME NEW v \in Workers
               PROVE  /\ worker'[v].pc # "idle" => worker'[v].event \in live'
                      /\ Holds(v)' => /\ claims'[worker'[v].event] = 1
                                      /\ applied'[worker'[v].event] = 0
    BY DEF ClaimHeld
  <2>1. /\ worker[v].pc # "idle" => worker[v].event \in live
        /\ Holds(v) => claims[worker[v].event] = 1 /\ applied[worker[v].event] = 0
    BY DEF ClaimInv, ClaimHeld
  <2>2. /\ Holds(v)' <=> Holds(v)
        /\ worker'[v].event = worker[v].event
        /\ worker'[v].pc # "idle" => worker[v].pc # "idle"
    BY <1>5, <1>6
  <2> QED
    BY <2>1, <2>2, <1>1
<1>9. OneHolder'
  BY <1>5 DEF ClaimInv, OneHolder
<1> QED
  BY <1>3, <1>7, <1>8, <1>9 DEF ClaimInv

\* Spending the claim: the holder applies the event and goes idle.
LEMMA SpendKeepsClaimInv ==
    ASSUME ClaimInv, TypeOK', NEW w \in Workers, Holds(w),
           worker' = [worker EXCEPT ![w] = IdleWorker],
           applied' = [applied EXCEPT ![worker[w].event] = @ + 1],
           UNCHANGED <<processed, claims, emitted, live>>
    PROVE  ClaimInv'
<1> DEFINE e == worker[w].event
<1>1. e \in Events /\ claims[e] = 1 /\ applied[e] = 0
  BY EventInHand DEF Holds, ClaimInv, ClaimHeld
<1>2. applied'[e] = 1 /\ \A d \in Events \ {e} : applied'[d] = applied[d]
  BY <1>1 DEF ClaimInv, TypeOK
<1>3. /\ worker'[w].pc = "idle"
      /\ \A v \in Workers \ {w} : worker'[v] = worker[v]
  BY DEF ClaimInv, TypeOK, IdleWorker
<1>4. ClaimCounts'
  BY <1>1, <1>2 DEF ClaimInv, ClaimCounts
<1>5. ClaimHeld'
  <2> SUFFICES ASSUME NEW v \in Workers, worker'[v].pc # "idle"
               PROVE  /\ worker'[v].event \in live'
                      /\ Holds(v)' => /\ claims'[worker'[v].event] = 1
                                      /\ applied'[worker'[v].event] = 0
    BY DEF ClaimHeld, Holds
  <2>1. v # w /\ worker'[v] = worker[v] /\ (Holds(v)' <=> Holds(v))
    BY <1>3 DEF Holds
  <2>2. Holds(v) => worker[v].event \in Events /\ worker[v].event # e
    BY <2>1, EventInHand DEF ClaimInv, OneHolder, Holds
  <2> QED
    BY <2>1, <2>2, <1>2 DEF ClaimInv, ClaimHeld
<1>6. OneHolder'
  BY <1>3 DEF ClaimInv, OneHolder, Holds
<1> QED
  BY <1>4, <1>5, <1>6 DEF ClaimInv

\* A failed payment is logged: the claim is spent and the account left alone.
LEMMA LogKeepsClaimInv ==
    ASSUME ClaimInv, NEW w \in Workers, LogPaymentFailed(w) PROVE ClaimInv'
<1>1. worker[w].event \in Events /\ worker[w].event \in 1 .. Len(emitted)
  BY EventInHand DEF LogPaymentFailed
<1>2. worker' \in [Workers -> WorkerRecords] /\ applied' \in [Events -> Nat]
  BY <1>1, IdleType DEF ClaimInv, TypeOK, LogPaymentFailed, Acknowledge
<1>3. TypeOK'
  BY <1>1, <1>2 DEF ClaimInv, TypeOK, LogPaymentFailed, Acknowledge
<1> QED
  BY <1>3, SpendKeepsClaimInv DEF LogPaymentFailed, Acknowledge, Holds

\* The handler's commit writes a row of the right type and spends the claim.
LEMMA CommitKeepsClaimInv ==
    ASSUME ClaimInv, NEW w \in Workers, CommitHandler(w) PROVE ClaimInv'
<1>1. /\ worker[w].event \in Events /\ worker[w].event \in 1 .. Len(emitted)
      /\ worker[w] \in WorkerRecords /\ emitted[worker[w].event] \in EventRecords
  BY EventInHand DEF CommitHandler
<1>2. account' \in Rows
  <2>1. worker[w].row \in Rows /\ account \in Rows
    BY <1>1 DEF WorkerRecords, ClaimInv, TypeOK
  <2> QED
    BY <2>1, <1>1, HandleType, MergeType DEF CommitHandler
<1>3. worker' \in [Workers -> WorkerRecords] /\ applied' \in [Events -> Nat]
  BY <1>1, IdleType DEF ClaimInv, TypeOK, CommitHandler, Acknowledge
<1>4. TypeOK'
  BY <1>1, <1>2, <1>3 DEF ClaimInv, TypeOK, CommitHandler, Acknowledge
<1> QED
  BY <1>4, SpendKeepsClaimInv DEF CommitHandler, Acknowledge, Holds

\* Pruning keeps the row of every event that can still be delivered.
LEMMA CleanupKeepsClaimInv ==
    ASSUME ClaimInv, CleanupStripeEvents PROVE ClaimInv'
<1>1. TypeOK'
  BY DEF ClaimInv, TypeOK, CleanupStripeEvents, stripeVars, historyVars
<1> QED
  BY <1>1 DEF ClaimInv, ClaimCounts, ClaimHeld, OneHolder, Holds,
              CleanupStripeEvents, stripeVars, historyVars

-----------------------------------------------------------------------------
(* The inductive invariant *)

\* Every step of the system keeps ClaimInv.
THEOREM NextClaimInv ==
    BoundsAssumption /\ TiersAssumption /\ ClaimInv /\ [Next]_vars => ClaimInv'
<1> SUFFICES ASSUME BoundsAssumption, TiersAssumption, ClaimInv, [Next]_vars
             PROVE  ClaimInv'
  OBVIOUS
<1>1. ASSUME NEW r \in Requests, CheckoutStep(r) PROVE ClaimInv'
  BY <1>1, CheckoutKeepsClaimInv
<1>2. CASE StripeStep
  BY <1>2, StripeKeepsClaimInv
<1>3. ASSUME NEW w \in Workers, NEW e \in Events, Deliver(w, e) PROVE ClaimInv'
  BY <1>3, DeliverKeepsClaimInv
<1>4. ASSUME NEW w \in Workers, WorkerStep(w) PROVE ClaimInv'
  BY <1>4, SkipKeepsClaimInv, RecordKeepsClaimInv, LogKeepsClaimInv,
     LoadKeepsClaimInv, CommitKeepsClaimInv DEF WorkerStep
<1>5. ASSUME NEW w \in Workers, FailDelivery(w) PROVE ClaimInv'
  BY <1>5, FailKeepsClaimInv
<1>6. CASE CleanupStripeEvents
  BY <1>6, CleanupKeepsClaimInv
<1>7. CASE UNCHANGED vars
  <2>1. TypeOK'
    BY <1>7 DEF ClaimInv, TypeOK, vars, appVars, stripeVars, historyVars
  <2> QED
    BY <2>1, <1>7, ClaimsUntouched DEF vars, appVars, stripeVars, historyVars, claimVars
<1> QED
  BY <1>1, <1>2, <1>3, <1>4, <1>5, <1>6, <1>7 DEF Next

\* ClaimInv holds of every reachable state.
THEOREM ClaimInvHolds == Spec => []ClaimInv
<1>1. Init => ClaimInv
  BY InitClaimInv, BoundsAssumption
<1>2. ClaimInv /\ [Next]_vars => ClaimInv'
  BY NextClaimInv, BoundsAssumption, TiersAssumption
<1> QED
  BY <1>1, <1>2, PTL DEF Spec

\* Every variable stays in its type: users.plan is always a known plan.
THEOREM TypesHold == Spec => []TypeOK
<1>1. ClaimInv => TypeOK
  BY DEF ClaimInv
<1> QED
  BY <1>1, ClaimInvHolds, PTL

\* No event's handler completes twice, however Stripe and the workers behave.
THEOREM AppliedOnce == Spec => []AppliedAtMostOnce
<1>1. ClaimInv => AppliedAtMostOnce
  BY DEF ClaimInv, TypeOK, ClaimCounts, AppliedAtMostOnce
<1> QED
  BY <1>1, ClaimInvHolds, PTL

-----------------------------------------------------------------------------
(* The refinement *)

\* The abstract ledger depends on the claims and on who holds them only.
LEMMA LedgerSame ==
    ASSUME UNCHANGED <<claims, applied>>,
           \A w \in Workers : /\ Holds(w)' <=> Holds(w)
                              /\ Holds(w) => worker'[w].event = worker[w].event
    PROVE  ledgerBar' = ledgerBar
<1>1. \A e \in Events : Holders(e)' = Holders(e)
  BY DEF Holders, Holds
<1>2. \A e \in Events : LedgerOf(e)' = LedgerOf(e)
  BY <1>1 DEF LedgerOf
<1> QED
  BY <1>2 DEF ledgerBar

\* A step of the worker that has event e in hand moves no other event.
LEMMA LedgerMoves ==
    ASSUME ClaimInv, ClaimInv', NEW w \in Workers, NEW e \in Events, NEW to,
           worker[w].event = e,
           \A v \in Workers \ {w} : worker'[v] = worker[v],
           Holds(w)' => worker'[w].event = e,
           \A d \in Events \ {e} : claims'[d] = claims[d] /\ applied'[d] = applied[d],
           LedgerOf(e)' = to
    PROVE  ledgerBar' = [ledgerBar EXCEPT ![e] = to]
<1>1. \A d \in Events \ {e} : Holders(d)' = Holders(d)
  BY DEF Holders, Holds
<1>2. \A d \in Events \ {e} : LedgerOf(d)' = LedgerOf(d)
  BY <1>1 DEF LedgerOf
<1> QED
  BY <1>2 DEF ledgerBar

\* The holder of a claim that is unspent sees the event as claimed.
LEMMA HeldIsClaimed ==
    ASSUME ClaimInv, NEW w \in Workers, Holds(w)
    PROVE  /\ worker[w].event \in Events
           /\ claims[worker[w].event] = 1
           /\ applied[worker[w].event] = 0
           /\ LedgerOf(worker[w].event) = "claimed"
<1>1. /\ worker[w].event \in Events
      /\ claims[worker[w].event] = 1
      /\ applied[worker[w].event] = 0
  BY EventInHand DEF ClaimInv, ClaimHeld, Holds
<1>2. w \in Holders(worker[w].event)
  BY DEF Holders, Holds
<1> QED
  BY <1>1, <1>2 DEF LedgerOf

\* Inserting the row claims the event.
LEMMA RecordClaims ==
    ASSUME ClaimInv, ClaimInv', NEW w \in Workers, RecordEvent(w)
    PROVE  \E e \in Events : Ledger!Claim(e)
<1>0. PICK e \in Events : e = worker[w].event
  BY EventInHand DEF RecordEvent
<1>1. e \in live /\ worker[w] \in WorkerRecords
  BY <1>0, EventInHand DEF RecordEvent
<1>2. /\ worker[w].pc = "received" /\ e \notin processed
      /\ claims' = [claims EXCEPT ![e] = @ + 1]
      /\ worker' = [worker EXCEPT ![w].pc = "recorded"]
      /\ applied' = applied
  BY <1>0 DEF RecordEvent
<1>3. claims[e] = 0
  <2>1. claims[e] \in Nat /\ claims[e] <= 1 /\ claims[e] # 1
    BY <1>1, <1>2 DEF ClaimInv, ClaimCounts, TypeOK
  <2> QED
    BY <2>1
<1>4. Holds(w)' /\ worker'[w].event = e /\ \A v \in Workers \ {w} : worker'[v] = worker[v]
  BY <1>0, <1>1, <1>2 DEF ClaimInv, TypeOK, WorkerRecords, Holds
<1>5. LedgerOf(e) = "new"
  BY <1>3 DEF LedgerOf
<1>6. LedgerOf(e)' = "claimed"
  <2>1. claims'[e] = 1 /\ applied'[e] = 0
    BY <1>2, <1>3 DEF ClaimInv, ClaimCounts, TypeOK
  <2>2. w \in Holders(e)'
    BY <1>4 DEF Holders, Holds
  <2> QED
    BY <2>1, <2>2 DEF LedgerOf
<1>7. \A d \in Events \ {e} : claims'[d] = claims[d] /\ applied'[d] = applied[d]
  BY <1>1, <1>2 DEF ClaimInv, TypeOK
<1>8. ledgerBar' = [ledgerBar EXCEPT ![e] = "claimed"]
  BY <1>0, <1>4, <1>6, <1>7, LedgerMoves
<1> QED
  BY <1>5, <1>8 DEF Ledger!Claim, ledgerBar

\* The commit of the handler that holds the claim applies the event.
LEMMA SpendApplies ==
    ASSUME ClaimInv, ClaimInv', NEW w \in Workers, Holds(w),
           worker' = [worker EXCEPT ![w] = IdleWorker],
           applied' = [applied EXCEPT ![worker[w].event] = @ + 1],
           UNCHANGED claims
    PROVE  \E e \in Events : Ledger!Apply(e)
<1>0. PICK e \in Events : e = worker[w].event
  BY HeldIsClaimed
<1>1. claims[e] = 1 /\ applied[e] = 0 /\ LedgerOf(e) = "claimed"
  BY <1>0, HeldIsClaimed
<1>2. applied'[e] = 1 /\ \A d \in Events \ {e} : applied'[d] = applied[d]
  BY <1>0, <1>1 DEF ClaimInv, TypeOK
<1>3. LedgerOf(e)' = "applied"
  BY <1>1, <1>2 DEF LedgerOf
<1>4. ~Holds(w)' /\ \A v \in Workers \ {w} : worker'[v] = worker[v]
  BY DEF ClaimInv, TypeOK, Holds, IdleWorker
<1>5. ledgerBar' = [ledgerBar EXCEPT ![e] = "applied"]
  BY <1>0, <1>2, <1>3, <1>4, LedgerMoves
<1> QED
  BY <1>1, <1>5 DEF Ledger!Apply, ledgerBar

\* The holder of a claim that dies loses the event; another delivery nothing.
LEMMA FailLoses ==
    ASSUME ClaimInv, ClaimInv', NEW w \in Workers, FailDelivery(w)
    PROVE  (\E e \in Events : Ledger!Lose(e)) \/ ledgerBar' = ledgerBar
<1>1. worker' = [worker EXCEPT ![w] = IdleWorker] /\ UNCHANGED <<claims, applied>>
  BY DEF FailDelivery, historyVars
<1>2. ~Holds(w)' /\ \A v \in Workers \ {w} : worker'[v] = worker[v]
  BY <1>1 DEF ClaimInv, TypeOK, Holds, IdleWorker
<1>3. CASE Holds(w)
  <2>0. PICK e \in Events : e = worker[w].event
    BY <1>3, HeldIsClaimed
  <2>1. claims[e] = 1 /\ applied[e] = 0 /\ LedgerOf(e) = "claimed"
    BY <1>3, <2>0, HeldIsClaimed
  <2>2. Holders(e)' = {}
    BY <1>2, <1>3, <2>0 DEF ClaimInv, OneHolder, Holders, Holds
  <2>3. LedgerOf(e)' = "lost"
    BY <2>1, <2>2, <1>1 DEF LedgerOf
  <2>4. ledgerBar' = [ledgerBar EXCEPT ![e] = "lost"]
    BY <1>1, <1>2, <2>0, <2>3, LedgerMoves
  <2> QED
    BY <2>1, <2>4 DEF Ledger!Lose, ledgerBar
<1>4. CASE ~Holds(w)
  <2>1. \A v \in Workers : /\ Holds(v)' <=> Holds(v)
                           /\ Holds(v) => worker'[v].event = worker[v].event
    BY <1>2, <1>4 DEF Holds
  <2> QED
    BY <2>1, <1>1, LedgerSame
<1> QED
  BY <1>3, <1>4

\* Every other step of a worker, and every delivery, leaves the ledger alone.
LEMMA QuietSteps ==
    ASSUME ClaimInv, NEW w \in Workers,
           (\E e \in Events : Deliver(w, e)) \/ SkipDuplicate(w) \/ LoadAccount(w)
    PROVE  ledgerBar' = ledgerBar
<1>1. UNCHANGED <<claims, applied>>
  BY DEF Deliver, SkipDuplicate, LoadAccount, historyVars
<1>2. \A v \in Workers \ {w} : worker'[v] = worker[v]
  BY DEF ClaimInv, TypeOK, Deliver, SkipDuplicate, LoadAccount, Acknowledge
<1>3. (Holds(w)' <=> Holds(w)) /\ (Holds(w) => worker'[w].event = worker[w].event)
  <2>1. worker[w] \in WorkerRecords /\ worker \in [Workers -> WorkerRecords]
    BY DEF ClaimInv, TypeOK
  <2>2. CASE \E e \in Events : Deliver(w, e)
    BY <2>1, <2>2 DEF Deliver, Holds, IdleWorker
  <2>3. CASE SkipDuplicate(w)
    BY <2>1, <2>3 DEF SkipDuplicate, Acknowledge, Holds, IdleWorker
  <2>4. CASE LoadAccount(w)
    BY <2>1, <2>4 DEF LoadAccount, Holds, WorkerRecords
  <2> QED
    BY <2>2, <2>3, <2>4
<1>4. \A v \in Workers : /\ Holds(v)' <=> Holds(v)
                         /\ Holds(v) => worker'[v].event = worker[v].event
  BY <1>2, <1>3 DEF Holds
<1> QED
  BY <1>1, <1>4, LedgerSame

\* Every step of the billing model is a step of the ledger or leaves it alone.
THEOREM NextLedger ==
    ClaimInv /\ ClaimInv' /\ [Next]_vars => [Ledger!LedgerNext]_ledgerBar
<1> SUFFICES ASSUME ClaimInv, ClaimInv', [Next]_vars
             PROVE  Ledger!LedgerNext \/ ledgerBar' = ledgerBar
  OBVIOUS
<1> USE DEF Ledger!LedgerNext
<1>1. ASSUME NEW w \in Workers, WorkerStep(w)
      PROVE  Ledger!LedgerNext \/ ledgerBar' = ledgerBar
  <2>1. CASE RecordEvent(w)
    BY <2>1, RecordClaims
  <2>2. CASE LogPaymentFailed(w)
    BY <2>2, SpendApplies DEF LogPaymentFailed, Acknowledge, Holds
  <2>3. CASE CommitHandler(w)
    BY <2>3, SpendApplies DEF CommitHandler, Acknowledge, Holds
  <2>4. CASE SkipDuplicate(w) \/ LoadAccount(w)
    BY <2>4, QuietSteps
  <2> QED
    BY <1>1, <2>1, <2>2, <2>3, <2>4 DEF WorkerStep
<1>2. ASSUME NEW w \in Workers, FailDelivery(w)
      PROVE  Ledger!LedgerNext \/ ledgerBar' = ledgerBar
  BY <1>2, FailLoses
<1>3. ASSUME NEW w \in Workers, NEW e \in Events, Deliver(w, e)
      PROVE  ledgerBar' = ledgerBar
  BY <1>3, QuietSteps
<1>4. ASSUME UNCHANGED <<worker, claims, applied>> PROVE ledgerBar' = ledgerBar
  BY <1>4, LedgerSame DEF Holds
<1>5. ASSUME NEW r \in Requests, CheckoutStep(r)
      PROVE  UNCHANGED <<worker, claims, applied>>
  BY <1>5 DEF CheckoutStep, BeginCheckout, CreateCustomer, LoadForUpdate, SaveUser,
              CreateSession, stripeVars, historyVars
<1>6. ASSUME StripeStep PROVE UNCHANGED <<worker, claims, applied>>
  BY <1>6 DEF StripeStep, CompleteCheckout, ChangeSubscription, PaymentFails,
              CancelSubscription, Expire, Emit, appVars, historyVars
<1>7. CASE CleanupStripeEvents \/ UNCHANGED vars
  <2>1. UNCHANGED <<worker, claims, applied>>
    BY <1>7 DEF CleanupStripeEvents, vars, appVars, stripeVars, historyVars
  <2> QED
    BY <2>1, <1>4
<1> QED
  BY <1>1, <1>2, <1>3, <1>4, <1>5, <1>6, <1>7 DEF Next

\* The webhook endpoint implements the ledger: whatever Stripe delivers, when
\* and how often, no event is claimed twice, applied twice or brought back.
THEOREM EndpointImplementsLedger == Spec => ImplementsLedger
<1>1. Init => Ledger!LedgerInit
  BY DEF Init, Ledger!LedgerInit, ledgerBar, LedgerOf
<1>2. ClaimInv /\ ClaimInv' /\ [Next]_vars => [Ledger!LedgerNext]_ledgerBar
  BY NextLedger
<1> QED
  BY <1>1, <1>2, ClaimInvHolds, PTL DEF Spec, ImplementsLedger, Ledger!LedgerSpec
-----------------------------------------------------------------------------
(* Answered events are not lost *)

\* A row stands for a claim, and only a claimed event is answered.
AnsweredIsClaimed == processed \cup acked \subseteq {e \in Events : claims[e] = 1}

\* Only a delivery that dies loses an event.
NothingLost == failures = 0 => \A e \in Events : LedgerOf(e) # "lost"

AnswerInv == ClaimInv /\ AnsweredIsClaimed /\ NothingLost

\* Checkouts, Stripe and the clean-up answer nothing and take no claim.
LEMMA OtherStepsAnswerNothing ==
    ASSUME (\E r \in Requests : CheckoutStep(r)) \/ StripeStep
              \/ CleanupStripeEvents \/ UNCHANGED vars
    PROVE  /\ UNCHANGED <<worker, claims, applied, acked, failures, orderly>>
           /\ processed' \subseteq processed
<1>1. ASSUME NEW r \in Requests, CheckoutStep(r)
      PROVE  UNCHANGED <<worker, claims, applied, acked, failures, orderly, processed>>
  BY <1>1 DEF CheckoutStep, BeginCheckout, CreateCustomer, LoadForUpdate, SaveUser,
              CreateSession, stripeVars, historyVars
<1>2. ASSUME StripeStep
      PROVE  UNCHANGED <<worker, claims, applied, acked, failures, orderly, processed>>
  BY <1>2 DEF StripeStep, CompleteCheckout, ChangeSubscription, PaymentFails,
              CancelSubscription, Expire, Emit, appVars, historyVars
<1>3. CASE CleanupStripeEvents
  BY <1>3 DEF CleanupStripeEvents, stripeVars, historyVars
<1>4. CASE UNCHANGED vars
  BY <1>4 DEF vars, appVars, stripeVars, historyVars
<1> QED
  BY <1>1, <1>2, <1>3, <1>4

\* A step that leaves the ledger alone loses nothing.
LEMMA LedgerSameNothingLost ==
    ASSUME NothingLost, ledgerBar' = ledgerBar, failures' = failures
    PROVE  NothingLost'
<1>1. \A e \in Events : LedgerOf(e) = ledgerBar[e] /\ LedgerOf(e)' = ledgerBar'[e]
  BY DEF ledgerBar
<1> QED
  BY <1>1 DEF NothingLost

\* Neither does one that claims or applies an event.
LEMMA LedgerMovesNothingLost ==
    ASSUME NothingLost, failures' = failures, NEW e \in Events, NEW to, to # "lost",
           ledgerBar' = [ledgerBar EXCEPT ![e] = to]
    PROVE  NothingLost'
<1>1. \A d \in Events : LedgerOf(d) = ledgerBar[d] /\ LedgerOf(d)' = ledgerBar'[d]
  BY DEF ledgerBar
<1>2. \A d \in Events : ledgerBar'[d] = IF d = e THEN to ELSE ledgerBar[d]
  BY DEF ledgerBar
<1> QED
  BY <1>1, <1>2 DEF NothingLost

\* A worker's step answers claimed events only, and loses one only by dying.
LEMMA WorkersKeepAnswers ==
    ASSUME AnswerInv, ClaimInv', NEW w \in Workers,
           WorkerStep(w) \/ FailDelivery(w) \/ \E e \in Events : Deliver(w, e)
    PROVE  AnswerInv'
<1>0. /\ \A e \in processed \cup acked : e \in Events /\ claims[e] = 1
      /\ claims \in [Events -> Nat]
  BY DEF AnswerInv, AnsweredIsClaimed, ClaimInv, TypeOK
<1>1. CASE RecordEvent(w)
  <2>1. PICK e \in Events : Ledger!Claim(e)
    BY <1>1, RecordClaims DEF AnswerInv
  <2>2. NothingLost'
    BY <2>1, <1>1, LedgerMovesNothingLost DEF Ledger!Claim, AnswerInv, RecordEvent
  <2>3. PICK d \in Events : d = worker[w].event
    BY <1>1, EventInHand DEF AnswerInv, RecordEvent
  <2>4. claims'[d] = 1
    <3>1. d \in live /\ d \notin processed
      BY <1>1, <2>3, EventInHand DEF AnswerInv, RecordEvent
    <3>2. claims[d] \in Nat /\ claims[d] <= 1 /\ claims[d] # 1
      BY <3>1, <1>0 DEF AnswerInv, ClaimInv, ClaimCounts
    <3>3. claims' = [claims EXCEPT ![d] = @ + 1]
      BY <1>1, <2>3 DEF RecordEvent
    <3> QED
      BY <3>2, <3>3, <1>0
  <2>5. \A c \in Events \ {d} : claims'[c] = claims[c]
    BY <1>1, <2>3, <1>0 DEF RecordEvent
  <2>6. processed' \cup acked' = (processed \cup acked) \cup {d}
    BY <1>1, <2>3 DEF RecordEvent, stripeVars
  <2> QED
    BY <2>2, <2>3, <2>4, <2>5, <2>6, <1>0 DEF AnswerInv, AnsweredIsClaimed
<1>2. CASE LogPaymentFailed(w) \/ CommitHandler(w)
  <2>1. /\ Holds(w)
        /\ worker' = [worker EXCEPT ![w] = IdleWorker]
        /\ applied' = [applied EXCEPT ![worker[w].event] = @ + 1]
        /\ UNCHANGED <<claims, processed, failures>>
        /\ acked' = acked \cup {worker[w].event}
    BY <1>2 DEF LogPaymentFailed, CommitHandler, Acknowledge, Holds
  <2>2. PICK e \in Events : Ledger!Apply(e)
    BY <2>1, SpendApplies DEF AnswerInv
  <2>3. NothingLost'
    BY <2>1, <2>2, LedgerMovesNothingLost DEF Ledger!Apply, AnswerInv
  <2>4. worker[w].event \in Events /\ claims[worker[w].event] = 1
    BY <2>1, HeldIsClaimed DEF AnswerInv
  <2> QED
    BY <2>1, <2>3, <2>4, <1>0 DEF AnswerInv, AnsweredIsClaimed
<1>3. CASE SkipDuplicate(w)
  <2>1. worker[w].event \in processed /\ acked' = acked \cup {worker[w].event}
        /\ UNCHANGED <<claims, processed, failures>>
    BY <1>3 DEF SkipDuplicate, Acknowledge, historyVars
  <2>2. NothingLost'
    BY <2>1, <1>3, QuietSteps, LedgerSameNothingLost DEF AnswerInv
  <2> QED
    BY <2>1, <2>2, <1>0 DEF AnswerInv, AnsweredIsClaimed
<1>4. CASE LoadAccount(w) \/ \E e \in Events : Deliver(w, e)
  <2>1. UNCHANGED <<claims, processed, failures, acked>>
    BY <1>4 DEF LoadAccount, Deliver, stripeVars, historyVars
  <2>2. NothingLost'
    BY <2>1, <1>4, QuietSteps, LedgerSameNothingLost DEF AnswerInv
  <2> QED
    BY <2>1, <2>2 DEF AnswerInv, AnsweredIsClaimed
<1>5. CASE FailDelivery(w)
  <2>1. UNCHANGED <<claims, processed, acked>> /\ failures' = failures + 1
    BY <1>5 DEF FailDelivery, stripeVars, historyVars
  <2>2. failures' # 0
    BY <2>1, BoundsAssumption DEF AnswerInv, ClaimInv, TypeOK, BoundsAssumption
  <2> QED
    BY <2>1, <2>2 DEF AnswerInv, AnsweredIsClaimed, NothingLost
<1> QED
  BY <1>1, <1>2, <1>3, <1>4, <1>5 DEF WorkerStep

\* Every step keeps AnswerInv.
THEOREM NextAnswerInv == AnswerInv /\ [Next]_vars => AnswerInv'
<1> SUFFICES ASSUME AnswerInv, [Next]_vars PROVE AnswerInv'
  OBVIOUS
<1>0. ClaimInv'
  BY NextClaimInv, BoundsAssumption, TiersAssumption DEF AnswerInv
<1>1. ASSUME NEW w \in Workers,
             WorkerStep(w) \/ FailDelivery(w) \/ \E e \in Events : Deliver(w, e)
      PROVE  AnswerInv'
  BY <1>0, <1>1, WorkersKeepAnswers
<1>2. CASE (\E r \in Requests : CheckoutStep(r)) \/ StripeStep
              \/ CleanupStripeEvents \/ UNCHANGED vars
  <2>1. /\ UNCHANGED <<worker, claims, applied, acked, failures>>
        /\ processed' \subseteq processed
    BY <1>2, OtherStepsAnswerNothing
  <2>2. ledgerBar' = ledgerBar
    BY <2>1, LedgerSame DEF Holds
  <2>3. NothingLost'
    BY <2>1, <2>2, LedgerSameNothingLost DEF AnswerInv
  <2> QED
    BY <1>0, <2>1, <2>3 DEF AnswerInv, AnsweredIsClaimed
<1> QED
  BY <1>1, <1>2 DEF Next

\* At the start nothing is claimed, answered or lost.
LEMMA InitAnswerInv == Init => AnswerInv
<1> SUFFICES ASSUME Init PROVE AnswerInv
  OBVIOUS
<1>1. ClaimInv
  BY InitClaimInv, BoundsAssumption
<1>2. AnsweredIsClaimed /\ NothingLost
  BY DEF Init, AnsweredIsClaimed, NothingLost, LedgerOf
<1> QED
  BY <1>1, <1>2 DEF AnswerInv

\* As long as no delivery dies half way, no event is answered with a 2xx and lost.
THEOREM AnsweredIsApplied == Spec => []AckedMeansAppliedUnlessFailed
<1>1. AnswerInv => AckedMeansAppliedUnlessFailed
  <2> SUFFICES ASSUME AnswerInv, failures = 0, NEW e \in acked
               PROVE  applied[e] = 1 \/ Holders(e) # {}
    BY DEF AckedMeansAppliedUnlessFailed, AckedMeansApplied
  <2>1. e \in Events /\ claims[e] = 1
    BY DEF AnswerInv, AnsweredIsClaimed
  <2>2. applied[e] \in Nat /\ applied[e] <= 1
    BY <2>1 DEF AnswerInv, ClaimInv, ClaimCounts, TypeOK
  <2> QED
    BY <2>1, <2>2 DEF AnswerInv, NothingLost, LedgerOf
<1> QED
  BY <1>1, InitAnswerInv, NextAnswerInv, PTL DEF Spec

-----------------------------------------------------------------------------
(* What the checkout and the handlers know of the account *)

\* The user keeps at most one checkout open.
OneCheckout == \A q, r \in Requests : q = r

Saving(r) == checkout[r].pc \in {"customer", "load", "save"}

\* Only an account whose customer id is known gets a session, and so a
\* subscription and its events; the handlers leave the others alone.
CustomerKnown ==
    /\ account.customer = NoCustomer => account.plan = "free" /\ account.sub = NoSub
    /\ sessions # {} \/ LiveSubs # {} \/ emitted # <<>> => account.customer = Customer
    /\ \A r \in Requests : checkout[r].pc = "session" => account.customer = Customer
    /\ \A w \in Workers : worker[w].pc = "loaded" /\ worker[w].row.customer = Customer
                             => account.customer = Customer

\* A checkout saves the row of an account that has not changed since it was read.
SavesWhatItRead ==
    \A r \in Requests :
        /\ Saving(r) => /\ account.customer = NoCustomer
                        /\ checkout[r].user.plan = "free" /\ checkout[r].user.sub = NoSub
        /\ checkout[r].pc \in {"load", "save"} => checkout[r].user.customer = Customer
        /\ checkout[r].pc = "save" => checkout[r].row = account

CheckoutInv == ClaimInv /\ CustomerKnown /\ SavesWhatItRead

\* Writing back a row nobody changed writes nothing.
LEMMA MergeSame ==
    ASSUME NEW current \in Rows, NEW loaded \in Rows
    PROVE  Merge(current, loaded, loaded) = current
BY DEF Merge, Rows

\* What a session writes, column by column.
LEMMA MergeColumns ==
    ASSUME NEW current \in Rows, NEW loaded \in Rows, NEW new \in Rows
    PROVE  LET m == Merge(current, loaded, new)
           IN  /\ m.plan = IF new.plan # loaded.plan THEN new.plan ELSE current.plan
               /\ m.sub = IF new.sub # loaded.sub THEN new.sub ELSE current.sub
               /\ m.customer = IF new.customer # loaded.customer
                               THEN new.customer ELSE current.customer
BY DEF Merge, Rows

\* No handler touches the customer id, and none changes an account without one.
LEMMA HandleCustomer ==
    ASSUME NEW row \in Rows, NEW ev \in EventRecords
    PROVE  /\ Handle(row, ev).customer = row.customer
           /\ row.customer # Customer => Handle(row, ev) = row
<1>1. HandleCheckoutCompleted(row, ev).customer = row.customer
  BY DEF HandleCheckoutCompleted, Rows
<1>2. HandleSubscriptionUpdated(row, ev).customer = row.customer
  <2> DEFINE plan == IF ev.status \in {"active", "trialing"} THEN PlanOf(ev.price) ELSE "free"
  <2>1. HandleSubscriptionUpdated(row, ev) = [row EXCEPT !.sub = ev.sub, !.plan = plan]
    BY DEF HandleSubscriptionUpdated
  <2> HIDE DEF plan
  <2> QED
    BY <2>1 DEF Rows
<1>3. HandleSubscriptionDeleted(row, ev).customer = row.customer
  BY DEF HandleSubscriptionDeleted, Rows
<1>4. row.customer # Customer => Handle(row, ev) = row
  BY DEF Handle
<1>5. CASE row.customer = Customer
  <2>1. ev.type \in {"completed", "updated", "deleted", "payment_failed"}
    BY DEF EventRecords
  <2> QED
    BY <1>1, <1>2, <1>3, <1>5, <2>1 DEF Handle
<1> QED
  BY <1>4, <1>5

\* A commit of the handler leaves the customer id alone, and the whole row if
\* the row it loaded had none.
LEMMA CommitCustomer ==
    ASSUME ClaimInv, NEW w \in Workers, CommitHandler(w)
    PROVE  /\ account' \in Rows
           /\ account'.customer = account.customer
           /\ worker[w].row.customer # Customer => account' = account
<1>1. /\ account \in Rows /\ worker[w].row \in Rows
      /\ emitted[worker[w].event] \in EventRecords
  BY EventInHand DEF CommitHandler, ClaimInv, TypeOK, WorkerRecords
<1> DEFINE new == Handle(worker[w].row, emitted[worker[w].event])
<1>2. /\ new \in Rows /\ new.customer = worker[w].row.customer
      /\ worker[w].row.customer # Customer => new = worker[w].row
  BY <1>1, HandleType, HandleCustomer
<1>3. account' = Merge(account, worker[w].row, new)
  BY DEF CommitHandler
<1> HIDE DEF new
<1>4. account' \in Rows
  BY <1>1, <1>2, <1>3, MergeType
<1>5. account'.customer = account.customer
  BY <1>1, <1>2, <1>3, MergeColumns
<1>6. worker[w].row.customer # Customer => account' = account
  BY <1>1, <1>2, <1>3, MergeSame
<1> QED
  BY <1>4, <1>5, <1>6

\* A step that leaves the account, the checkouts and Stripe alone and gives no
\* worker another row keeps what is known of them.
LEMMA CheckoutUntouched ==
    ASSUME CheckoutInv, ClaimInv', UNCHANGED <<account, checkout, sessions, subs, emitted>>,
           \A w \in Workers : worker'[w].pc = "loaded" =>
                worker[w].pc = "loaded" /\ worker'[w].row = worker[w].row
    PROVE  CheckoutInv'
<1>1. LiveSubs' = LiveSubs
  BY DEF LiveSubs
<1> QED
  BY <1>1 DEF CheckoutInv, CustomerKnown, SavesWhatItRead, Saving

\* The steps of the one checkout.
LEMMA CheckoutKeepsCheckoutInv ==
    ASSUME OneCheckout, CheckoutInv, ClaimInv', NEW r \in Requests, CheckoutStep(r)
    PROVE  /\ CheckoutInv'
           /\ account'.plan = account.plan /\ account'.sub = account.sub
<1>t. /\ checkout \in [Requests -> CheckoutRecords] /\ account \in Rows
      /\ account' \in Rows /\ checkout[r] \in CheckoutRecords
  BY DEF CheckoutInv, ClaimInv, TypeOK
<1>r. \A q \in Requests : q = r
  BY DEF OneCheckout
<1>s. UNCHANGED <<worker, subs, emitted>>
  BY DEF CheckoutStep, BeginCheckout, CreateCustomer, LoadForUpdate, SaveUser,
         CreateSession, stripeVars, historyVars
<1>l. LiveSubs' = LiveSubs
  BY <1>s DEF LiveSubs
<1>1. ASSUME NEW tier \in Tiers, BeginCheckout(r, tier)
      PROVE  CheckoutInv' /\ account' = account
  <2>1. /\ UNCHANGED <<account, sessions>>
        /\ checkout'[r] = IF account.customer = NoCustomer
             THEN [pc |-> "customer", user |-> account, row |-> BlankRow, tier |-> tier]
             ELSE [pc |-> "session", user |-> BlankRow, row |-> BlankRow, tier |-> tier]
    BY <1>1, <1>t DEF BeginCheckout, stripeVars
  <2>2. account.customer = NoCustomer \/ account.customer = Customer
    BY <1>t DEF Rows
  <2>3. CustomerKnown'
    BY <1>r, <1>s, <1>l, <2>1, <2>2 DEF CheckoutInv, CustomerKnown
  <2>4. SavesWhatItRead'
    BY <1>r, <2>1 DEF CheckoutInv, CustomerKnown, SavesWhatItRead, Saving
  <2> QED
    BY <2>1, <2>3, <2>4 DEF CheckoutInv
<1>2. ASSUME CreateCustomer(r) PROVE CheckoutInv' /\ account' = account
  <2>1. UNCHANGED <<account, sessions>> /\ checkout[r].pc = "customer"
    BY <1>2 DEF CreateCustomer, stripeVars
  <2>2. \/ checkout'[r].pc = "idle"
        \/ /\ checkout'[r].pc = "load"
           /\ checkout'[r].user = [checkout[r].user EXCEPT !.customer = Customer]
    <3>1. CASE checkout' = [checkout EXCEPT ![r] = IdleCheckout]
      BY <3>1, <1>t DEF IdleCheckout
    <3>2. CASE checkout' = [checkout EXCEPT ![r].pc = "load", ![r].user.customer = Customer]
      BY <3>2, <1>t DEF CheckoutRecords
    <3> QED
      BY <1>2, <3>1, <3>2 DEF CreateCustomer
  <2>3. CustomerKnown'
    BY <1>r, <1>s, <1>l, <2>1, <2>2 DEF CheckoutInv, CustomerKnown
  <2>4. checkout[r].user \in Rows
    BY <1>t DEF CheckoutRecords
  <2>5. SavesWhatItRead'
    BY <1>r, <2>1, <2>2, <2>4 DEF CheckoutInv, SavesWhatItRead, Saving, Rows
  <2> QED
    BY <2>1, <2>3, <2>5 DEF CheckoutInv
<1>3. ASSUME LoadForUpdate(r) PROVE CheckoutInv' /\ account' = account
  <2>1. /\ UNCHANGED <<account, sessions>> /\ checkout[r].pc = "load"
        /\ checkout' = [checkout EXCEPT ![r].pc = "save", ![r].row = account]
    BY <1>3 DEF LoadForUpdate, stripeVars
  <2>2. /\ checkout'[r].pc = "save" /\ checkout'[r].row = account
        /\ checkout'[r].user = checkout[r].user
    BY <1>t, <2>1 DEF CheckoutRecords
  <2>3. CustomerKnown'
    BY <1>r, <1>s, <1>l, <2>1, <2>2 DEF CheckoutInv, CustomerKnown
  <2>4. SavesWhatItRead'
    BY <1>r, <2>1, <2>2 DEF CheckoutInv, SavesWhatItRead, Saving
  <2> QED
    BY <2>1, <2>3, <2>4 DEF CheckoutInv
<1>4. ASSUME SaveUser(r)
      PROVE  CheckoutInv' /\ account'.plan = account.plan /\ account'.sub = account.sub
  <2>1. /\ checkout[r].pc = "save" /\ sessions' = sessions
        /\ account' = Merge(account, checkout[r].row, checkout[r].user)
    BY <1>4 DEF SaveUser, stripeVars
  <2>2. checkout'[r].pc = "session"
    BY <1>4, <1>t DEF SaveUser, IdleCheckout
  <2>3. /\ checkout[r].row = account /\ account.customer = NoCustomer
        /\ account.plan = "free" /\ account.sub = NoSub
        /\ checkout[r].user.plan = "free" /\ checkout[r].user.sub = NoSub
        /\ checkout[r].user.customer = Customer
    BY <2>1 DEF CheckoutInv, CustomerKnown, SavesWhatItRead, Saving
  <2>4. checkout[r].user \in Rows
    BY <1>t DEF CheckoutRecords
  <2>5. /\ account'.plan = account.plan /\ account'.sub = account.sub
        /\ account'.customer = Customer
    BY <1>t, <2>1, <2>3, <2>4, MergeColumns, NamesAssumption DEF NamesAssumption
  <2>6. CustomerKnown'
    BY <1>r, <1>s, <2>5, NamesAssumption DEF CheckoutInv, CustomerKnown, NamesAssumption
  <2>7. SavesWhatItRead'
    BY <1>r, <2>2 DEF SavesWhatItRead, Saving
  <2> QED
    BY <2>5, <2>6, <2>7 DEF CheckoutInv
<1>5. ASSUME CreateSession(r) PROVE CheckoutInv' /\ account' = account
  <2>1. UNCHANGED account /\ checkout[r].pc = "session" /\ checkout'[r].pc = "idle"
    BY <1>5, <1>t DEF CreateSession, IdleCheckout
  <2>2. account.customer = Customer
    BY <2>1 DEF CheckoutInv, CustomerKnown
  <2>3. CustomerKnown' /\ SavesWhatItRead'
    BY <1>r, <1>s, <2>1, <2>2, NamesAssumption
    DEF CheckoutInv, CustomerKnown, SavesWhatItRead, Saving, NamesAssumption
  <2> QED
    BY <2>1, <2>3 DEF CheckoutInv
<1> QED
  BY <1>1, <1>2, <1>3, <1>4, <1>5 DEF CheckoutStep

\* Stripe's steps: only a customer with a session or a live subscription has events.
LEMMA StripeKeepsCheckoutInv ==
    ASSUME CheckoutInv, ClaimInv', StripeStep
    PROVE  CheckoutInv' /\ UNCHANGED <<account, worker>>
<1>1. UNCHANGED <<account, worker, checkout>>
  BY DEF StripeStep, CompleteCheckout, ChangeSubscription, PaymentFails,
         CancelSubscription, Expire, Emit, appVars
<1>2. ASSUME NEW e \in Events, Expire(e) PROVE CheckoutInv'
  BY <1>2, CheckoutUntouched DEF Expire, appVars
<1>3. ASSUME sessions # {} \/ LiveSubs # {} PROVE CheckoutInv'
  <2>1. account.customer = Customer
    BY <1>3 DEF CheckoutInv, CustomerKnown
  <2> QED
    BY <1>1, <2>1, NamesAssumption
    DEF CheckoutInv, CustomerKnown, SavesWhatItRead, Saving, NamesAssumption
<1>4. (\E e \in Events : Expire(e)) \/ sessions # {} \/ LiveSubs # {}
  BY DEF StripeStep, CompleteCheckout, ChangeSubscription, PaymentFails, CancelSubscription
<1> QED
  BY <1>1, <1>2, <1>3, <1>4

\* The workers' steps: a commit that changes the account knows its customer id.
LEMMA WorkersKeepCheckoutInv ==
    ASSUME CheckoutInv, ClaimInv', NEW w \in Workers,
           WorkerStep(w) \/ FailDelivery(w) \/ \E e \in Events : Deliver(w, e)
    PROVE  CheckoutInv'
<1>t. /\ worker \in [Workers -> WorkerRecords] /\ account \in Rows
      /\ worker[w] \in WorkerRecords
  BY DEF CheckoutInv, ClaimInv, TypeOK
<1>1. CASE SkipDuplicate(w) \/ LogPaymentFailed(w) \/ FailDelivery(w)
  <2>1. /\ UNCHANGED <<account, checkout, sessions, subs, emitted>>
        /\ worker' = [worker EXCEPT ![w] = IdleWorker]
    BY <1>1 DEF SkipDuplicate, LogPaymentFailed, FailDelivery, Acknowledge,
                stripeVars, historyVars
  <2> QED
    BY <1>t, <2>1, CheckoutUntouched DEF IdleWorker
<1>2. CASE RecordEvent(w)
  <2>1. /\ UNCHANGED <<account, checkout, sessions, subs, emitted>>
        /\ worker' = [worker EXCEPT ![w].pc = "recorded"]
    BY <1>2 DEF RecordEvent, stripeVars
  <2> QED
    BY <1>t, <2>1, CheckoutUntouched DEF WorkerRecords
<1>3. ASSUME NEW e \in Events, Deliver(w, e) PROVE CheckoutInv'
  <2>1. /\ UNCHANGED <<account, checkout, sessions, subs, emitted>>
        /\ worker' = [worker EXCEPT ![w] = [IdleWorker EXCEPT !.pc = "received", !.event = e]]
    BY <1>3 DEF Deliver, stripeVars
  <2> QED
    BY <1>t, <2>1, CheckoutUntouched DEF IdleWorker
<1>4. CASE LoadAccount(w)
  <2>1. /\ UNCHANGED <<account, checkout, sessions, subs, emitted>>
        /\ worker' = [worker EXCEPT ![w].pc = "loaded", ![w].row = account]
    BY <1>4 DEF LoadAccount, stripeVars
  <2>2. \A v \in Workers : worker'[v].row = IF v = w THEN account ELSE worker[v].row
    BY <1>t, <2>1 DEF WorkerRecords
  <2>3. \A v \in Workers : v # w => worker'[v] = worker[v]
    BY <1>t, <2>1
  <2>4. LiveSubs' = LiveSubs
    BY <2>1 DEF LiveSubs
  <2>5. CustomerKnown'
    BY <2>1, <2>2, <2>3, <2>4 DEF CheckoutInv, CustomerKnown
  <2>6. SavesWhatItRead'
    BY <2>1 DEF CheckoutInv, SavesWhatItRead, Saving
  <2> QED
    BY <2>5, <2>6 DEF CheckoutInv
<1>5. CASE CommitHandler(w)
  <2>1. /\ UNCHANGED <<checkout, sessions, subs, emitted>>
        /\ worker[w].pc = "loaded"
        /\ worker' = [worker EXCEPT ![w] = IdleWorker]
    BY <1>5 DEF CommitHandler, Acknowledge
  <2>2. \A v \in Workers : worker'[v].pc = "loaded" =>
                worker[v].pc = "loaded" /\ worker'[v].row = worker[v].row
    BY <1>t, <2>1 DEF IdleWorker
  <2>3. CASE worker[w].row.customer # Customer
    BY <1>5, <2>1, <2>2, <2>3, CommitCustomer, CheckoutUntouched DEF CheckoutInv
  <2>4. CASE worker[w].row.customer = Customer
    <3>1. account.customer = Customer
      BY <2>1, <2>4 DEF CheckoutInv, CustomerKnown
    <3>2. account'.customer = Customer
      BY <1>5, <3>1, CommitCustomer DEF CheckoutInv
    <3> QED
      BY <2>1, <3>1, <3>2, NamesAssumption
      DEF CheckoutInv, CustomerKnown, SavesWhatItRead, Saving, NamesAssumption
  <2> QED
    BY <2>3, <2>4
<1> QED
  BY <1>1, <1>2, <1>3, <1>4, <1>5 DEF WorkerStep

\* With one checkout, every step keeps CheckoutInv, and only a handler's commit
\* changes the plan or the subscription id.
LEMMA NextCheckoutInv ==
    ASSUME OneCheckout, CheckoutInv, [Next]_vars
    PROVE  /\ CheckoutInv'
           /\ account'.plan # account.plan \/ account'.sub # account.sub => applied' # applied
<1>0. ClaimInv'
  BY NextClaimInv, BoundsAssumption, TiersAssumption DEF CheckoutInv
<1>1. ASSUME NEW r \in Requests, CheckoutStep(r)
      PROVE  CheckoutInv' /\ account'.plan = account.plan /\ account'.sub = account.sub
  BY <1>0, <1>1, CheckoutKeepsCheckoutInv
<1>2. ASSUME StripeStep PROVE CheckoutInv' /\ account' = account
  BY <1>0, <1>2, StripeKeepsCheckoutInv
<1>3. ASSUME NEW w \in Workers,
             WorkerStep(w) \/ FailDelivery(w) \/ \E e \in Events : Deliver(w, e)
      PROVE  CheckoutInv' /\ (account' = account \/ applied' # applied)
  <2>1. CheckoutInv'
    BY <1>0, <1>3, WorkersKeepCheckoutInv
  <2>2. CASE CommitHandler(w)
    <3>1. PICK e \in Events : e = worker[w].event
      BY <2>2, EventInHand DEF CommitHandler, CheckoutInv
    <3>2. applied[e] \in Nat /\ applied' = [applied EXCEPT ![e] = @ + 1]
      BY <2>2, <3>1 DEF CommitHandler, CheckoutInv, ClaimInv, TypeOK
    <3>3. applied'[e] = applied[e] + 1
      BY <3>2 DEF CheckoutInv, ClaimInv, TypeOK
    <3>4. applied' # applied
      BY <3>2, <3>3
    <3> QED
      BY <2>1, <3>4
  <2>3. CASE ~CommitHandler(w)
    BY <1>3, <2>1, <2>3 DEF WorkerStep, SkipDuplicate, RecordEvent, LogPaymentFailed,
                            LoadAccount, FailDelivery, Deliver
  <2> QED
    BY <2>2, <2>3
<1>4. ASSUME CleanupStripeEvents \/ UNCHANGED vars PROVE CheckoutInv' /\ account' = account
  <2>1. UNCHANGED <<account, checkout, sessions, subs, emitted, worker>>
    BY <1>4 DEF CleanupStripeEvents, vars, appVars, stripeVars
  <2> QED
    BY <1>0, <2>1, CheckoutUntouched
<1> QED
  BY <1>1, <1>2, <1>3, <1>4 DEF Next

\* At the start the account has no customer id and no checkout is open.
LEMMA InitCheckoutInv == Init => CheckoutInv
<1> SUFFICES ASSUME Init PROVE CheckoutInv
  OBVIOUS
<1>1. ClaimInv
  BY InitClaimInv, BoundsAssumption
<1>2. CustomerKnown
  BY DEF Init, CustomerKnown, LiveSubs, BlankRow, IdleCheckout, IdleWorker
<1>3. SavesWhatItRead
  BY DEF Init, SavesWhatItRead, Saving, IdleCheckout
<1> QED
  BY <1>1, <1>2, <1>3 DEF CheckoutInv

\* While the user has one checkout open, only the handler of a Stripe event
\* changes the plan or the subscription id.
THEOREM PlanChangesByEvents ==
    ASSUME OneCheckout PROVE Spec => PlanChangesOnlyByEvent
<1>1. CheckoutInv /\ [Next]_vars => CheckoutInv'
  BY NextCheckoutInv
<1>2. CheckoutInv /\ [Next]_vars =>
        [account'.plan # account.plan \/ account'.sub # account.sub
           => applied' # applied]_vars
  BY NextCheckoutInv
<1> QED
  BY <1>1, <1>2, InitCheckoutInv, PTL DEF Spec, PlanChangesOnlyByEvent

-----------------------------------------------------------------------------
(* Orderly deliveries *)

\* The events that may change the account.
Changes == {e \in 1 .. Len(emitted) : emitted[e].type # "payment_failed"}

LastOf(S, e) == e \in S /\ \A d \in S : d <= e

\* What the account looks like when ev was the last change it was told of.
Shows(ev) ==
    /\ ev.type = "updated" =>
          /\ account.sub = ev.sub
          /\ account.plan = IF ev.status \in {"active", "trialing"}
                            THEN PlanOf(ev.price) ELSE "free"
    /\ ev.type = "deleted" => account.plan = "free" /\ account.sub = NoSub

\* The account shows the last change that was answered.
AccountFollows ==
    /\ acked \cap Changes = {} => account.plan = "free" /\ account.sub = NoSub
    /\ \A e \in acked \cap Changes : LastOf(acked \cap Changes, e) => Shows(emitted[e])

\* The last change Stripe emitted tells what it holds now.
StripeFollows ==
    \/ Changes = {} /\ LiveSubs = {}
    \/ \E e \in Changes :
          /\ LastOf(Changes, e)
          /\ \/ emitted[e].type = "deleted" /\ LiveSubs = {}
             \/ /\ emitted[e].type = "updated"
                /\ LiveSubs = {emitted[e].sub}
                /\ subs[emitted[e].sub] = [status |-> emitted[e].status,
                                           price |-> emitted[e].price]

\* One delivery is in hand at a time, after every earlier one was answered; an
\* answered event is an applied one, and the handler's row is the current one.
OneAtATime ==
    /\ failures = 0
    /\ \A v, w \in Workers : worker[v].pc # "idle" /\ worker[w].pc # "idle" => v = w
    /\ \A e \in Events : applied[e] = 1 <=> e \in acked
    /\ \A e \in acked : \A d \in 1 .. e - 1 : d \in acked
    /\ \A w \in Workers :
          /\ worker[w].pc # "idle" => \A d \in 1 .. worker[w].event - 1 : d \in acked
          /\ worker[w].pc = "loaded" => worker[w].row = account

OrderlyInv ==
    /\ CheckoutInv /\ AnswerInv /\ StripeFollows
    /\ orderly => OneAtATime /\ AccountFollows
\* What Emit appends, event by event.
LEMMA EmitAppends ==
    ASSUME TypeOK, NEW evs \in Seq(EventRecords), Emit(evs)
    PROVE  /\ Len(emitted) \in Nat /\ Len(evs) \in Nat
           /\ Len(emitted') = Len(emitted) + Len(evs)
           /\ \A i \in 1 .. Len(emitted) : emitted'[i] = emitted[i]
           /\ \A i \in 1 .. Len(evs) : emitted'[Len(emitted) + i] = evs[i]
<1>1. emitted \in Seq(EventRecords) /\ emitted' = emitted \o evs
  BY DEF TypeOK, Emit
<1>2. /\ Len(emitted \o evs) = Len(emitted) + Len(evs)
      /\ Len(emitted) \in Nat /\ Len(evs) \in Nat
      /\ \A i \in 1 .. Len(emitted) + Len(evs) :
            (emitted \o evs)[i] = IF i <= Len(emitted) THEN emitted[i]
                                  ELSE evs[i - Len(emitted)]
  BY <1>1, ConcatProperties, LenProperties
<1> DEFINE n == Len(emitted)  m == Len(evs)
<1>3. /\ n \in Nat /\ m \in Nat /\ Len(emitted') = n + m
      /\ \A i \in 1 .. n + m : emitted'[i] = IF i <= n THEN emitted[i] ELSE evs[i - n]
  BY <1>1, <1>2
<1>4. /\ n \in Nat /\ m \in Nat /\ Len(emitted') = n + m
      /\ \A i \in 1 .. n : emitted'[i] = emitted[i]
      /\ \A i \in 1 .. m : emitted'[n + i] = evs[i]
  <2> HIDE DEF n, m
  <2>1. \A i \in 1 .. n : i \in 1 .. n + m /\ i <= n
    BY <1>3
  <2>2. \A i \in 1 .. m : n + i \in 1 .. n + m /\ ~(n + i <= n) /\ (n + i) - n = i
    BY <1>3
  <2> QED
    BY <1>3, <2>1, <2>2
<1> QED
  BY <1>4

\* When the last event emitted is a change that tells what Stripe holds,
\* StripeFollows holds, whatever was emitted before.
LEMMA LastEventTells ==
    ASSUME TypeOK, NEW evs \in Seq(EventRecords), Emit(evs), NEW ev,
           NEW m \in Nat, m # 0, Len(evs) = m, evs[m] = ev,
           \/ ev.type = "deleted" /\ LiveSubs' = {}
           \/ /\ ev.type = "updated" /\ LiveSubs' = {ev.sub}
              /\ subs'[ev.sub] = [status |-> ev.status, price |-> ev.price]
    PROVE  StripeFollows'
<1> DEFINE n == Len(emitted)
<1>1. /\ n \in Nat /\ Len(emitted') = n + m
      /\ \A i \in 1 .. m : emitted'[n + i] = evs[i]
  BY EmitAppends
<1> HIDE DEF n
<1>2. m \in 1 .. m /\ n + m \in 1 .. n + m
  BY <1>1
<1>3. emitted'[n + m] = ev
  BY <1>1, <1>2
<1>4. n + m \in Changes'
  BY <1>1, <1>2, <1>3 DEF Changes
<1>5. \A d \in Changes' : d <= n + m
  BY <1>1 DEF Changes
<1>6. LastOf(Changes', n + m)
  BY <1>4, <1>5 DEF LastOf
<1> QED
  BY <1>3, <1>4, <1>6 DEF StripeFollows

LEMMA OneEventTells ==
    ASSUME TypeOK, NEW ev \in EventRecords, Emit(<<ev>>),
           \/ ev.type = "deleted" /\ LiveSubs' = {}
           \/ /\ ev.type = "updated" /\ LiveSubs' = {ev.sub}
              /\ subs'[ev.sub] = [status |-> ev.status, price |-> ev.price]
    PROVE  StripeFollows'
<1> DEFINE evs == <<ev>>
<1>1. evs \in Seq(EventRecords) /\ Len(evs) = 1 /\ evs[1] = ev /\ Emit(evs)
  OBVIOUS
<1> HIDE DEF evs
<1> QED
  BY <1>1, LastEventTells

\* A payment that fails changes nothing Stripe holds.
LEMMA PaymentTellsNothing ==
    ASSUME TypeOK, StripeFollows, NEW ev \in EventRecords, Emit(<<ev>>),
           ev.type = "payment_failed", subs' = subs
    PROVE  StripeFollows'
<1> DEFINE n == Len(emitted)
<1>0. <<ev>> \in Seq(EventRecords) /\ Len(<<ev>>) = 1 /\ <<ev>>[1] = ev
  OBVIOUS
<1>1. /\ n \in Nat /\ Len(emitted') = n + 1
      /\ \A i \in 1 .. n : emitted'[i] = emitted[i]
      /\ emitted'[n + 1] = ev
  <2> DEFINE evs == <<ev>>
  <2>1. evs \in Seq(EventRecords) /\ Len(evs) = 1 /\ evs[1] = ev /\ Emit(evs)
    BY <1>0
  <2> HIDE DEF evs
  <2>2. /\ Len(emitted) \in Nat /\ Len(emitted') = Len(emitted) + Len(evs)
        /\ \A i \in 1 .. Len(emitted) : emitted'[i] = emitted[i]
        /\ \A i \in 1 .. Len(evs) : emitted'[Len(emitted) + i] = evs[i]
    BY <2>1, EmitAppends
  <2>3. 1 \in 1 .. Len(evs)
    BY <2>1
  <2> QED
    BY <2>1, <2>2, <2>3
<1>2. Changes = {e \in 1 .. n : emitted[e].type # "payment_failed"}
  BY DEF Changes
<1> HIDE DEF n
<1>3. 1 .. n + 1 = (1 .. n) \cup {n + 1}
  BY <1>1
<1>4. Changes' = Changes
  BY <1>1, <1>2, <1>3 DEF Changes
<1>5. \A e \in Changes : emitted'[e] = emitted[e]
  BY <1>1, <1>2
<1>6. LiveSubs' = LiveSubs
  BY DEF LiveSubs
<1> QED
  BY <1>4, <1>5, <1>6 DEF StripeFollows

\* While Stripe keeps one subscription alive, what it emits last tells what it holds.
LEMMA StripeTellsWhatItHolds ==
    ASSUME MaxLiveSubs <= 1, TypeOK, TypeOK', StripeFollows, StripeStep
    PROVE  StripeFollows'
<1>t. /\ subs \in [Subs -> [status : Statuses, price : Prices]]
      /\ subs' \in [Subs -> [status : Statuses, price : Prices]]
  BY DEF TypeOK
<1>o. LiveSubs = {} \/ \E s \in Subs : LiveSubs = {s}
  BY DEF StripeFollows, LiveSubs
<1>e. ASSUME NEW type \in {"completed", "updated", "deleted", "payment_failed"},
             NEW s \in Subs, NEW sub \in [status : Statuses, price : Prices]
      PROVE  /\ Event(type, s, sub) \in EventRecords
             /\ Event(type, s, sub).type = type /\ Event(type, s, sub).sub = s
             /\ sub = [status |-> Event(type, s, sub).status,
                       price |-> Event(type, s, sub).price]
  BY DEF Event, EventRecords
<1>1. ASSUME NEW s \in Subs, NEW tier \in PricedTiers, CompleteCheckout(s, tier)
      PROVE  StripeFollows'
  <2>1. LiveSubs = {}
    <3>1. ~(Cardinality(LiveSubs) >= 1)
      <4>1. Cardinality(LiveSubs) \in Nat
        <5>1. CASE LiveSubs = {}
          BY <5>1, FS_EmptySet
        <5>2. ASSUME NEW x \in Subs, LiveSubs = {x} PROVE Cardinality(LiveSubs) = 1
          BY <5>2, FS_Singleton
        <5> QED
          BY <1>o, <5>1, <5>2
      <4> QED
        BY <1>1, <4>1, BoundsAssumption DEF CompleteCheckout, BoundsAssumption
    <3>2. ASSUME NEW x \in Subs PROVE LiveSubs # {x}
      BY <3>1, FS_Singleton
    <3> QED
      BY <1>o, <3>2
  <2>2. /\ subs'[s].status = "active"
        /\ \A x \in Subs \ {s} : subs'[x] = subs[x]
    BY <1>1, <1>t DEF CompleteCheckout
  <2>3. LiveSubs' = {s}
    BY <2>1, <2>2 DEF LiveSubs
  <2> DEFINE done == Event("completed", s, subs'[s])  ev == Event("updated", s, subs'[s])
  <2>4. /\ done \in EventRecords /\ ev \in EventRecords
        /\ ev.type = "updated" /\ ev.sub = s
        /\ subs'[s] = [status |-> ev.status, price |-> ev.price]
    BY <1>t, <1>e
  <2>5. Emit(<<done, ev>>)
    BY <1>1 DEF CompleteCheckout
  <2> HIDE DEF done, ev
  <2>6. <<done, ev>> \in Seq(EventRecords) /\ Len(<<done, ev>>) = 2 /\ <<done, ev>>[2] = ev
    BY <2>4
  <2> DEFINE evs == <<done, ev>>
  <2>7. evs \in Seq(EventRecords) /\ Len(evs) = 2 /\ evs[2] = ev /\ Emit(evs)
    BY <2>5, <2>6
  <2> HIDE DEF evs
  <2>8. ev.type = "updated" /\ LiveSubs' = {ev.sub}
          /\ subs'[ev.sub] = [status |-> ev.status, price |-> ev.price]
    BY <2>3, <2>4
  <2> HIDE DEF ev
  <2> QED
    BY ONLY <2>7, <2>8, LastEventTells, TypeOK
<1>2. ASSUME NEW s \in Subs, NEW price \in Prices,
             NEW status \in Statuses \ {"canceled"}, ChangeSubscription(s, price, status)
      PROVE  StripeFollows'
  <2>1. LiveSubs = {s}
    BY <1>2, <1>o DEF ChangeSubscription
  <2>2. /\ subs'[s].status # "canceled"
        /\ \A x \in Subs \ {s} : subs'[x] = subs[x]
    BY <1>2, <1>t DEF ChangeSubscription
  <2>3. LiveSubs' = {s}
    BY <2>1, <2>2 DEF LiveSubs
  <2> DEFINE ev == Event("updated", s, subs'[s])
  <2>4. /\ ev \in EventRecords /\ ev.type = "updated" /\ ev.sub = s
        /\ subs'[s] = [status |-> ev.status, price |-> ev.price]
    BY <1>t, <1>e
  <2>5. Emit(<<ev>>)
    BY <1>2 DEF ChangeSubscription
  <2> HIDE DEF ev
  <2> QED
    BY <2>3, <2>4, <2>5, OneEventTells
<1>3. ASSUME NEW s \in Subs, PaymentFails(s) PROVE StripeFollows'
  <2> DEFINE ev == Event("payment_failed", s, subs[s])
  <2>1. ev \in EventRecords /\ ev.type = "payment_failed"
    BY <1>t, <1>e
  <2>2. Emit(<<ev>>) /\ subs' = subs
    BY <1>3 DEF PaymentFails
  <2> HIDE DEF ev
  <2> QED
    BY <2>1, <2>2, PaymentTellsNothing
<1>4. ASSUME NEW s \in Subs, CancelSubscription(s) PROVE StripeFollows'
  <2>1. LiveSubs = {s}
    BY <1>4, <1>o DEF CancelSubscription
  <2>2. /\ subs'[s].status = "canceled"
        /\ \A x \in Subs \ {s} : subs'[x] = subs[x]
    BY <1>4, <1>t DEF CancelSubscription
  <2>3. LiveSubs' = {}
    BY <2>1, <2>2 DEF LiveSubs
  <2> DEFINE ev == Event("deleted", s, subs'[s])
  <2>4. ev \in EventRecords /\ ev.type = "deleted"
    BY <1>t, <1>e
  <2>5. Emit(<<ev>>)
    BY <1>4 DEF CancelSubscription
  <2> HIDE DEF ev
  <2> QED
    BY <2>3, <2>4, <2>5, OneEventTells
<1>5. ASSUME NEW e \in Events, Expire(e) PROVE StripeFollows'
  <2>1. UNCHANGED <<subs, emitted>>
    BY <1>5 DEF Expire
  <2> QED
    BY <2>1 DEF StripeFollows, LiveSubs, Changes, LastOf
<1> QED
  BY <1>1, <1>2, <1>3, <1>4, <1>5 DEF StripeStep

\* What a handler writes when the row it loaded is the current one.
LEMMA HandleShows ==
    ASSUME NEW row \in Rows, row.customer = Customer, NEW ev \in EventRecords
    PROVE  LET new == Handle(row, ev)
           IN  /\ ev.type = "updated" =>
                    /\ new.sub = ev.sub
                    /\ new.plan = IF ev.status \in {"active", "trialing"}
                                  THEN PlanOf(ev.price) ELSE "free"
               /\ ev.type = "deleted" => new.plan = "free" /\ new.sub = NoSub
<1>1. CASE ev.type = "updated"
  <2> DEFINE plan == IF ev.status \in {"active", "trialing"} THEN PlanOf(ev.price) ELSE "free"
  <2>1. Handle(row, ev) = [row EXCEPT !.sub = ev.sub, !.plan = plan]
    BY <1>1 DEF Handle, HandleSubscriptionUpdated
  <2>2. Handle(row, ev).sub = ev.sub /\ Handle(row, ev).plan = plan
    <3> HIDE DEF plan
    <3> QED
      BY <2>1 DEF Rows
  <2> QED
    BY <1>1, <2>2
<1>2. CASE ev.type = "deleted"
  BY <1>2 DEF Handle, HandleSubscriptionDeleted, Rows
<1> QED
  BY <1>1, <1>2

\* A session that changed everything it loaded, or nothing, writes its own row.
LEMMA MergeCurrent ==
    ASSUME NEW current \in Rows, NEW new \in Rows
    PROVE  Merge(current, current, new) = new
BY DEF Merge, Rows

\* A step that answers nothing, and keeps the plan, the subscription id and the
\* events there are, keeps what the account shows.
LEMMA FollowsUntouched ==
    ASSUME TypeOK, AccountFollows, acked' = acked,
           account'.plan = account.plan, account'.sub = account.sub,
           Len(emitted') \in Nat, Len(emitted) <= Len(emitted'),
           \A i \in 1 .. Len(emitted) : emitted'[i] = emitted[i]
    PROVE  AccountFollows'
<1>1. acked \subseteq 1 .. Len(emitted) /\ Len(emitted) \in Nat
  BY LenProperties DEF TypeOK
<1> DEFINE n == Len(emitted)
<1>2. acked \subseteq 1 .. Len(emitted')
  <2> DEFINE m == Len(emitted')
  <2>1. n \in Nat /\ m \in Nat /\ n <= m /\ acked \subseteq 1 .. n
    BY <1>1
  <2> HIDE DEF n, m
  <2>2. acked \subseteq 1 .. m
    BY <2>1
  <2> QED
    BY <2>2 DEF m
<1>3. \A e \in acked : emitted'[e] = emitted[e]
  BY <1>1
<1>4. acked' \cap Changes' = acked \cap Changes
  BY <1>1, <1>2, <1>3 DEF Changes
<1>5. \A e \in acked \cap Changes : Shows(emitted[e]) => Shows(emitted[e])'
  BY <1>3 DEF Shows
<1> QED
  BY <1>4, <1>5 DEF AccountFollows, LastOf

\* A step that leaves the workers and the answers alone keeps the order.
LEMMA OneAtATimeUntouched ==
    ASSUME OneAtATime, UNCHANGED <<worker, failures, applied, acked>>,
           account' = account \/ \A w \in Workers : worker[w].pc # "loaded"
    PROVE  OneAtATime'
BY DEF OneAtATime

\* With an event emitted the customer id is known, and no checkout is saving it.
LEMMA CheckoutLeavesAccount ==
    ASSUME CheckoutInv, emitted # <<>>, NEW r \in Requests, CheckoutStep(r)
    PROVE  account' = account
<1>1. account.customer = Customer
  BY DEF CheckoutInv, CustomerKnown
<1>2. checkout[r].pc # "save"
  BY <1>1, NamesAssumption DEF CheckoutInv, SavesWhatItRead, Saving, NamesAssumption
<1> QED
  BY <1>2 DEF CheckoutStep, BeginCheckout, CreateCustomer, LoadForUpdate, SaveUser,
              CreateSession

\* A delivery in hand is of an event that has been emitted.
LEMMA BusyMeansEmitted ==
    ASSUME ClaimInv, NEW w \in Workers, worker[w].pc # "idle"
    PROVE  emitted # <<>>
<1>1. worker[w].event \in 1 .. Len(emitted)
  BY EventInHand
<1> QED
  BY <1>1

\* Stripe leaves its list of events alone or appends to it.
LEMMA StripeEmits ==
    ASSUME TypeOK, TypeOK', StripeStep
    PROVE  emitted' = emitted \/ \E evs \in Seq(EventRecords) : Emit(evs)
<1>t. /\ subs \in [Subs -> [status : Statuses, price : Prices]]
      /\ subs' \in [Subs -> [status : Statuses, price : Prices]]
  BY DEF TypeOK
<1>e. ASSUME NEW type \in {"completed", "updated", "deleted", "payment_failed"},
             NEW s \in Subs, NEW sub \in [status : Statuses, price : Prices]
      PROVE  Event(type, s, sub) \in EventRecords
  BY DEF Event, EventRecords
<1>1. ASSUME NEW s \in Subs
      PROVE  /\ <<Event("completed", s, subs'[s]), Event("updated", s, subs'[s])>>
                   \in Seq(EventRecords)
             /\ <<Event("updated", s, subs'[s])>> \in Seq(EventRecords)
             /\ <<Event("payment_failed", s, subs[s])>> \in Seq(EventRecords)
             /\ <<Event("deleted", s, subs'[s])>> \in Seq(EventRecords)
  BY <1>t, <1>e
<1>2. ASSUME NEW s \in Subs, NEW tier \in PricedTiers, CompleteCheckout(s, tier)
      PROVE  \E evs \in Seq(EventRecords) : Emit(evs)
  BY <1>1, <1>2 DEF CompleteCheckout
<1>3. ASSUME NEW s \in Subs, NEW price \in Prices,
             NEW status \in Statuses \ {"canceled"}, ChangeSubscription(s, price, status)
      PROVE  \E evs \in Seq(EventRecords) : Emit(evs)
  BY <1>1, <1>3 DEF ChangeSubscription
<1>4. ASSUME NEW s \in Subs, PaymentFails(s) \/ CancelSubscription(s)
      PROVE  \E evs \in Seq(EventRecords) : Emit(evs)
  BY <1>1, <1>4 DEF PaymentFails, CancelSubscription
<1>5. ASSUME NEW e \in Events, Expire(e) PROVE emitted' = emitted
  BY <1>5 DEF Expire
<1> QED
  BY <1>2, <1>3, <1>4, <1>5 DEF StripeStep

\* The steps of the checkout, of Stripe and of the clean-up.
LEMMA OtherStepsKeepOrder ==
    ASSUME OneCheckout, OrderlyInv, orderly, CheckoutInv', TypeOK',
           (\E r \in Requests : CheckoutStep(r)) \/ StripeStep
              \/ CleanupStripeEvents \/ UNCHANGED vars
    PROVE  OneAtATime' /\ AccountFollows'
<1>t. TypeOK /\ OneAtATime /\ AccountFollows /\ CheckoutInv /\ ClaimInv
  BY DEF OrderlyInv, CheckoutInv, ClaimInv
<1>1. UNCHANGED <<worker, applied, acked, failures>>
  BY OtherStepsAnswerNothing
<1>2. /\ account'.plan = account.plan /\ account'.sub = account.sub
      /\ account' = account \/ \A w \in Workers : worker[w].pc # "loaded"
  <2>1. ASSUME NEW r \in Requests, CheckoutStep(r)
        PROVE  /\ account'.plan = account.plan /\ account'.sub = account.sub
               /\ account' = account \/ \A w \in Workers : worker[w].pc # "loaded"
    <3>1. account'.plan = account.plan /\ account'.sub = account.sub
      BY <1>t, <2>1, CheckoutKeepsCheckoutInv DEF CheckoutInv
    <3>2. ASSUME NEW w \in Workers, worker[w].pc = "loaded" PROVE account' = account
      BY <1>t, <2>1, <3>2, BusyMeansEmitted, CheckoutLeavesAccount
    <3> QED
      BY <3>1, <3>2
  <2>2. CASE StripeStep
    BY <1>t, <2>2, StripeKeepsCheckoutInv DEF CheckoutInv
  <2>3. CASE CleanupStripeEvents \/ UNCHANGED vars
    BY <2>3 DEF CleanupStripeEvents, vars, appVars
  <2> QED
    BY <2>1, <2>2, <2>3
<1>3. /\ Len(emitted') \in Nat /\ Len(emitted) <= Len(emitted')
      /\ \A i \in 1 .. Len(emitted) : emitted'[i] = emitted[i]
  <2>1. ASSUME emitted' = emitted
        PROVE  /\ Len(emitted') \in Nat /\ Len(emitted) <= Len(emitted')
               /\ \A i \in 1 .. Len(emitted) : emitted'[i] = emitted[i]
    BY <1>t, <2>1, LenProperties DEF TypeOK
  <2>2. ASSUME NEW evs \in Seq(EventRecords), Emit(evs)
        PROVE  /\ Len(emitted') \in Nat /\ Len(emitted) <= Len(emitted')
               /\ \A i \in 1 .. Len(emitted) : emitted'[i] = emitted[i]
    BY <1>t, <2>2, EmitAppends
  <2>3. CASE StripeStep
    BY <1>t, <2>1, <2>2, <2>3, StripeEmits
  <2>4. ASSUME NEW r \in Requests, CheckoutStep(r) PROVE emitted' = emitted
    BY <2>4 DEF CheckoutStep, BeginCheckout, CreateCustomer, LoadForUpdate, SaveUser,
                CreateSession, stripeVars
  <2>5. CASE CleanupStripeEvents \/ UNCHANGED vars
    BY <2>1, <2>5 DEF CleanupStripeEvents, vars, stripeVars
  <2> QED
    BY <2>1, <2>3, <2>4, <2>5
<1> QED
  BY <1>t, <1>1, <1>2, <1>3, FollowsUntouched, OneAtATimeUntouched

\* An answered event is applied, and one in hand is the next to be answered.
LEMMA InHand ==
    ASSUME OneAtATime, AnswerInv, NEW w \in Workers, worker[w].pc # "idle",
           NEW e \in Events, e = worker[w].event
    PROVE  /\ \A v \in Workers \ {w} : worker[v].pc = "idle"
           /\ \A d \in 1 .. e - 1 : d \in acked
           /\ worker[w].pc = "received" /\ e \in processed => e \in acked
           /\ Holds(w) => \A d \in acked : d < e
<1>1. \A v \in Workers \ {w} : worker[v].pc = "idle"
  BY DEF OneAtATime
<1>2. \A d \in 1 .. e - 1 : d \in acked
  BY DEF OneAtATime
<1>3. ASSUME worker[w].pc = "received", e \in processed PROVE e \in acked
  <2>1. claims[e] = 1 /\ failures = 0
    BY <1>3 DEF AnswerInv, AnsweredIsClaimed, OneAtATime
  <2>2. Holders(e) = {}
    BY <1>1, <1>3 DEF Holders
  <2>3. applied[e] \in Nat /\ applied[e] <= 1
    BY DEF AnswerInv, ClaimInv, ClaimCounts, TypeOK
  <2>4. LedgerOf(e) # "lost"
    BY <2>1 DEF AnswerInv, NothingLost
  <2>5. applied[e] > 0
    BY <2>1, <2>2, <2>4 DEF LedgerOf
  <2> QED
    BY <2>3, <2>5 DEF OneAtATime
<1>4. ASSUME Holds(w), NEW d \in acked PROVE d < e
  <2>1. e \notin acked
    BY <1>4, HeldIsClaimed DEF OneAtATime, AnswerInv
  <2>2. acked \subseteq Events
    BY DEF AnswerInv, AnsweredIsClaimed
  <2>3. d \in Nat /\ e \in Nat /\ e >= 1
    BY <2>2 DEF Events
  <2>4. d # e
    BY <2>1
  <2>5. ~(e \in 1 .. d - 1)
    BY <2>1 DEF OneAtATime
  <2> QED
    BY <2>3, <2>4, <2>5
<1> QED
  BY <1>1, <1>2, <1>3, <1>4

\* A delivery that goes on, or is answered without an effect, keeps the order.
LEMMA QuietStepsKeepOrder ==
    ASSUME OrderlyInv, orderly, TypeOK', NEW w \in Workers,
           SkipDuplicate(w) \/ RecordEvent(w) \/ LoadAccount(w)
              \/ \E e \in Events : Deliver(w, e)
    PROVE  OneAtATime' /\ AccountFollows'
<1>t. /\ OneAtATime /\ AccountFollows /\ AnswerInv /\ ClaimInv /\ TypeOK
      /\ worker \in [Workers -> WorkerRecords]
      /\ worker[w] \in WorkerRecords
  BY DEF OrderlyInv, AnswerInv, ClaimInv, TypeOK
<1>1. UNCHANGED <<account, emitted, applied, failures>>
  BY DEF SkipDuplicate, RecordEvent, LoadAccount, Deliver, stripeVars, historyVars
<1>2. acked' = acked
  <2>1. CASE SkipDuplicate(w)
    <3>1. PICK e \in Events : e = worker[w].event
      BY <1>t, <2>1, EventInHand DEF SkipDuplicate
    <3>2. e \in acked
      BY <1>t, <2>1, <3>1, InHand DEF SkipDuplicate
    <3> QED
      BY <2>1, <3>1, <3>2 DEF SkipDuplicate, Acknowledge
  <2>2. CASE ~SkipDuplicate(w)
    BY <2>2 DEF RecordEvent, LoadAccount, Deliver, stripeVars
  <2> QED
    BY <2>1, <2>2
<1>3. AccountFollows'
  BY <1>t, <1>1, <1>2, FollowsUntouched, LenProperties DEF TypeOK
<1>4. \A v \in Workers \ {w} : worker'[v] = worker[v]
  BY <1>t DEF SkipDuplicate, RecordEvent, LoadAccount, Deliver, Acknowledge
<1>5. /\ \A v \in Workers \ {w} : worker'[w].pc # "idle" => worker[v].pc = "idle"
      /\ worker'[w].pc # "idle" => \A d \in 1 .. worker'[w].event - 1 : d \in acked
      /\ worker'[w].pc = "loaded" => worker'[w].row = account
  <2>1. CASE SkipDuplicate(w)
    BY <1>t, <2>1 DEF SkipDuplicate, Acknowledge, IdleWorker
  <2>2. CASE RecordEvent(w) \/ LoadAccount(w)
    <3>1. worker[w].pc # "idle" /\ worker'[w].event = worker[w].event
      BY <1>t, <2>2 DEF RecordEvent, LoadAccount, WorkerRecords
    <3>2. worker'[w].pc = "loaded" => worker'[w].row = account
      BY <1>t, <2>2 DEF RecordEvent, LoadAccount, WorkerRecords
    <3> QED
      BY <1>t, <3>1, <3>2 DEF OneAtATime
  <2>3. ASSUME NEW e \in Events, Deliver(w, e)
        PROVE  /\ \A v \in Workers : worker[v].pc = "idle"
               /\ worker'[w].event = e /\ worker'[w].pc = "received"
               /\ \A d \in 1 .. e - 1 : d \in acked
    BY <1>t, <2>3 DEF Deliver, OrderlyInv, IdleWorker
  <2> QED
    BY <2>1, <2>2, <2>3
<1>6. OneAtATime'
  BY <1>t, <1>1, <1>2, <1>4, <1>5 DEF OneAtATime
<1> QED
  BY <1>3, <1>6

\* The answer that spends the claim on e makes e the last event answered.
LEMMA SpendingKeepsOrder ==
    ASSUME OneAtATime, AnswerInv, NEW w \in Workers, Holds(w),
           NEW e \in Events, e = worker[w].event,
           worker' = [worker EXCEPT ![w] = IdleWorker],
           acked' = acked \cup {e},
           applied' = [applied EXCEPT ![e] = @ + 1],
           failures' = failures
    PROVE  OneAtATime'
<1>1. /\ \A v \in Workers \ {w} : worker[v].pc = "idle"
      /\ \A d \in 1 .. e - 1 : d \in acked
  BY InHand DEF Holds
<1>2. \A v \in Workers : worker'[v].pc = "idle"
  BY <1>1 DEF AnswerInv, ClaimInv, TypeOK, IdleWorker
<1>3. applied[e] = 0 /\ \A d \in Events : applied'[d] = IF d = e THEN 1 ELSE applied[d]
  <2>1. applied[e] = 0
    BY HeldIsClaimed DEF AnswerInv
  <2> QED
    BY <2>1 DEF AnswerInv, ClaimInv, TypeOK
<1>4. \A d \in acked' : \A c \in 1 .. d - 1 : c \in acked'
  BY <1>1 DEF OneAtATime
<1> QED
  BY <1>2, <1>3, <1>4 DEF OneAtATime

\* The answers to the events themselves.
LEMMA AnswersKeepOrder ==
    ASSUME OrderlyInv, orderly, NEW w \in Workers,
           LogPaymentFailed(w) \/ CommitHandler(w)
    PROVE  OneAtATime' /\ AccountFollows'
<1>t. /\ OneAtATime /\ AccountFollows /\ AnswerInv /\ ClaimInv /\ CheckoutInv /\ TypeOK
      /\ worker[w] \in WorkerRecords /\ account \in Rows /\ Holds(w)
  BY DEF OrderlyInv, AnswerInv, ClaimInv, TypeOK, LogPaymentFailed, CommitHandler, Holds
<1>0. PICK e \in Events : e = worker[w].event
  BY <1>t, HeldIsClaimed
<1>1. /\ worker' = [worker EXCEPT ![w] = IdleWorker]
      /\ acked' = acked \cup {e} /\ emitted' = emitted
      /\ applied' = [applied EXCEPT ![e] = @ + 1]
      /\ failures' = failures
  BY <1>0 DEF LogPaymentFailed, CommitHandler, Acknowledge
<1>2. OneAtATime'
  BY <1>t, <1>0, <1>1, SpendingKeepsOrder
<1>3. Changes' = Changes
  BY <1>1 DEF Changes
<1>4. CASE LogPaymentFailed(w)
  <2>1. account' = account /\ e \notin Changes
    BY <1>0, <1>4 DEF LogPaymentFailed, Changes
  <2>2. acked' \cap Changes' = acked \cap Changes
    BY <1>1, <1>3, <2>1
  <2>3. AccountFollows'
    BY <1>t, <1>1, <2>1, <2>2 DEF AccountFollows, Shows, LastOf
  <2> QED
    BY <1>2, <2>3
<1>5. CASE CommitHandler(w)
  <2>1. /\ worker[w].pc = "loaded" /\ worker[w].row = account
        /\ account.customer = Customer
    <3>1. emitted # <<>>
      BY <1>5, <1>t, BusyMeansEmitted DEF CommitHandler
    <3> QED
      BY <1>5, <1>t, <3>1 DEF CommitHandler, OneAtATime, CheckoutInv, CustomerKnown
  <2>2. /\ e \in 1 .. Len(emitted) /\ emitted[e] \in EventRecords
    BY <1>0, <1>5, <1>t, EventInHand DEF CommitHandler
  <2>3. account' = Handle(account, emitted[e])
    BY <1>0, <1>5, <1>t, <2>1, <2>2, HandleType, MergeCurrent DEF CommitHandler
  <2>4. Shows(emitted[e])'
    BY <1>1, <1>t, <2>1, <2>2, <2>3, HandleShows DEF Shows
  <2>5. \A d \in acked : d < e
    BY <1>0, <1>t, InHand DEF Holds
  <2>6. ASSUME e \in Changes PROVE AccountFollows'
    <3>1. e \in acked' \cap Changes'
      BY <1>1, <1>3, <2>6
    <3>2. ASSUME NEW d \in acked' \cap Changes', LastOf(acked' \cap Changes', d)
          PROVE  d = e
      <4>1. e <= d
        BY <3>1, <3>2 DEF LastOf
      <4>2. d = e \/ d < e
        BY <1>1, <2>5
      <4>3. d \in Nat /\ e \in Nat
        <5>1. acked \subseteq Events
          BY <1>t DEF AnswerInv, AnsweredIsClaimed
        <5> QED
          BY <1>1, <5>1 DEF Events
      <4> QED
        BY <4>1, <4>2, <4>3
    <3> QED
      BY <2>4, <3>1, <3>2 DEF AccountFollows, LastOf
  <2>7. ASSUME e \notin Changes PROVE AccountFollows'
    <3>1. emitted[e].type = "payment_failed"
      BY <2>2, <2>7 DEF Changes
    <3>2. account' = account
      BY <2>3, <3>1 DEF Handle
    <3>3. acked' \cap Changes' = acked \cap Changes
      BY <1>1, <1>3, <2>7
    <3> QED
      BY <1>t, <1>1, <3>2, <3>3 DEF AccountFollows, Shows, LastOf
  <2> QED
    BY <1>2, <2>6, <2>7
<1> QED
  BY <1>4, <1>5

-----------------------------------------------------------------------------
(* The account stays in step with Stripe *)

\* With one checkout and one live subscription, every step keeps OrderlyInv.
LEMMA NextOrderlyInv ==
    ASSUME OneCheckout, MaxLiveSubs <= 1, OrderlyInv, [Next]_vars
    PROVE  OrderlyInv'
<1>1. CheckoutInv' /\ AnswerInv' /\ TypeOK /\ TypeOK'
  BY NextCheckoutInv, NextAnswerInv DEF OrderlyInv, CheckoutInv, ClaimInv
<1>2. orderly' = orderly
  BY DEF Next, CheckoutStep, BeginCheckout, CreateCustomer, LoadForUpdate, SaveUser,
         CreateSession, StripeStep, CompleteCheckout, ChangeSubscription, PaymentFails,
         CancelSubscription, Expire, Emit, Deliver, WorkerStep, SkipDuplicate, RecordEvent,
         LogPaymentFailed, LoadAccount, CommitHandler, FailDelivery, CleanupStripeEvents,
         vars, stripeVars
<1>3. StripeFollows'
  <2>1. CASE StripeStep
    BY <1>1, <2>1, StripeTellsWhatItHolds DEF OrderlyInv
  <2>2. CASE ~StripeStep
    <3>1. UNCHANGED <<subs, emitted>>
      BY <2>2
      DEF Next, CheckoutStep, BeginCheckout, CreateCustomer, LoadForUpdate, SaveUser,
          CreateSession, Deliver, WorkerStep, SkipDuplicate, RecordEvent,
          LogPaymentFailed, LoadAccount, CommitHandler, FailDelivery, CleanupStripeEvents,
          vars, stripeVars
    <3> QED
      BY <3>1 DEF OrderlyInv, StripeFollows, LiveSubs, Changes, LastOf
  <2> QED
    BY <2>1, <2>2
<1>4. ASSUME orderly PROVE OneAtATime' /\ AccountFollows'
  <2>1. CASE (\E r \in Requests : CheckoutStep(r)) \/ StripeStep
                \/ CleanupStripeEvents \/ UNCHANGED vars
    BY <1>1, <1>4, <2>1, OtherStepsKeepOrder
  <2>2. ASSUME NEW w \in Workers, WorkerStep(w) \/ \E e \in Events : Deliver(w, e)
        PROVE  OneAtATime' /\ AccountFollows'
    BY <1>1, <1>4, <2>2, QuietStepsKeepOrder, AnswersKeepOrder DEF WorkerStep
  <2>3. ASSUME NEW w \in Workers PROVE ~FailDelivery(w)
    BY <1>4 DEF FailDelivery
  <2> QED
    BY <2>1, <2>2, <2>3 DEF Next
<1> QED
  BY <1>1, <1>2, <1>3, <1>4 DEF OrderlyInv

\* At the start Stripe holds nothing and the account shows nothing.
LEMMA InitOrderlyInv == Init => OrderlyInv
<1> SUFFICES ASSUME Init PROVE OrderlyInv
  OBVIOUS
<1>1. Changes = {} /\ LiveSubs = {}
  BY DEF Init, Changes, LiveSubs
<1>2. StripeFollows
  BY <1>1 DEF StripeFollows
<1>3. OneAtATime /\ AccountFollows
  BY DEF Init, OneAtATime, AccountFollows, BlankRow, IdleWorker
<1> QED
  BY <1>2, <1>3, InitCheckoutInv, InitAnswerInv DEF OrderlyInv

\* When everything is answered, the last change answered is the last one emitted.
LEMMA FollowsMeansInSync ==
    ASSUME OrderlyInv, orderly PROVE PlanInSync
<1> SUFFICES ASSUME acked = 1 .. Len(emitted)
             PROVE  /\ IF EntitledPlans = {} THEN account.plan = "free"
                       ELSE account.plan \in EntitledPlans
                    /\ IF LiveSubs = {} THEN account.sub = NoSub ELSE account.sub \in LiveSubs
  BY DEF PlanInSync, Quiescent
<1>1. acked \cap Changes = Changes
  BY DEF Changes
<1>2. AccountFollows /\ StripeFollows /\ subs \in [Subs -> [status : Statuses, price : Prices]]
  BY DEF OrderlyInv, CheckoutInv, ClaimInv, TypeOK
<1>3. ASSUME LiveSubs = {} PROVE EntitledPlans = {}
  BY <1>3 DEF LiveSubs, EntitledPlans
<1>4. CASE Changes = {} /\ LiveSubs = {}
  BY <1>1, <1>2, <1>3, <1>4 DEF AccountFollows
<1>5. ASSUME NEW e \in Changes, LastOf(Changes, e)
      PROVE  Shows(emitted[e])
  BY <1>1, <1>2, <1>5 DEF AccountFollows
<1>6. ASSUME NEW e \in Changes, LastOf(Changes, e),
             emitted[e].type = "deleted", LiveSubs = {}
      PROVE  account.plan = "free" /\ account.sub = NoSub
  BY <1>5, <1>6 DEF Shows
<1>7. ASSUME NEW e \in Changes, LastOf(Changes, e), emitted[e].type = "updated",
             LiveSubs = {emitted[e].sub},
             subs[emitted[e].sub] = [status |-> emitted[e].status, price |-> emitted[e].price]
      PROVE  /\ account.sub \in LiveSubs
             /\ IF EntitledPlans = {} THEN account.plan = "free"
                ELSE account.plan \in EntitledPlans
  <2> DEFINE s == emitted[e].sub
  <2>1. /\ account.sub = s
        /\ account.plan = IF emitted[e].status \in {"active", "trialing"}
                          THEN PlanOf(emitted[e].price) ELSE "free"
    BY <1>5, <1>7 DEF Shows
  <2>2. s \in Subs /\ LiveSubs = {s}
        /\ subs[s].status = emitted[e].status /\ subs[s].price = emitted[e].price
    BY <1>7 DEF LiveSubs
  <2> HIDE DEF s
  <2>3. \A t \in Subs : subs[t].status \in {"active", "trialing"} => t = s
    BY <2>2 DEF LiveSubs
  <2>4. CASE subs[s].status \in {"active", "trialing"}
    <3>1. PlanOf(subs[s].price) \in EntitledPlans
      BY <2>2, <2>4 DEF EntitledPlans
    <3> QED
      BY <2>1, <2>2, <2>4, <3>1
  <2>5. CASE subs[s].status \notin {"active", "trialing"}
    <3>1. EntitledPlans = {}
      BY <2>3, <2>5 DEF EntitledPlans
    <3> QED
      BY <2>1, <2>2, <2>5, <3>1
  <2> QED
    BY <2>4, <2>5
<1> QED
  BY <1>2, <1>3, <1>4, <1>6, <1>7 DEF StripeFollows

\* Deliveries that come one at a time, in order, and do not die keep the account
\* in step with Stripe, for a user with one checkout open and one subscription alive.
THEOREM AccountStaysInSync ==
    ASSUME OneCheckout, MaxLiveSubs <= 1 PROVE Spec => []PlanInSyncWhenOrderly
<1>1. OrderlyInv /\ [Next]_vars => OrderlyInv'
  BY NextOrderlyInv
<1>2. OrderlyInv => PlanInSyncWhenOrderly
  BY FollowsMeansInSync DEF PlanInSyncWhenOrderly
<1> QED
  BY <1>1, <1>2, InitOrderlyInv, PTL DEF Spec
=============================================================================
