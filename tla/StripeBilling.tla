--------------------------- MODULE StripeBilling ---------------------------
(***************************************************************************)
(* The billing of one account: the checkout endpoint, the Stripe webhook   *)
(* endpoint with its table of processed events, and the nightly job that   *)
(* prunes the table.  Stripe itself (subscriptions, sessions, at-least-    *)
(* once delivery) is the environment.                                      *)
(*                                                                         *)
(* Every await at which another coroutine or replica can run separates two *)
(* actions.  A database session writes only the columns it changed since   *)
(* it loaded the row, which is what Merge says.                            *)
(***************************************************************************)
EXTENDS Integers, Sequences, FiniteSets

CONSTANTS
    Subs,          \* Stripe subscription ids
    NoSub,         \* a NULL stripe_subscription_id
    Customer,      \* the Stripe customer of the account
    NoCustomer,    \* a NULL stripe_customer_id
    Workers,       \* webhook requests the server can have in hand at once
    Requests,      \* checkout requests the user can have open at once
    Tiers,         \* paid tiers a user asks for
    Prices,        \* prices a subscription can have; "other" is not configured
    MaxEvents,     \* bound: events Stripe emits
    MaxOverlapping,\* bound: events it emits when deliveries may overlap
    MaxLiveSubs,   \* subscriptions the customer keeps alive at once
    MaxFailures    \* bound: webhook deliveries that die half way

ASSUME BoundsAssumption ==
    /\ MaxEvents \in Nat
    /\ MaxOverlapping \in Nat
    /\ MaxLiveSubs \in Nat
    /\ MaxFailures \in Nat

ASSUME TiersAssumption ==
    /\ Tiers \subseteq {"pro", "business", "enterprise"}
    /\ Prices \subseteq {"pro", "business", "other"}
    /\ "other" \in Prices
    /\ Tiers \cap {"pro", "business"} \subseteq Prices

ASSUME NamesAssumption == NoSub \notin Subs /\ Customer # NoCustomer

VARIABLES
    account,       \* the row of users: plan, sub, customer
    processed,     \* stripe_processed_events: ids of the rows
    worker,        \* webhook requests in hand
    checkout,      \* checkout requests in hand
    failures,      \* deliveries that have died so far
    orderly,       \* fixed: deliveries come one at a time, in order, and none dies
    subs,          \* Stripe: status and price of every subscription
    sessions,      \* Stripe: tiers with an open checkout session
    emitted,       \* Stripe: the events, in the order they were created
    live,          \* Stripe: events it may still deliver
    acked,         \* Stripe: events answered with a 2xx
    claims,        \* history: rows inserted per event
    applied        \* history: handlers completed per event

appVars == <<account, processed, worker, checkout, failures>>
stripeVars == <<orderly, subs, sessions, emitted, live, acked>>
historyVars == <<claims, applied>>
vars == <<appVars, stripeVars, historyVars>>

-----------------------------------------------------------------------------
(* Data *)

Events == 1 .. MaxEvents
Plans == {"free", "pro", "business"}
Statuses == {"active", "trialing", "past_due", "canceled"}

Rows == [plan : Plans, sub : Subs \cup {NoSub}, customer : {Customer, NoCustomer}]

EventRecords ==
    [type : {"completed", "updated", "deleted", "payment_failed"},
     sub : Subs, price : Prices, status : Statuses]

WorkerRecords ==
    [pc : {"idle", "received", "recorded", "loaded"}, event : Events \cup {0}, row : Rows]

CheckoutRecords ==
    [pc : {"idle", "customer", "load", "save", "session"},
     user : Rows, row : Rows, tier : Tiers \cup {"none"}]

\* No row, no request: what an idle worker or checkout holds.
BlankRow == [plan |-> "free", sub |-> NoSub, customer |-> NoCustomer]
IdleWorker == [pc |-> "idle", event |-> 0, row |-> BlankRow]
IdleCheckout == [pc |-> "idle", user |-> BlankRow, row |-> BlankRow, tier |-> "none"]

\* Faulty variant: the price is stored as it comes.
PlanOfAsIs(price) == price

\* plan_map.get(price_id, "free"): only two prices are configured.
PlanOf(price) == IF price \in {"pro", "business"} THEN price ELSE "free"

\* StripeBillingService is given prices for these tiers only.
PricedTiers == Tiers \cap {"pro", "business"}

\* UPDATE users SET (the columns that differ from the loaded row).
Merge(current, loaded, new) ==
    [c \in {"plan", "sub", "customer"} |->
        IF new[c] # loaded[c] THEN new[c] ELSE current[c]]

-----------------------------------------------------------------------------
(* The webhook handlers, as functions of the loaded row and the event *)

HandleCheckoutCompleted(row, ev) == [row EXCEPT !.sub = ev.sub]

\* Faulty variant: the status of the subscription is not looked at.
HandleSubscriptionUpdatedAnyStatus(row, ev) ==
    [row EXCEPT !.sub = ev.sub, !.plan = PlanOf(ev.price)]

HandleSubscriptionUpdated(row, ev) ==
    [row EXCEPT !.sub = ev.sub,
                !.plan = IF ev.status \in {"active", "trialing"}
                         THEN PlanOf(ev.price) ELSE "free"]

HandleSubscriptionDeleted(row, ev) == [row EXCEPT !.plan = "free", !.sub = NoSub]

\* The dispatch on event_type; a customer without an account changes nothing.
Handle(row, ev) ==
    IF row.customer # Customer THEN row
    ELSE CASE ev.type = "completed" -> HandleCheckoutCompleted(row, ev)
           [] ev.type = "updated" -> HandleSubscriptionUpdated(row, ev)
           [] ev.type = "deleted" -> HandleSubscriptionDeleted(row, ev)
           [] OTHER -> row

-----------------------------------------------------------------------------
Init ==
    /\ account = BlankRow
    /\ processed = {}
    /\ worker = [w \in Workers |-> IdleWorker]
    /\ checkout = [r \in Requests |-> IdleCheckout]
    /\ failures = 0
    /\ orderly \in BOOLEAN
    /\ subs = [s \in Subs |-> [status |-> "canceled", price |-> "other"]]
    /\ sessions = {}
    /\ emitted = <<>>
    /\ live = {}
    /\ acked = {}
    /\ claims = [e \in Events |-> 0]
    /\ applied = [e \in Events |-> 0]

-----------------------------------------------------------------------------
(* The checkout endpoint *)

\* Faulty variant: no test whether the customer id is already known.
BeginCheckoutAlwaysSaves(r, tier) ==
    /\ checkout[r].pc = "idle"
    /\ checkout' = [checkout EXCEPT ![r] =
         [pc |-> "customer", user |-> account, row |-> BlankRow, tier |-> tier]]
    /\ UNCHANGED <<account, processed, worker, failures, stripeVars, historyVars>>

\* get_current_user has loaded the row: everything later uses this copy.
BeginCheckout(r, tier) ==
    /\ checkout[r].pc = "idle"
    /\ checkout' = [checkout EXCEPT ![r] =
         IF account.customer = NoCustomer
         THEN [pc |-> "customer", user |-> account, row |-> BlankRow, tier |-> tier]
         ELSE [pc |-> "session", user |-> BlankRow, row |-> BlankRow, tier |-> tier]]
    /\ UNCHANGED <<account, processed, worker, failures, stripeVars, historyVars>>

\* Stripe returns the one customer of this idempotency key, or fails (502).
CreateCustomer(r) ==
    /\ checkout[r].pc = "customer"
    /\ \/ checkout' = [checkout EXCEPT ![r].pc = "load",
                                       ![r].user.customer = Customer]
       \/ checkout' = [checkout EXCEPT ![r] = IdleCheckout]
    /\ UNCHANGED <<account, processed, worker, failures, stripeVars, historyVars>>

\* UserRepository.update selects the row in a session of its own ...
LoadForUpdate(r) ==
    /\ checkout[r].pc = "load"
    /\ checkout' = [checkout EXCEPT ![r].pc = "save", ![r].row = account]
    /\ UNCHANGED <<account, processed, worker, failures, stripeVars, historyVars>>

\* ... and assigns every column from the request's copy before it commits.
SaveUser(r) ==
    /\ checkout[r].pc = "save"
    /\ account' = Merge(account, checkout[r].row, checkout[r].user)
    /\ checkout' = [checkout EXCEPT ![r] =
         [IdleCheckout EXCEPT !.pc = "session", !.tier = checkout[r].tier]]
    /\ UNCHANGED <<processed, worker, failures, stripeVars, historyVars>>

\* An unpriced tier raises ValueError before Stripe is asked.
CreateSession(r) ==
    /\ checkout[r].pc = "session"
    /\ \/ checkout[r].tier \in PricedTiers /\ sessions' = sessions \cup {checkout[r].tier}
       \/ UNCHANGED sessions
    /\ checkout' = [checkout EXCEPT ![r] = IdleCheckout]
    /\ UNCHANGED <<account, processed, worker, failures,
                   orderly, subs, emitted, live, acked, historyVars>>

-----------------------------------------------------------------------------
(* Stripe: changes of a subscription, each with the events it emits *)

Emit(evs) ==
    /\ Len(emitted) + Len(evs) <= MaxEvents
    /\ orderly \/ Len(emitted) + Len(evs) <= MaxOverlapping
    /\ emitted' = emitted \o evs
    /\ live' = live \cup (Len(emitted) + 1 .. Len(emitted) + Len(evs))
    /\ UNCHANGED <<orderly, acked, appVars, historyVars>>

Event(type, s, sub) == [type |-> type, sub |-> s, price |-> sub.price, status |-> sub.status]

LiveSubs == {s \in Subs : subs[s].status # "canceled"}

\* A subscription id is used once: its first event is its creation.
Unused(s) == \A e \in 1 .. Len(emitted) : emitted[e].sub # s

CompleteCheckout(s, tier) ==
    /\ tier \in sessions
    /\ Unused(s)
    /\ Cardinality(LiveSubs) < MaxLiveSubs
    /\ sessions' = sessions \ {tier}
    /\ subs' = [subs EXCEPT ![s] = [status |-> "active", price |-> tier]]
    /\ Emit(<<Event("completed", s, subs'[s]), Event("updated", s, subs'[s])>>)

ChangeSubscription(s, price, status) ==
    /\ s \in LiveSubs
    /\ subs[s] # [status |-> status, price |-> price]
    /\ subs' = [subs EXCEPT ![s] = [status |-> status, price |-> price]]
    /\ UNCHANGED sessions
    /\ Emit(<<Event("updated", s, subs'[s])>>)

\* The status changes, if it does, with an event of its own.
PaymentFails(s) ==
    /\ s \in LiveSubs
    /\ UNCHANGED <<subs, sessions>>
    /\ Emit(<<Event("payment_failed", s, subs[s])>>)

CancelSubscription(s) ==
    /\ s \in LiveSubs
    /\ subs' = [subs EXCEPT ![s].status = "canceled"]
    /\ UNCHANGED sessions
    /\ Emit(<<Event("deleted", s, subs'[s])>>)

\* 30 days have passed since the event, the oldest left: it was answered long
\* ago, Stripe will not send it again, and no request that holds it lasts so long.
Expire(e) ==
    /\ e \in live \cap acked
    /\ \A d \in live : e <= d
    /\ \A w \in Workers : worker[w].event # e
    /\ live' = live \ {e}
    /\ UNCHANGED <<appVars, orderly, subs, sessions, emitted, acked, historyVars>>

-----------------------------------------------------------------------------
(* The webhook endpoint *)

\* At-least-once: an event may be delivered again, also when acknowledged.
Deliver(w, e) ==
    /\ worker[w].pc = "idle"
    /\ e \in live
    /\ orderly => /\ \A d \in 1 .. e - 1 : d \in acked
                  /\ \A v \in Workers : worker[v].pc = "idle"
    /\ worker' = [worker EXCEPT ![w] = [IdleWorker EXCEPT !.pc = "received", !.event = e]]
    /\ UNCHANGED <<account, processed, checkout, failures, stripeVars, historyVars>>

Acknowledge(w) ==
    /\ worker' = [worker EXCEPT ![w] = IdleWorker]
    /\ acked' = acked \cup {worker[w].event}

\* IntegrityError: the row exists, answer 200 at once.
SkipDuplicate(w) ==
    /\ worker[w].pc = "received"
    /\ worker[w].event \in processed
    /\ Acknowledge(w)
    /\ UNCHANGED <<account, processed, checkout, failures,
                   orderly, subs, sessions, emitted, live, historyVars>>

\* Faulty variant: event_id is not a primary key.
RecordEventNotUnique(w) ==
    /\ worker[w].pc = "received"
    /\ processed' = processed \cup {worker[w].event}
    /\ claims' = [claims EXCEPT ![worker[w].event] = @ + 1]
    /\ worker' = [worker EXCEPT ![w].pc = "recorded"]
    /\ UNCHANGED <<account, checkout, failures, stripeVars, applied>>

\* The row is committed before, and apart from, the handler's own work.
RecordEvent(w) ==
    /\ worker[w].pc = "received"
    /\ worker[w].event \notin processed
    /\ processed' = processed \cup {worker[w].event}
    /\ claims' = [claims EXCEPT ![worker[w].event] = @ + 1]
    /\ worker' = [worker EXCEPT ![w].pc = "recorded"]
    /\ UNCHANGED <<account, checkout, failures, stripeVars, applied>>

\* invoice.payment_failed is only logged.
LogPaymentFailed(w) ==
    /\ worker[w].pc = "recorded"
    /\ emitted[worker[w].event].type = "payment_failed"
    /\ applied' = [applied EXCEPT ![worker[w].event] = @ + 1]
    /\ Acknowledge(w)
    /\ UNCHANGED <<account, processed, checkout, failures,
                   orderly, subs, sessions, emitted, live, claims>>

\* Faulty variant: the branch for deleted subscriptions is missing.
LoadAccountNotDeleted(w) ==
    /\ worker[w].pc = "recorded"
    /\ emitted[worker[w].event].type # "payment_failed"
    /\ IF emitted[worker[w].event].type = "deleted"
       THEN Acknowledge(w)
       ELSE /\ worker' = [worker EXCEPT ![w].pc = "loaded", ![w].row = account]
            /\ UNCHANGED acked
    /\ UNCHANGED <<account, processed, checkout, failures,
                   orderly, subs, sessions, emitted, live, historyVars>>

LoadAccount(w) ==
    /\ worker[w].pc = "recorded"
    /\ emitted[worker[w].event].type # "payment_failed"
    /\ worker' = [worker EXCEPT ![w].pc = "loaded", ![w].row = account]
    /\ UNCHANGED <<account, processed, checkout, failures, stripeVars, historyVars>>

CommitHandler(w) ==
    /\ worker[w].pc = "loaded"
    /\ account' = Merge(account, worker[w].row,
                        Handle(worker[w].row, emitted[worker[w].event]))
    /\ applied' = [applied EXCEPT ![worker[w].event] = @ + 1]
    /\ Acknowledge(w)
    /\ UNCHANGED <<processed, checkout, failures,
                   orderly, subs, sessions, emitted, live, claims>>

\* A crash, a database error or a timeout: Stripe sees no 2xx.
FailDelivery(w) ==
    /\ worker[w].pc # "idle"
    /\ ~orderly /\ failures < MaxFailures
    /\ failures' = failures + 1
    /\ worker' = [worker EXCEPT ![w] = IdleWorker]
    /\ UNCHANGED <<account, processed, checkout, stripeVars, historyVars>>

\* Faulty variant: the DELETE has no cutoff.
CleanupEveryEvent ==
    /\ processed # {}
    /\ processed' = {}
    /\ UNCHANGED <<account, worker, checkout, failures, stripeVars, historyVars>>

\* cleanup_stale_records_job: one DELETE of every row older than 30 days.
CleanupStripeEvents ==
    /\ processed \ live # {}
    /\ processed' = processed \cap live
    /\ UNCHANGED <<account, worker, checkout, failures, stripeVars, historyVars>>

-----------------------------------------------------------------------------
CheckoutStep(r) ==
    \/ \E tier \in Tiers : BeginCheckout(r, tier)
    \/ CreateCustomer(r)
    \/ LoadForUpdate(r)
    \/ SaveUser(r)
    \/ CreateSession(r)

StripeStep ==
    \/ \E s \in Subs, tier \in PricedTiers : CompleteCheckout(s, tier)
    \/ \E s \in Subs, price \in Prices, status \in Statuses \ {"canceled"} :
          ChangeSubscription(s, price, status)
    \/ \E s \in Subs : PaymentFails(s) \/ CancelSubscription(s)
    \/ \E e \in Events : Expire(e)

\* The steps a delivery in hand takes by itself.
WorkerStep(w) ==
    \/ SkipDuplicate(w)
    \/ RecordEvent(w)
    \/ LogPaymentFailed(w)
    \/ LoadAccount(w)
    \/ CommitHandler(w)

Next ==
    \/ \E r \in Requests : CheckoutStep(r)
    \/ StripeStep
    \/ \E w \in Workers, e \in Events : Deliver(w, e)
    \/ \E w \in Workers : WorkerStep(w) \/ FailDelivery(w)
    \/ CleanupStripeEvents

Spec == Init /\ [][Next]_vars

\* A request in hand runs on; Stripe retries an event until it gets a 2xx,
\* also when repeats of other events keep the endpoint busy in between.
Fairness ==
    /\ \A w \in Workers : WF_vars(WorkerStep(w))
    /\ \A e \in Events : SF_vars(e \notin acked /\ \E w \in Workers : Deliver(w, e))

FairSpec == Spec /\ Fairness

-----------------------------------------------------------------------------
(* Properties *)

\* Every variable stays in its type; in particular users.plan is a known plan.
TypeOK ==
    /\ account \in Rows
    /\ processed \subseteq Events
    /\ worker \in [Workers -> WorkerRecords]
    /\ checkout \in [Requests -> CheckoutRecords]
    /\ failures \in 0 .. MaxFailures
    /\ orderly \in BOOLEAN
    /\ subs \in [Subs -> [status : Statuses, price : Prices]]
    /\ sessions \subseteq PricedTiers
    /\ emitted \in Seq(EventRecords) /\ Len(emitted) <= MaxEvents
    /\ live \subseteq 1 .. Len(emitted)
    /\ acked \subseteq 1 .. Len(emitted)
    /\ claims \in [Events -> Nat]
    /\ applied \in [Events -> Nat]

\* The deliveries that hold the claim on event e.
Holders(e) == {w \in Workers : worker[w].event = e /\ worker[w].pc \in {"recorded", "loaded"}}

\* However often an event is delivered, by however many workers at once, and
\* although its row is pruned in the end, its handler completes at most once.
AppliedAtMostOnce == \A e \in Events : applied[e] <= 1

\* An event answered with a 2xx has been applied, or one delivery is about to
\* apply it: no retry is answered "duplicate" for an event that is lost.
AckedMeansApplied ==
    \A e \in acked : applied[e] = 1 \/ Holders(e) # {}

\* As long as no delivery dies half way, nothing is answered and lost.
AckedMeansAppliedUnlessFailed == failures = 0 => AckedMeansApplied

Quiescent ==
    /\ acked = 1 .. Len(emitted)
    /\ \A w \in Workers : worker[w].pc = "idle"
    /\ \A r \in Requests : checkout[r].pc = "idle"

EntitledPlans == {PlanOf(subs[s].price) : s \in
                    {t \in Subs : subs[t].status \in {"active", "trialing"}}}

\* When everything has been answered, the account shows what Stripe shows:
\* the plan of the entitled subscription, and the id of the live one.
PlanInSync ==
    Quiescent =>
        /\ IF EntitledPlans = {} THEN account.plan = "free" ELSE account.plan \in EntitledPlans
        /\ IF LiveSubs = {} THEN account.sub = NoSub ELSE account.sub \in LiveSubs

\* Deliveries that come one at a time, in order, and do not die keep the
\* account in step with Stripe, whatever one open checkout saves meanwhile.
PlanInSyncWhenOrderly == orderly => PlanInSync

\* Nothing but the handler of a Stripe event changes the plan or the
\* subscription id: a checkout that saves the customer id leaves them alone.
\* True while the user has one checkout open; two break it (the second saves
\* the whole row it read before the first customer id was known).
PlanChangesOnlyByEvent ==
    [][account'.plan # account.plan \/ account'.sub # account.sub => applied' # applied]_vars

\* If no delivery dies, every event Stripe emits is applied in the end.
EveryEventApplied ==
    [](failures = 0) => \A e \in Events : (Len(emitted) >= e) ~> (applied[e] = 1)

\* A row outlives every delivery of its event, and each event is claimed once.
ClaimCounts ==
    \A e \in Events :
        /\ claims[e] <= 1
        /\ applied[e] <= claims[e]
        /\ e \in live /\ claims[e] = 1 => e \in processed
        /\ e > Len(emitted) => claims[e] = 0

Holds(w) == worker[w].pc \in {"recorded", "loaded"}

\* A delivery in hand is of a live event; past the insert its claim is unspent.
ClaimHeld ==
    \A w \in Workers :
        /\ worker[w].pc # "idle" => worker[w].event \in live
        /\ Holds(w) => claims[worker[w].event] = 1 /\ applied[worker[w].event] = 0

OneHolder ==
    \A v, w \in Workers :
        Holds(v) /\ Holds(w) /\ worker[v].event = worker[w].event => v = w

\* Why AppliedAtMostOnce holds: a claim is taken once, by one worker, which
\* spends it when it commits.
ClaimInv == TypeOK /\ ClaimCounts /\ ClaimHeld /\ OneHolder

\* The endpoint implements the ledger: a claim is never taken twice, an applied
\* or lost event stays so.
LedgerOf(e) ==
    IF claims[e] = 0 THEN "new"
    ELSE IF applied[e] > 0 THEN "applied"
    ELSE IF Holders(e) # {} THEN "claimed" ELSE "lost"

ledgerBar == [e \in Events |-> LedgerOf(e)]

Ledger == INSTANCE WebhookLedger WITH ledger <- ledgerBar

ImplementsLedger == Ledger!LedgerSpec

=============================================================================
