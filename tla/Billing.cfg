SPECIFICATION Spec
CONSTANTS
    Subs = {s1, s2}
    NoSub = NoSub
    Customer = cus
    NoCustomer = NoCustomer
    Workers = {w1, w2}
    Requests = {r1}
    Tiers = {"pro", "enterprise"}
    Prices = {"pro", "other"}
    MaxEvents = 5
    MaxOverlapping = 3
    MaxLiveSubs = 1
    MaxFailures = 1
INVARIANTS
    TypeOK
    ClaimInv
    AppliedAtMostOnce
    AckedMeansAppliedUnlessFailed
    PlanInSyncWhenOrderly
PROPERTIES
    PlanChangesOnlyByEvent
    ImplementsLedger
CHECK_DEADLOCK FALSE
