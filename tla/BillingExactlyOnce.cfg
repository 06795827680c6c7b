SPECIFICATION Spec
CONSTANTS
    Subs = {s1}
    NoSub = NoSub
    Customer = cus
    NoCustomer = NoCustomer
    Workers = {w1, w2}
    Requests = {r1}
    Tiers = {"pro", "enterprise"}
    Prices = {"pro", "other"}
    MaxEvents = 3
    MaxOverlapping = 3
    MaxLiveSubs = 1
    MaxFailures = 1
INVARIANT AckedMeansApplied
CHECK_DEADLOCK FALSE
