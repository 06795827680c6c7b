SPECIFICATION FairSpec
CONSTANTS
    Subs = {s1}
    NoSub = NoSub
    Customer = cus
    NoCustomer = NoCustomer
    Workers = {w1, w2}
    Requests = {r1}
    Tiers = {"pro"}
    Prices = {"pro", "other"}
    MaxEvents = 3
    MaxOverlapping = 3
    MaxLiveSubs = 1
    MaxFailures = 1
PROPERTY EveryEventApplied
CHECK_DEADLOCK FALSE
