SPECIFICATION Spec
CONSTANTS
    Replicas = {p1, p2}
    MaxOutages = 1
    MaxEvictions = 1
    Accounts = {a1}
    TokenCalls = {c1, c2}
    MaxSessions = 2
    Limit <- LimitDef
    Window = 2
    LimitedCalls = {c1, c2}
    MaxTime = 3
    MaxLimited = 3
    ListCalls = {c1, c2}
    MaxChanges = 3
    Texts = {t1}
    ChatCalls = {c1, c2}
    PlanLimit = 1
    MaxIterations = 2
    MaxChats = 3
SYMMETRY Symmetry
CONSTRAINTS
    TokensExplored
    LimiterExplored
CHECK_DEADLOCK FALSE
INVARIANTS
    TypeOK
    WindowLimit
    ListingsAreCurrent
    QuotaHolds
    HistoryIsKept
PROPERTIES
    RevokedIsRefused
