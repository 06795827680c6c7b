SPECIFICATION Spec
CONSTANTS
    Requests = {r1}
    Suggestions = {s1}
    Keys <- KeysDef
    Digits <- DigitsDef
    Utc <- UtcDef
    NoKey = NoKey
    MaxEvents = 2
    MaxFailures = 0
INVARIANT
    DeletedIsGone
