SPECIFICATION Spec
CONSTANTS
    Requests = {r1, r2}
    Suggestions = {s1}
    Keys <- KeysDef
    Digits <- DigitsDef
    Utc <- UtcDef
    NoKey = NoKey
    MaxEvents = 3
    MaxFailures = 1
SYMMETRY Symmetry
CONSTRAINT Explored
INVARIANTS
    TypeOK
    OneEventPerSuggestion
    SuggestionNamesEvent
    CreatedOncePerTime
    SyncedOnce
    RowsNameDifferentEvents
