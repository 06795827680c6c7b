--------------------------- MODULE MCCalendarEvents ---------------------------
(* CalendarEvents for TLC: slots and suggestions are interchangeable.          *)
(* One deletion; requests that overlap or fail, and the last event, only with  *)
(* one time, on SQLite.                                                        *)
EXTENDS CalendarEvents, TLC

KeysDef == {"04:30Z", "10:00Z", "10:00+05:30"}
DigitsDef == [k \in Keys |-> IF k = "10:00+05:30" THEN "10:00Z" ELSE k]
UtcDef == [k \in Keys |-> IF k = "10:00+05:30" THEN "04:30Z" ELSE k]

Symmetry == Permutations(Requests) \cup Permutations(Suggestions)

OneTime ==
    /\ database = "sqlite"
    /\ \A r \in Requests : request[r].key \in {NoKey, "04:30Z"}
    /\ \A n \in DOMAIN events : events[n].key = "04:30Z"
    /\ \A s \in Suggestions : suggestions[s].key = "04:30Z"

Explored ==
    /\ Cardinality(asked) <= 1
    /\ (OneTime \/ Undisturbed)
    /\ (Len(events) < MaxEvents \/ (OneTime /\ Undisturbed))
==============================================================================
