---------------------------- MODULE CalendarEvents ----------------------------
(***************************************************************************)
(* The calendar of one user, kept twice: at Google and in calendar_events  *)
(* (infrastructure/calendar_providers), and, of the rows this process has  *)
(* written, a third time in the dictionary _events.  Requests create and   *)
(* delete events, approve and reject suggestions, and push events that are *)
(* only local to Google.  Each call to Google and each database session of *)
(* a request is a step; nothing is locked from one to the next.            *)
(*                                                                         *)
(* An event has a number n.  It stands for the UUID of its row and for its *)
(* provider id, which is "mem-..." when Google has not taken the event.    *)
(* Title and start time, with its zone, are one key; two keys name one     *)
(* time if they are the same once converted to UTC.  The database keeps    *)
(* one of two things of a zone: SQLite the digits before it, PostgreSQL    *)
(* the time in UTC.                                                        *)
(***************************************************************************)
EXTENDS Naturals, Sequences, FiniteSets, Database

CONSTANTS
    Requests,     \* slots for requests
    Suggestions,  \* the user's schedule_suggestions
    Keys,         \* titles with their start times, as they are written
    Digits,       \* of each key, the one without its zone, .replace(tzinfo=None)
    Utc,          \* of each key, the same time in UTC, .astimezone(utc)
    NoKey,        \* no key
    MaxEvents,    \* bound: events that are built
    MaxFailures   \* bound: calls and sessions that fail, and crashes

ASSUME BoundsAssumption == MaxEvents \in Nat /\ MaxFailures \in Nat

\* A time that is given in UTC, or without a zone, which counts as UTC.
Plain(k) == Digits[k] = k /\ Utc[k] = k

ASSUME ZonesAssumption ==
    /\ Digits \in [Keys -> Keys] /\ Utc \in [Keys -> Keys]
    /\ \A k \in Keys : Plain(Digits[k]) /\ Plain(Utc[k])

VARIABLES
    connected,    \* a connection with usable Google tokens is stored
    google,       \* the events in the user's Google calendar
    rows,         \* calendar_events: the provider id in each row
    memory,       \* _events: the provider id of each entry
    times,        \* _events: the key of each entry
    events,       \* what each event is: its key, who built it and of what
    suggestions,  \* schedule_suggestions
    request,      \* the requests in hand
    failures,     \* how many calls, sessions and requests have failed
    overlapped,   \* history: two requests, or one and Google, have overlapped
    torn,         \* history: a session failed, a request died, or the answer to
                  \* a call that took effect was lost
    relinked,     \* history: a sync has given a row another provider id
    asked,        \* history: the provider ids a delete was asked for
    deleted       \* history: those of which a delete said that they are gone

local == <<memory, times>>
stores  == <<google, rows, local>>
history == <<overlapped, torn, relinked, asked, deleted>>
faults == <<failures, torn>>
vars == <<database, connected, stores, events, suggestions, request, failures, history>>

Ids == 1..MaxEvents
NoId == <<"none", 0>>
MemId(n) == <<"mem", n>>
GoogleId(n) == <<"google", n>>
Uuid(n) == <<"uuid", n>>
ProviderIds == {MemId(n) : n \in Ids} \cup {GoogleId(n) : n \in Ids}
Stored(pid) == pid # NoId
IsMem(pid) == pid[1] = "mem"
IsGoogle(pid) == pid[1] = "google"

EventRecords ==
    [key : Keys, by : {"create", "approve", "sync", "google"},
     of : Ids \cup Suggestions \cup {0}]
SuggestionRecords ==
    [status : {"pending", "approved", "rejected"}, event : ProviderIds \cup {NoId},
     key : Keys \cup {NoKey}, timed : BOOLEAN]

NoSuggestion == [status |-> "pending", event |-> NoId, key |-> NoKey, timed |-> FALSE]

Idle ==
    [op |-> "none", pc |-> "idle", key |-> NoKey, of |-> 0, target |-> NoId,
     id |-> 0, pid |-> NoId, loaded |-> NoSuggestion, todo |-> {},
     retried |-> FALSE, gone |-> FALSE]

----------------------------------------------------------------------------
\* What a row gives back of a key; what it says of event n.
Kept(k) == IF database = "sqlite" THEN Digits[k] ELSE Utc[k]
RowKey(n) == Kept(events[n].key)

\* The provider ids that a copy has.
Names(copy) == {copy[n] : n \in {m \in Ids : Stored(copy[m])}}

\* list_events: Google's events, and the local ones that are none of them; the
\* dictionary stands in where there is no row.
Listed ==
    (IF Names(rows) # {} THEN Names(rows) ELSE Names(memory)) \cup
        {GoogleId(n) : n \in {m \in google : connected}}

\* _db_save: the row with this id, or the one row of the same provider event,
\* is updated; two of those raise, which is swallowed.
Saved(id, pid) ==
    IF ~Stored(rows[id]) /\ \E n \in Ids : rows[n] = pid
    THEN rows ELSE [rows EXCEPT ![id] = pid]

\* Where the caller of the adapter's create_event goes on.
Caller(op) ==
    CASE op = "create" -> "repo" [] op = "approve" -> "finish" [] op = "sync" -> "relink"

Busy == \E r \in Requests : request[r].pc # "idle"
MayFail == failures < MaxFailures /\ failures' = failures + 1

\* A call to Google that answers, or fails without effect.
Answer(answered) == (IF answered THEN UNCHANGED failures ELSE MayFail) /\ UNCHANGED torn

\* A session that commits or fails; other failures that leave things apart.
Tear == MayFail /\ torn' = TRUE
Commit(committed) == IF committed THEN UNCHANGED <<failures, torn>> ELSE Tear

Begin(r, new) ==
    /\ request[r].pc = "idle"
    /\ request' = [request EXCEPT ![r] = new]
    /\ overlapped' = (overlapped \/ Busy)
    /\ UNCHANGED <<database, connected, stores, suggestions, faults, relinked, deleted>>

Step(r, from, new) ==
    /\ request[r].pc = from
    /\ request' = [request EXCEPT ![r] = new]
    /\ UNCHANGED <<database, connected, overlapped, asked>>

\* A CalendarEvent is built: it gets the next number.
Build(key, by, of) ==
    /\ Len(events) < MaxEvents
    /\ events' = Append(events, [key |-> key, by |-> by, of |-> of])

----------------------------------------------------------------------------
Init ==
    /\ database \in Databases
    /\ connected \in BOOLEAN
    /\ google = {}
    /\ rows = [n \in Ids |-> NoId]
    /\ memory = [n \in Ids |-> NoId] /\ times = [n \in Ids |-> NoKey]
    /\ events = << >>
    /\ suggestions \in [Suggestions ->
           [status : {"pending"}, event : {NoId}, key : Keys, timed : BOOLEAN]]
    /\ \A s \in Suggestions : suggestions[s].timed => Plain(suggestions[s].key)
    /\ request = [r \in Requests |-> Idle]
    /\ failures = 0
    /\ overlapped = FALSE /\ torn = FALSE /\ relinked = FALSE
    /\ asked = {} /\ deleted = {}

\* CalendarService.create_event: what is in the way at Google, then locally.
BeginCreate(r, key) ==
    /\ Begin(r, [Idle EXCEPT !.op = "create", !.pc = "list", !.key = key])
    /\ UNCHANGED <<events, asked>>

\* A listing that fails at Google counts as empty.
ListGoogle(r) ==
    /\ \E answered \in BOOLEAN :
           /\ ~answered => connected
           /\ Answer(answered)
           /\ Step(r, "list",
                   IF /\ connected /\ answered
                      /\ \E n \in google : Utc[events[n].key] = Utc[request[r].key]
                   THEN Idle ELSE [request[r] EXCEPT !.pc = "listlocal"])
    /\ UNCHANGED <<stores, events, suggestions, relinked, deleted>>

\* Faulty variant: only Google is asked.
ClashesNone(k, committed) == {}

\* What is in the way locally.  The listing compares digits with digits, and with
\* what a row gives back; of what it finds the check compares the time in UTC.  A
\* session that fails, or finds no row, leaves the dictionary.
Clashes(k, committed) ==
    LET inRows == {n \in Ids : committed /\ Stored(rows[n]) /\ RowKey(n) = Digits[k]}
        entries == {n \in Ids : Stored(memory[n]) /\ Digits[times[n]] = Digits[k]}
    IN  IF inRows # {} THEN {n \in inRows : RowKey(n) = Utc[k]}
                       ELSE {n \in entries : Utc[times[n]] = Utc[k]}

ListLocal(r) ==
    /\ request[r].pc = "listlocal"
    /\ \E committed \in BOOLEAN :
           /\ Commit(committed)
           /\ \/ /\ Clashes(request[r].key, committed) # {}
                 /\ Step(r, "listlocal", Idle)
                 /\ UNCHANGED events
              \/ /\ Clashes(request[r].key, committed) = {}
                 /\ Step(r, "listlocal", [request[r] EXCEPT
                             !.pc = "tokens", !.id = Len(events) + 1])
                 /\ Build(request[r].key, "create", 0)
    /\ UNCHANGED <<stores, suggestions, relinked, deleted>>

----------------------------------------------------------------------------
\* The adapter's create_event, for whoever calls it.

\* _get_google_tokens, which may have to refresh them.
GetTokens(r) ==
    /\ \E answered \in BOOLEAN :
           /\ ~answered => connected
           /\ Answer(answered)
           /\ Step(r, "tokens", [request[r] EXCEPT
                       !.pc = IF connected /\ answered THEN "insert" ELSE "search"])
    /\ UNCHANGED <<stores, events, suggestions, relinked, deleted>>

\* Google takes the event, or it fails: it refuses the token, once followed by
\* a refresh, or the answer is lost, with or without the event being made.
InsertAtGoogle(r) ==
    /\ Step(r, "insert", [request[r] EXCEPT !.pc = "search", !.pid = GoogleId(request[r].id)])
    /\ google' = google \cup {request[r].id}
    /\ UNCHANGED <<rows, local, events, suggestions, faults, relinked, deleted>>

InsertRefused(r) ==
    /\ Answer(FALSE)
    /\ Step(r, "insert", [request[r] EXCEPT
                 !.pc = IF request[r].retried THEN "search" ELSE "refresh"])
    /\ UNCHANGED <<stores, events, suggestions, relinked, deleted>>

InsertLost(r) ==
    /\ Tear
    /\ google' \in {google, google \cup {request[r].id}}
    /\ Step(r, "insert", [request[r] EXCEPT !.pc = "search"])
    /\ UNCHANGED <<rows, local, events, suggestions, relinked, deleted>>

\* _force_refresh_tokens, then the one retry.
Refresh(r) ==
    /\ \E answered \in BOOLEAN :
           /\ Answer(answered)
           /\ Step(r, "refresh", [request[r] EXCEPT !.retried = TRUE,
                       !.pc = IF connected /\ answered THEN "insert" ELSE "search"])
    /\ UNCHANGED <<stores, events, suggestions, relinked, deleted>>

\* Faulty variant: every local event is taken for a new one.
DuplicatesNone(k) == {}

\* The rows that are only local and have this title and, without its zone, start.
Duplicates(k) == {n \in Ids : IsMem(rows[n]) /\ RowKey(n) = Digits[k]}

\* Faulty variant: the event gets an id of its own, and no row.
FoundNewId(q, n) == IF Stored(q.pid) THEN q ELSE [q EXCEPT !.pid = MemId(q.id)]

\* Such a row stands for the event, unless Google has it: then the new event is
\* returned, but not stored.
Found(q, n) ==
    IF Stored(q.pid) THEN q ELSE [q EXCEPT !.id = n, !.pid = rows[n], !.key = RowKey(n)]

\* The local create_event first looks for the one such row.  scalar_one_or_none
\* raises on two, which counts as none.
SearchLocal(r) ==
    LET q == request[r]
        dups == Duplicates(q.key)
    IN  /\ q.pc = "search"
        /\ \E committed \in BOOLEAN :
               /\ Commit(committed)
               /\ \/ /\ committed /\ Cardinality(dups) = 1
                     /\ \E n \in dups :
                            Step(r, "search", [Found(q, n) EXCEPT !.pc = Caller(q.op)])
                  \/ /\ ~committed \/ Cardinality(dups) # 1
                     /\ Step(r, "search", [q EXCEPT !.pc = "store",
                                !.pid = IF Stored(q.pid) THEN q.pid ELSE MemId(q.id)])
        /\ UNCHANGED <<stores, events, suggestions, relinked, deleted>>

\* The event goes into the dictionary and, if the session succeeds, in its row.
Keep(r, from, next) ==
    /\ \E committed \in BOOLEAN :
           /\ Commit(committed)
           /\ Step(r, from, next)
           /\ memory' = [memory EXCEPT ![request[r].id] = request[r].pid]
           /\ times' = [times EXCEPT ![request[r].id] = request[r].key]
           /\ rows' = IF committed THEN Saved(request[r].id, request[r].pid) ELSE rows
    /\ UNCHANGED <<google, events, suggestions, relinked, deleted>>

Store(r) == Keep(r, "store", [request[r] EXCEPT !.pc = Caller(request[r].op)])

\* CalendarService.create_event stores what it got once more.
RepoCreate(r) == Keep(r, "repo", Idle)

----------------------------------------------------------------------------
\* Faulty variant: the event is built whatever the suggestion names.
NeedsEventAlways(sg, override) == sg.timed \/ override

\* approve_suggestion builds an event unless the suggestion names one at Google
\* or has no times, of its own or from the body, which are stored with it then.
NeedsEvent(sg, override) == (sg.timed \/ override) /\ ~IsGoogle(sg.event)

BeginApprove(r, s, override) ==
    LET sg == suggestions[s]
        q == [Idle EXCEPT !.op = "approve", !.of = s, !.key = sg.key, !.loaded = sg]
    IN  IF NeedsEvent(sg, override)
        THEN /\ Begin(r, [q EXCEPT !.pc = "tokens", !.id = Len(events) + 1])
             /\ Build(sg.key, "approve", s) /\ UNCHANGED asked
        ELSE /\ Begin(r, [q EXCEPT !.pc = "finish"])
             /\ UNCHANGED <<events, asked>>

\* The commit writes the columns that differ from what was loaded.
FinishApprove(r) ==
    LET q == request[r]
        written == [status |-> IF q.loaded.status # "approved"
                               THEN "approved" ELSE suggestions[q.of].status,
                    event |-> IF Stored(q.pid) /\ q.pid # q.loaded.event
                              THEN q.pid ELSE suggestions[q.of].event,
                    key |-> IF Stored(q.pid) THEN Kept(suggestions[q.of].key)
                            ELSE suggestions[q.of].key,
                    timed |-> suggestions[q.of].timed \/ Stored(q.pid)]
    IN  /\ Step(r, "finish", Idle)
        /\ \/ UNCHANGED faults /\ suggestions' = [suggestions EXCEPT ![q.of] = written]
           \/ Tear /\ UNCHANGED suggestions
        /\ UNCHANGED <<stores, events, relinked, deleted>>

RejectSuggestion(s) ==
    /\ suggestions' = [suggestions EXCEPT ![s].status = "rejected"]
    /\ overlapped' = (overlapped \/ Busy)
    /\ UNCHANGED <<database, connected, stores, events, request, faults,
                   relinked, asked, deleted>>

\* sync_local_events_to_google: each row that was only local when it started is
\* built anew, and takes the id of what Google made of it.
BeginSync(r) ==
    /\ Begin(r, [Idle EXCEPT !.op = "sync", !.pc = "next",
                             !.todo = {n \in Ids : IsMem(rows[n])}])
    /\ UNCHANGED <<events, asked>>

SyncNext(r) ==
    /\ \E n \in request[r].todo :
           /\ Step(r, "next", [request[r] EXCEPT
                       !.pc = "tokens", !.of = n, !.key = RowKey(n), !.pid = NoId,
                       !.id = Len(events) + 1, !.retried = FALSE, !.todo = @ \ {n}])
           /\ Build(RowKey(n), "sync", n)
    /\ UNCHANGED <<stores, suggestions, faults, relinked, deleted>>

SyncDone(r) ==
    /\ request[r].todo = {}
    /\ Step(r, "next", Idle)
    /\ UNCHANGED <<stores, events, suggestions, faults, relinked, deleted>>

\* Faulty variants: the row gets no id, or the UUID in place of Google's id.
RelinkedNot(q) == rows
RelinkedUuid(q) ==
    IF IsGoogle(q.pid) /\ Stored(rows[q.of]) THEN [rows EXCEPT ![q.of] = Uuid(q.id)] ELSE rows

Relinked(q) ==
    IF IsGoogle(q.pid) /\ Stored(rows[q.of]) THEN [rows EXCEPT ![q.of] = q.pid] ELSE rows

Relink(r) ==
    /\ Step(r, "relink", [request[r] EXCEPT !.pc = "next"])
    /\ \/ /\ UNCHANGED faults
          /\ rows' = Relinked(request[r])
          /\ relinked' = (relinked \/ rows' # rows)
       \/ Tear /\ IsGoogle(request[r].pid) /\ UNCHANGED <<rows, relinked>>
    /\ UNCHANGED <<google, local, events, suggestions, deleted>>

----------------------------------------------------------------------------
\* delete_event, by the provider id of a listed event or by the UUID of a row.
BeginDelete(r, target) ==
    /\ Begin(r, [Idle EXCEPT !.op = "delete", !.pc = "delgoogle", !.target = target])
    /\ asked' = asked \cup IF target[1] = "uuid"
                           THEN {rows[target[2]], memory[target[2]]} ELSE {target}
    /\ UNCHANGED events

DeleteAtGoogle(r) ==
    LET t == request[r].target
        there == connected /\ IsGoogle(t) /\ t[2] \in google
    IN  /\ \/ /\ UNCHANGED faults
              /\ google' = IF there THEN google \ {t[2]} ELSE google
              /\ Step(r, "delgoogle",
                      [request[r] EXCEPT !.pc = "dellocal", !.gone = there])
           \/ /\ connected /\ Tear
              /\ google' \in {google, IF there THEN google \ {t[2]} ELSE google}
              /\ Step(r, "delgoogle", [request[r] EXCEPT !.pc = "dellocal"])
        /\ UNCHANGED <<rows, local, events, suggestions, relinked, deleted>>

\* An entry of the dictionary goes and its row stays.  Only without such an
\* entry, and only for a UUID, the row goes.
DeleteLocal(r) ==
    LET t == request[r].target
        entries == {n \in Ids : Stored(memory[n]) /\ (memory[n] = t \/ t = Uuid(n))}
        row == {n \in Ids : t = Uuid(n) /\ Stored(rows[n])}
        Cut(ns) == /\ rows' = [n \in Ids |-> IF n \in ns THEN NoId ELSE rows[n]]
                   /\ deleted' = deleted \cup {rows[n] : n \in ns}
                                     \cup IF request[r].gone THEN {t} ELSE {}
    IN  /\ Step(r, "dellocal", Idle)
        /\ \/ /\ entries # {}
              /\ \E n \in entries : /\ memory' = [memory EXCEPT ![n] = NoId]
                                     /\ times' = [times EXCEPT ![n] = NoKey]
                                     /\ deleted' = deleted \cup {memory[n]}
              /\ UNCHANGED <<rows, faults>>
           \/ entries = {} /\ Cut(row) /\ UNCHANGED <<local, faults>>
           \/ entries = {} /\ row # {} /\ Cut({}) /\ Tear /\ UNCHANGED local
        /\ UNCHANGED <<google, events, suggestions, relinked>>

----------------------------------------------------------------------------
\* The user works in Google's own calendar, which tells times in UTC, grants or
\* withdraws access.
AddAtGoogle(key) ==
    /\ Build(key, "google", 0)
    /\ google' = google \cup {Len(events) + 1}
    /\ overlapped' = (overlapped \/ Busy)
    /\ UNCHANGED <<database, connected, rows, local, suggestions, request, faults,
                   relinked, asked, deleted>>

Connect ==
    /\ ~connected
    /\ connected' = TRUE
    /\ overlapped' = (overlapped \/ Busy)
    /\ UNCHANGED <<database, stores, events, suggestions, request, faults,
                   relinked, asked, deleted>>

Disconnect ==
    /\ connected
    /\ connected' = FALSE
    /\ overlapped' = (overlapped \/ Busy)
    /\ UNCHANGED <<database, stores, events, suggestions, request, faults,
                   relinked, asked, deleted>>

\* The process restarts: the dictionary and the requests in hand are gone.
Restart ==
    /\ memory' = [n \in Ids |-> NoId] /\ times' = [n \in Ids |-> NoKey]
    /\ request' = [r \in Requests |-> Idle]
    /\ Commit(~Busy)
    /\ UNCHANGED <<database, connected, google, rows, events, suggestions, overlapped,
                   relinked, asked, deleted>>

----------------------------------------------------------------------------
Steps(r) ==
    \/ ListGoogle(r) \/ ListLocal(r) \/ GetTokens(r)
    \/ InsertAtGoogle(r) \/ InsertRefused(r) \/ InsertLost(r) \/ Refresh(r)
    \/ SearchLocal(r) \/ Store(r) \/ RepoCreate(r) \/ FinishApprove(r)
    \/ SyncNext(r) \/ SyncDone(r) \/ Relink(r)
    \/ DeleteAtGoogle(r) \/ DeleteLocal(r)

Next ==
    \/ \E r \in Requests :
           \/ Steps(r)
           \/ \E k \in Keys : BeginCreate(r, k)
           \/ \E s \in Suggestions, o \in BOOLEAN : BeginApprove(r, s, o)
           \/ BeginSync(r)
           \/ \E t \in Listed \cup {Uuid(n) : n \in {m \in Ids : Stored(rows[m])}} :
                  BeginDelete(r, t)
    \/ \E s \in Suggestions : RejectSuggestion(s)
    \/ \E k \in Keys : AddAtGoogle(Utc[k])
    \/ Connect \/ Disconnect \/ Restart

Spec == Init /\ [][Next]_vars

----------------------------------------------------------------------------
\* Every variable has its type (CalendarEventModel, ScheduleSuggestionModel).
TypeOK ==
    /\ database \in Databases /\ connected \in BOOLEAN
    /\ google \subseteq 1..Len(events)
    /\ rows \in [Ids -> ProviderIds \cup {NoId}]
    /\ memory \in [Ids -> ProviderIds \cup {NoId}]
    /\ times \in [Ids -> Keys \cup {NoKey}]
    /\ events \in Seq(EventRecords) /\ Len(events) <= MaxEvents
    /\ suggestions \in [Suggestions -> SuggestionRecords]
    /\ request \in [Requests ->
           [op : {"none", "create", "approve", "sync", "delete"},
            pc : {"idle", "list", "listlocal", "tokens", "insert", "refresh", "search",
                  "store", "repo", "finish", "next", "relink", "delgoogle", "dellocal"},
            key : Keys \cup {NoKey}, of : Ids \cup Suggestions \cup {0},
            target : ProviderIds \cup {Uuid(n) : n \in Ids} \cup {NoId},
            id : Ids \cup {0}, pid : ProviderIds \cup {NoId},
            loaded : SuggestionRecords, todo : SUBSET Ids,
            retried : BOOLEAN, gone : BOOLEAN]]
    /\ failures \in 0..MaxFailures
    /\ overlapped \in BOOLEAN /\ torn \in BOOLEAN /\ relinked \in BOOLEAN
    /\ asked \cup deleted \subseteq ProviderIds \cup {NoId}

Undisturbed == ~overlapped /\ ~torn

\* The look-up by title and digits finds the row of every event: on SQLite always,
\* on PostgreSQL if the event was asked for in UTC.
RowsFound == \A n \in 1..Len(events) : RowKey(n) = Digits[events[n].key]

Orderly == Undisturbed /\ RowsFound

\* Approving a suggestion again, after a rejection, a restart, a refused token
\* or a change of the connection, makes no second event of it at Google, and
\* none that is only local: approve_suggestion skips an event that Google has,
\* and the local create_event finds the row it stored before.
OneEventPerSuggestion ==
    LET Of(s) == {n \in 1..Len(events) : events[n].by = "approve" /\ events[n].of = s}
    IN  Orderly => \A s \in Suggestions :
            /\ Cardinality({n \in Of(s) : n \in google}) <= 1
            /\ Cardinality({n \in Of(s) : IsMem(rows[n])}) <= 1

\* The event an approved suggestion names is never one that Google did not make,
\* whatever overlaps or fails, and it is stored as a row if it is only local,
\* also if the row was made for another suggestion or by hand.  Exempt are
\* events that someone asked to delete and rows that a sync has renamed.
SuggestionNamesEvent ==
    \A s \in Suggestions :
        LET e == suggestions[s].event
        IN  \/ e \in asked
            \/ /\ IsGoogle(e) => e[2] \in google
               /\ IsMem(e) /\ ~torn /\ ~relinked => e \in Names(rows)

\* The rows of one time that CalendarService.create_event has made.
CreatedAt(time) ==
    {n \in 1..Len(events) :
        Stored(rows[n]) /\ events[n].by = "create" /\ Utc[events[n].key] = time}

\* CalendarService.create_event refuses a time that is taken: of the rows of one
\* time at most one was created through it by a request that gave the time in UTC
\* or without a zone, although Google may have been out of reach or newly
\* connected at any step, and events deleted or synced.
CreatedOncePerTime ==
    Orderly => \A k \in Keys :
        Cardinality({n \in CreatedAt(k) : Plain(events[n].key)}) <= 1

\* "Create a new calendar event with conflict detection" (calendar_service.py:47):
\* in whatever zone requests give the time, and although nothing overlaps or fails.
ConflictsAreDetected ==
    Undisturbed => \A k \in Keys : Cardinality(CreatedAt(k)) <= 1

\* sync-local-to-google sends a row to Google once, however often it is called:
\* the row carries Google's id before the next call reads it.
SyncedOnce ==
    Orderly => \A m, n \in google :
        events[m].by = "sync" /\ events[n].by = "sync" /\ events[m].of = events[n].of
            => m = n

\* No two rows carry one provider id, although an event returned by the local
\* create_event may be an older one and is stored a second time.
RowsNameDifferentEvents ==
    Orderly => \A m, n \in Ids : Stored(rows[m]) /\ rows[m] = rows[n] => m = n

\* delete_event: "Delete event from Google Calendar (if tokens available) and
\* local DB." (provider_aware_calendar.py:599)
DeletedIsGone == deleted \cap Listed = {}

==============================================================================
