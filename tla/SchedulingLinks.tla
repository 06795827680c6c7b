--------------------------- MODULE SchedulingLinks ---------------------------
(***************************************************************************)
(* The calendar of one host, the scheduling links made for it, the host's  *)
(* personal page (/book/<name>) and the people who book.  Time stands      *)
(* still; it is counted in quarters of an hour from a Monday, midnight.  A *)
(* window is a pair <<from, to>>, in UTC.  Listing and creating follow the *)
(* calendar adapter; its retries, rows that only a dictionary holds, and   *)
(* what becomes of a time zone are the subject of CalendarEvents.          *)
(***************************************************************************)
EXTENDS Naturals, FiniteSets, Sequences, Database

CONSTANTS
    Now,           \* the time of all requests
    Days,          \* days_ahead of a link, days of a page
    LinkDuration,  \* duration_minutes of a link
    MaxSlots,      \* the most slots a link offers (30)
    PageSize,      \* max_results of a listing (50)
    Meetings,      \* windows of the host's other meetings
    AllDays,       \* those of them that last all day
    Wishes,        \* windows that people book, which may end before they begin
    Visitors,
    MaxMeetings,   \* bound: meetings of the host
    MaxLinks,      \* bound: links
    MaxBookings    \* bound: bookings

ASSUME LinkAssumption ==
    /\ {Now, Days, LinkDuration, MaxSlots, PageSize} \subseteq Nat
    /\ {MaxMeetings, MaxLinks, MaxBookings} \subseteq Nat
    /\ LinkDuration > 0
    /\ Meetings \cup Wishes \subseteq Nat \X Nat
    /\ AllDays \subseteq Meetings
    /\ "host" \notin Visitors

VARIABLES
    agenda,     \* the events of the host, in the order of their creation
    links,      \* scheduling_links
    visit,      \* what each visitor has on the screen
    bookings    \* how many bookings there have been

linkVars == <<database, agenda, links, visit, bookings>>

PageDuration == 2     \* 30 minutes: the page sends none, which is the default
PageEnd == Now + 96 * Days
FirstHour == Now - (Now % 4)
LinkEnd == FirstHour + 96 * Days

Hour(t) == (t % 96) \div 4
Weekday(t) == (t \div 96) % 7

Away == [pc |-> "away", windows |-> {}, seen |-> {}]

LinksInit ==
    /\ database \in Databases
    /\ agenda = << >>
    /\ links = << >>
    /\ visit = [v \in Visitors |-> Away]
    /\ bookings = 0

----------------------------------------------------------------------------
(* list_events of the adapter: Google's first page and the rows *)

Span(i) == <<agenda[i].from, agenda[i].to>>
Overlap(a, b) == a[1] < b[2] /\ b[1] < a[2]

\* list_events(now, now + days): an event that is over, or that begins after the
\* last moment, is not listed.
Within(w) == w[1] < PageEnd /\ Now < w[2]

AtGoogle == {i \in DOMAIN agenda : agenda[i].at # "local" /\ Within(Span(i))}
InRows == {i \in DOMAIN agenda : agenda[i].at # "google" /\ Within(Span(i))}

\* Sorted by start.  The code leaves open in which order it takes events that start
\* together: here, the one in which they were made.
Earlier(j, i) ==
    agenda[j].from < agenda[i].from \/ (agenda[j].from = agenda[i].from /\ j < i)

\* The first max_results of S.
FirstPage(S) == {i \in S : Cardinality({j \in S : Earlier(j, i)}) < PageSize}

FromGoogle(answers) == IF answers THEN FirstPage(AtGoogle) ELSE {}
Listed(answers) == FromGoogle(answers) \cup FirstPage(InRows)

\* Times without a zone, of an all-day event of Google's or of SQLite's rows, do
\* not compare with now: the TypeError leaves the link or the page empty.
Comparable(answers) ==
    \A i \in Listed(answers) :
      IF i \in FromGoogle(answers) THEN ~agenda[i].allDay ELSE database = "postgres"

\* What a listing tells of: the copies of one place, if those within its reach fit
\* a page.  SQLite's rows stop the listing or stay out of it.
Known(answers) ==
    LET fits(S, at) ==
          IF Cardinality(S) <= PageSize THEN {i \in DOMAIN agenda : agenda[i].at # at} ELSE {}
    IN (IF database = "postgres" THEN fits(InRows, "google") ELSE {})
         \cup (IF answers THEN fits(AtGoogle, "local") ELSE {})

Spans(S) == {Span(i) : i \in S}
Busy(answers) == Spans(Listed(answers))

----------------------------------------------------------------------------
(* Windows: _compute_free_slots and find_free_slots *)

OfficeHours(t) ==
    Weekday(t) < 5 /\ Hour(t) \in 9..16 /\ Hour(t + LinkDuration) <= 17

\* Where the loop may stand, and how many slots it may still add.
Progress == (FirstHour..(LinkEnd + LinkDuration + 3)) \X (0..MaxSlots)

\* Faulty variant: only a meeting that begins with the slot is in its way.
FreeSlotsByStart(busy) ==
    LET slots[at \in Progress] ==
          LET t == at[1]  left == at[2]
          IN IF t >= LinkEnd \/ left = 0 THEN {}
             ELSE IF ~OfficeHours(t) THEN slots[<<t + 4, left>>]
             ELSE IF \E b \in busy : b[1] = t THEN slots[<<t + 2, left>>]
             ELSE {<<t, t + LinkDuration>>} \cup slots[<<t + LinkDuration, left - 1>>]
    IN slots[<<FirstHour, MaxSlots>>]

\* From the full hour on: an hour further outside office hours, half an hour
\* further when a meeting is in the way, else to the end of the new slot.
FreeSlots(busy) ==
    LET slots[at \in Progress] ==
          LET t == at[1]  left == at[2]
          IN IF t >= LinkEnd \/ left = 0 THEN {}
             ELSE IF ~OfficeHours(t) THEN slots[<<t + 4, left>>]
             ELSE IF \E b \in busy : Overlap(<<t, t + LinkDuration>>, b)
               THEN slots[<<t + 2, left>>]
             ELSE {<<t, t + LinkDuration>>} \cup slots[<<t + LinkDuration, left - 1>>]
    IN slots[<<FirstHour, MaxSlots>>]

LongGap(w) == w[2] >= w[1] + PageDuration

\* Where the cursor stands past the events S: at the latest end, or still at now.
Cursor(S) ==
    CHOOSE t \in {Now} \cup {b[2] : b \in Spans(S)} : Now <= t /\ \A b \in Spans(S) : b[2] <= t

GapBefore(i, S) == <<Cursor({j \in S : Earlier(j, i)}), agenda[i].from>>

\* The loop over the sorted events takes the gap between the cursor and each event,
\* and the one after the last.
Gaps(S) ==
    {w \in {GapBefore(i, S) : i \in S} \cup {<<Cursor(S), PageEnd>>} : LongGap(w)}

----------------------------------------------------------------------------
(* The host *)

Event(w, at, by) ==
    [from |-> w[1], to |-> w[2], at |-> at, by |-> by, allDay |-> by = "host" /\ w \in AllDays]

\* At Google, or with the application, at Google and in a row or in a row only.
AddMeeting(m, at) ==
    /\ Cardinality({i \in DOMAIN agenda : agenda[i].by = "host"}) < MaxMeetings
    /\ m \in AllDays => at = "google"
    /\ agenda' = Append(agenda, Event(m, at, "host"))
    /\ UNCHANGED <<database, links, visit, bookings>>

\* _create_link_record: a row that is not saved leaves a URL that leads nowhere.
SaveLink(mode, windows, seen, saved) ==
    /\ Len(links) < MaxLinks
    /\ links' = Append(links, [mode |-> mode, windows |-> windows, seen |-> seen,
                               status |-> IF saved THEN "open" ELSE "lost"])
    /\ UNCHANGED <<database, agenda, visit, bookings>>

CreateSuggestedLink(m, saved) == SaveLink("suggested", {m}, {}, saved)

CreateAvailabilityLink(answers, saved) ==
    SaveLink("availability",
             IF Comparable(answers) THEN FreeSlots(Busy(answers)) ELSE {},
             Known(answers), saved)

DeleteLink(n) ==
    /\ n \in DOMAIN links /\ links[n].status = "open"
    /\ links' = [links EXCEPT ![n].status = "used"]
    /\ UNCHANGED <<database, agenda, visit, bookings>>

LinkLapses(n) ==
    /\ n \in DOMAIN links /\ links[n].status = "open"
    /\ links' = [links EXCEPT ![n].status = "expired"]
    /\ UNCHANGED <<database, agenda, visit, bookings>>

----------------------------------------------------------------------------
(* The visitors *)

Show(v, pc, windows, seen) ==
    /\ visit[v].pc = "away"
    /\ visit' = [visit EXCEPT ![v] = [pc |-> pc, windows |-> windows, seen |-> seen]]
    /\ UNCHANGED <<database, agenda, links, bookings>>

\* get_link; the expiry SQLite gives back does not compare with now either.
Opens(n) ==
    n \in DOMAIN links /\ links[n].status = "open" /\ database = "postgres"

OpenLink(v, n) ==
    /\ Opens(n)
    /\ Show(v, "link", links[n].windows, links[n].seen)

\* book_slot: used, expired or not one of the suggested windows, or else
\* create_event, which cannot take the DTO it is given: refused each time, and
\* the link is not marked as used.
BookByLink(v) ==
    /\ visit[v].pc = "link" /\ visit[v].windows # {}
    /\ visit' = [visit EXCEPT ![v] = Away]
    /\ UNCHANGED <<database, agenda, links, bookings>>

OpenPage(v, answers) ==
    Show(v, "page", IF Comparable(answers) THEN Gaps(Listed(answers)) ELSE {}, Known(answers))

\* The row of a booking that is only local: one more of the same visitor at the
\* same time, with the same title, is not stored again.
OwnRow(v, from) ==
    \E i \in DOMAIN agenda :
      agenda[i].at = "local" /\ agenda[i].by = v /\ agenda[i].from = from

\* The copies create_event leaves: Google takes the event, fails, or takes it and
\* the answer is lost; the row is saved or not.
Copies(google, saved) ==
    CASE google = "answers" -> IF saved THEN <<"both">> ELSE <<"google">>
      [] google = "fails" -> IF saved THEN <<"local">> ELSE << >>
      [] google = "answer lost" -> IF saved THEN <<"google", "local">> ELSE <<"google">>

\* confirm_personal_booking takes any start and any duration, of the page's windows
\* or not, and does not look at the calendar.  Without an answer the visitor may
\* press once more.
Confirm(v, w, google, answered) ==
    /\ bookings < MaxBookings
    /\ bookings' = bookings + 1
    /\ \E saved \in IF OwnRow(v, w[1]) THEN {FALSE} ELSE BOOLEAN :
         LET copies == Copies(google, saved)
         IN agenda' = agenda \o [k \in DOMAIN copies |-> Event(w, copies[k], v)]
    /\ visit' = [visit EXCEPT ![v] = IF answered THEN Away ELSE @]
    /\ UNCHANGED <<database, links>>

Leave(v) ==
    /\ visit[v].pc # "away"
    /\ visit' = [visit EXCEPT ![v] = Away]
    /\ UNCHANGED <<database, agenda, links, bookings>>

\* What is explored: of events, links and visitors, not the largest number of
\* each at once.
LinksExplored ==
    Len(agenda) + Len(links) + Cardinality({v \in Visitors : visit[v].pc # "away"})
      <= MaxMeetings + 1

LinksNext ==
    \/ \E m \in Meetings :
         \/ \E at \in {"google", "both", "local"} : AddMeeting(m, at)
         \/ \E saved \in BOOLEAN : CreateSuggestedLink(m, saved)
    \/ \E answers, saved \in BOOLEAN : CreateAvailabilityLink(answers, saved)
    \/ \E n \in 1..MaxLinks : DeleteLink(n) \/ LinkLapses(n)
    \/ \E v \in Visitors :
         \/ \E n \in 1..MaxLinks : OpenLink(v, n)
         \/ BookByLink(v)
         \/ \E answers \in BOOLEAN : OpenPage(v, answers)
         \/ \E w \in Wishes, google \in {"answers", "fails", "answer lost"},
               answered \in BOOLEAN : Confirm(v, w, google, answered)
         \/ Leave(v)

LinksSpec == LinksInit /\ [][LinksNext]_linkVars

----------------------------------------------------------------------------
(* Properties *)

LinksTypeOK ==
    /\ database \in Databases
    /\ \A i \in DOMAIN agenda :
         /\ Span(i) \in Meetings \cup Wishes
         /\ agenda[i].at \in {"google", "local", "both"}
         /\ agenda[i].by \in Visitors \cup {"host"}
    /\ \A n \in DOMAIN links :
         /\ links[n].mode \in {"suggested", "availability"}
         /\ links[n].status \in {"open", "used", "expired", "lost"}
    /\ \A v \in Visitors : visit[v].pc \in {"away", "link", "page"}
    /\ bookings \in 0..MaxBookings

\* The windows of a page are free of every event there was when the calendar was
\* read (at Google, unless it did not answer or listed more than a page of them; in
\* the rows, up to a page of them), and apart from one another, unless somebody has
\* booked what ends before it begins.  The slots of an availability link are apart,
\* at most MaxSlots, and free of those events that the listing reaches: a slot may
\* begin before now, and end on a meeting after the last moment listed
\* (find_free_slots, _compute_free_slots).
OfferedSlotsFree ==
    LET apart(windows) == \A a, b \in windows : a # b => ~Overlap(a, b)
        forward == \A i \in DOMAIN agenda : agenda[i].from <= agenda[i].to
    IN /\ \A v \in Visitors : visit[v].pc = "page" =>
            /\ \A w \in visit[v].windows, i \in visit[v].seen : ~Overlap(w, Span(i))
            /\ forward => apart(visit[v].windows)
       /\ \A n \in DOMAIN links : links[n].mode = "availability" =>
            /\ \A w \in links[n].windows, i \in links[n].seen :
                 Overlap(w, Span(i)) => ~Within(Span(i))
            /\ apart(links[n].windows)
            /\ Cardinality(links[n].windows) <= MaxSlots
===============================================================================
