----------------------------- MODULE ListingCache -----------------------------
(***************************************************************************)
(* The listings of one user's events as CalendarService caches them for    *)
(* two minutes.  A listing asks the cache, reads the calendar when the     *)
(* cache has nothing, and stores what it read; a change goes to the        *)
(* calendar first and empties the cache afterwards.  The calendar is the   *)
(* number of its last change and whether it holds anything; one range of   *)
(* dates stands for all, as a change empties every range of the user.      *)
(***************************************************************************)
EXTENDS RedisStore, FiniteSets

CONSTANTS
    ListCalls,    \* slots for requests and agent tools
    MaxChanges    \* bound: changes of the calendar

ASSUME ChangesAssumption == MaxChanges \in Nat

VARIABLES
    calendar,     \* the calendar
    cached,       \* events:<user>:<range> in Redis and in each process
    listCall,     \* the calls in hand
    answer,       \* what the last finished listing returned
    finished,     \* history: the last change whose request ended well
    missed        \* history: stores that hold, or may yet be given, a listing
                  \* that a change did not empty

listingVars == <<calendar, cached, listCall, answer, finished, missed>>

Versions == 0..MaxChanges
Listings == [version : Versions, some : BOOLEAN]
Nothing == [version |-> 0, some |-> FALSE]
NoEntry == [is |-> FALSE, of |-> Nothing]
NoListCall == [pc |-> "idle", replica |-> "none", of |-> Nothing]
ListSteps == {"idle", "read", "store", "invalidate"}

ListingInit ==
    /\ calendar = Nothing
    /\ cached = [s \in Stores |-> NoEntry]
    /\ listCall = [c \in ListCalls |-> NoListCall]
    /\ answer = "none"
    /\ finished = 0
    /\ missed = {}

Continue(c, pc, r, of) ==
    listCall' = [listCall EXCEPT ![c] = [pc |-> pc, replica |-> r, of |-> of]]
EndListCall(c) == listCall' = [listCall EXCEPT ![c] = NoListCall]

----------------------------------------------------------------------------
(* list_events *)

\* RedisCacheAdapter writes str() of each event, so what it returns of a listing
\* with events are strings: the route answers 500 and the tool fails.  An empty
\* listing, and the dictionary's, come back as they were.
Returned(listing) ==
    IF adapter = "redis" /\ listing.some THEN "error" ELSE "listing"

ListHit(c, r) ==
    /\ listCall[c].pc = "idle"
    /\ CacheAnswers /\ cached[StoreOf(r)].is
    /\ answer' = Returned(cached[StoreOf(r)].of)
    /\ UNCHANGED <<calendar, cached, listCall, finished, missed>>

ListMiss(c, r) ==
    /\ listCall[c].pc = "idle"
    /\ ~(CacheAnswers /\ cached[StoreOf(r)].is)
    /\ Continue(c, "read", r, Nothing)
    /\ UNCHANGED <<calendar, cached, answer, finished, missed>>

ReadCalendar(c) ==
    /\ listCall[c].pc = "read"
    /\ Continue(c, "store", listCall[c].replica, calendar)
    /\ UNCHANGED <<calendar, cached, answer, finished, missed>>

\* A set that Redis does not take is skipped.
StoreListing(c) ==
    LET s == StoreOf(listCall[c].replica)
    IN /\ listCall[c].pc = "store"
       /\ answer' = "listing"
       /\ IF CacheAnswers
            THEN /\ cached' = [cached EXCEPT ![s] = [is |-> TRUE, of |-> listCall[c].of]]
                 /\ missed' = IF listCall[c].of = calendar THEN missed \ {s}
                              ELSE missed \cup {s}
            ELSE UNCHANGED <<cached, missed>>
       /\ EndListCall(c)
       /\ UNCHANGED <<calendar, finished>>

----------------------------------------------------------------------------
(* create_event, update_event, delete_event *)

\* A change that the provider refuses changes nothing and empties nothing.
Change(c, r, some) ==
    /\ listCall[c].pc = "idle"
    /\ calendar.version < MaxChanges
    /\ some \/ calendar.some
    /\ calendar' = [version |-> calendar.version + 1, some |-> some]
    /\ Continue(c, "invalidate", r, calendar')
    /\ UNCHANGED <<cached, answer, finished, missed>>

\* Faulty variant: the pattern matches no key of the user.
InvalidateNothing(c) ==
    /\ listCall[c].pc = "invalidate"
    /\ finished' = IF listCall[c].of.version > finished
                     THEN listCall[c].of.version ELSE finished
    /\ EndListCall(c)
    /\ UNCHANGED <<calendar, cached, answer, missed>>

\* cache.delete reaches the store of this process; if it is out of reach, or one
\* of many dictionaries, other entries stay.
Invalidate(c) ==
    LET own == IF CacheAnswers THEN {StoreOf(listCall[c].replica)} ELSE {}
    IN /\ listCall[c].pc = "invalidate"
       /\ cached' = [s \in Stores |-> IF s \in own THEN NoEntry ELSE cached[s]]
       /\ missed' = (missed \ own) \cup {s \in Stores \ own : cached[s].is}
       /\ finished' = IF listCall[c].of.version > finished
                        THEN listCall[c].of.version ELSE finished
       /\ EndListCall(c)
       /\ UNCHANGED <<calendar, answer>>

\* A call fails or dies; a change of which the row could not be stored leaves the
\* cache as it was.
FailListCall(c) ==
    /\ listCall[c].pc # "idle"
    /\ EndListCall(c)
    /\ UNCHANGED <<calendar, cached, answer, finished, missed>>

\* Google, an approved suggestion, a booking and a hook change the calendar
\* without CalendarService; nobody empties the cache.
ChangeElsewhere(some) ==
    /\ calendar.version < MaxChanges
    /\ some \/ calendar.some
    /\ calendar' = [version |-> calendar.version + 1, some |-> some]
    /\ finished' = calendar.version + 1
    /\ missed' = missed \cup {s \in Stores : cached[s].is}
    /\ UNCHANGED <<cached, listCall, answer>>

----------------------------------------------------------------------------
\* Two minutes are over, Redis evicts the key, or the process starts again.
ForgetListing(s) ==
    /\ cached[s].is
    /\ cached' = [cached EXCEPT ![s] = NoEntry]
    /\ missed' = missed \ {s}
    /\ UNCHANGED <<calendar, listCall, answer, finished>>

ListingNext ==
    \/ UNCHANGED redisVars /\
         \/ \E c \in ListCalls :
              \/ \E r \in Replicas :
                   \/ ListHit(c, r) \/ ListMiss(c, r)
                   \/ \E some \in BOOLEAN : Change(c, r, some)
              \/ ReadCalendar(c) \/ StoreListing(c) \/ Invalidate(c) \/ FailListCall(c)
         \/ \E some \in BOOLEAN : ChangeElsewhere(some)
         \/ \E s \in Stores : ForgetListing(s)
    \/ (RedisFails \/ RedisReturns) /\ UNCHANGED listingVars

ListingSpec == ListingInit /\ [][ListingNext]_listingVars

----------------------------------------------------------------------------
(* Properties *)

ListingTypeOK ==
    /\ calendar \in Listings
    /\ cached \in [Stores -> [is : BOOLEAN, of : Listings]]
    /\ listCall \in [ListCalls ->
         [pc : ListSteps, replica : Replicas \cup {"none"}, of : Listings]]
    /\ answer \in {"none", "listing", "error"}
    /\ finished \in Versions
    /\ missed \subseteq Stores

\* A listing in the cache knows every change whose request has ended
\* (calendar_service.py: "Invalidate cache"), unless it was read before a change
\* and stored after it, the change could not reach the store that holds it, or
\* the change did not go through CalendarService.
ListingsAreCurrent ==
    \A s \in Stores :
      cached[s].is /\ s \notin missed => cached[s].of.version >= finished
===============================================================================
