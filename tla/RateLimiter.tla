----------------------------- MODULE RateLimiter -----------------------------
(***************************************************************************)
(* RateLimiterMiddleware.  A bucket is counted in one of several places: a *)
(* sorted set in Redis, and, for a request that Redis does not answer, a   *)
(* list in the process that serves it.  The timestamp of a request is read *)
(* before Redis is awaited, so that requests may be counted in another     *)
(* order than they are stamped.  An invite link passes two buckets, one    *)
(* after the other; the exempt paths pass none and are left out.           *)
(***************************************************************************)
EXTENDS RedisStore, Sequences, FiniteSets

CONSTANTS
    Limit,          \* requests per window, of the buckets "invite" and "general"
    Window,         \* the length of the window
    LimitedCalls,   \* slots for requests
    MaxTime,        \* bound: the clock
    MaxLimited      \* bound: requests

ASSUME LimiterAssumption ==
    /\ Limit \in [{"invite", "general"} -> Nat \ {0}]
    /\ {Window, MaxTime, MaxLimited} \subseteq Nat \ {0}

VARIABLES
    clock,         \* time.time()
    scores,        \* the sorted sets rl:<bucket>: their timestamps
    touched,       \* when each sorted set was written last, for its expiry
    stamps,        \* _local of each process: its lists of timestamps
    limitedCall,   \* the requests in the middleware
    limited,       \* how many requests there have been
    passed,        \* history: the timestamps that each place has let through
    unsure         \* history: places that lost a bucket, or were asked too late

limiterVars ==
    <<clock, scores, touched, stamps, limitedCall, limited, passed, unsure>>

Buckets == {"invite", "general"}
Times == 0..MaxTime

\* A list of timestamps: the k-th entry of a timestamp t is <<t, k>>.
Add(list, t) == list \cup {<<t, 1 + Cardinality({x \in list : x[1] = t})>>}
StampsOf(list) == {x[1] : x \in list}

NoLimitedCall == [todo |-> << >>, now |-> 0, replica |-> "none"]

LimiterInit ==
    /\ clock = 0
    /\ scores = [b \in Buckets |-> {}]
    /\ touched = [b \in Buckets |-> 0]
    /\ stamps = [r \in Replicas |-> [b \in Buckets |-> {}]]
    /\ limitedCall = [c \in LimitedCalls |-> NoLimitedCall]
    /\ limited = 0
    /\ passed = [s \in Stores |-> [b \in Buckets |-> {}]]
    /\ unsure = {}

Tick ==
    /\ clock < MaxTime
    /\ clock' = clock + 1
    /\ UNCHANGED <<scores, touched, stamps, limitedCall, limited, passed, unsure>>

\* The buckets of a request, in order.  The second one is the user's or the
\* address's; one client of each is enough, as buckets are disjoint.
Paths == {<<"general">>, <<"invite", "general">>}

EnterLimiter(c, r, path) ==
    /\ limitedCall[c].todo = << >>
    /\ limited < MaxLimited
    /\ limited' = limited + 1
    /\ limitedCall' = [limitedCall EXCEPT ![c] =
         [todo |-> path, now |-> clock, replica |-> r]]
    /\ UNCHANGED <<clock, scores, touched, stamps, passed, unsure>>

\* 429, the endpoint, or the next bucket with a new timestamp.
Answer(c, allowed) ==
    limitedCall' = [limitedCall EXCEPT ![c] =
      IF allowed /\ Len(limitedCall[c].todo) > 1
        THEN [todo |-> Tail(limitedCall[c].todo), now |-> clock,
              replica |-> limitedCall[c].replica]
        ELSE NoLimitedCall]

\* History: what place s has let through of bucket b.  A late request, one that
\* a later one overtook or that outlived the key it should have seen, leaves the
\* place unsure, and nothing is recorded of it any more.
Record(s, b, t, allowed, late) ==
    LET doubt == late \/ <<s, b>> \in unsure
    IN /\ unsure' = IF doubt THEN unsure \cup {<<s, b>>} ELSE unsure
       /\ passed' = [passed EXCEPT ![s][b] =
            IF doubt THEN {} ELSE IF allowed THEN Add(@, t) ELSE @]

\* Faulty variant: one request more than the limit.
CeilingPlusOne(b) == Limit[b] + 1

Ceiling(b) == Limit[b]

\* zremrangebyscore, zcard, zadd, expire in one transaction: a request is added
\* whether it is let through or not, and equal timestamps are one member.
CheckRedis(c) ==
    LET t == limitedCall[c].now
        b == Head(limitedCall[c].todo)
        alive == clock <= touched[b] + Window
        inWindow == {u \in scores[b] : u + Window > t}
        kept == IF alive THEN inWindow ELSE {}
        allowed == Cardinality(kept) < Ceiling(b)
    IN /\ limitedCall[c].todo # << >>
       /\ redisUp
       /\ scores' = [scores EXCEPT ![b] = kept \cup {t}]
       /\ touched' = [touched EXCEPT ![b] = clock]
       /\ Record("redis", b, t, allowed, kept # inWindow \/ \E u \in kept : u > t)
       /\ Answer(c, allowed)
       /\ UNCHANGED <<clock, stamps, limited>>

\* Redis has raised: the list of the process counts, and only if it lets through.
CheckLocal(c) ==
    LET t == limitedCall[c].now
        b == Head(limitedCall[c].todo)
        r == limitedCall[c].replica
        kept == {x \in stamps[r][b] : x[1] + Window > t}
        allowed == Cardinality(kept) < Ceiling(b)
    IN /\ limitedCall[c].todo # << >>
       /\ ~redisUp
       /\ stamps' = [stamps EXCEPT ![r][b] =
            IF allowed THEN Add(kept, t) ELSE kept]
       /\ Record(r, b, t, allowed, \E u \in StampsOf(stamps[r][b]) : u > t)
       /\ Answer(c, allowed)
       /\ UNCHANGED <<clock, scores, touched, limited>>

\* A process starts again, its lists empty and its requests gone.
RestartLimiter(r) ==
    /\ stamps' = [stamps EXCEPT ![r] = [b \in Buckets |-> {}]]
    /\ limitedCall' = [c \in LimitedCalls |->
         IF limitedCall[c].replica = r THEN NoLimitedCall ELSE limitedCall[c]]
    /\ passed' = [passed EXCEPT ![r] = [b \in Buckets |-> {}]]
    /\ UNCHANGED <<clock, scores, touched, limited, unsure>>

BucketEvicted(b) ==
    /\ RedisEvicts
    /\ scores[b] # {}
    /\ scores' = [scores EXCEPT ![b] = {}]
    /\ unsure' = unsure \cup {<<"redis", b>>}
    /\ passed' = [passed EXCEPT !["redis"][b] = {}]
    /\ UNCHANGED <<clock, touched, stamps, limitedCall, limited>>

LimiterNext ==
    \/ UNCHANGED redisVars /\
         \/ Tick
         \/ \E c \in LimitedCalls :
              \/ \E r \in Replicas, path \in Paths : EnterLimiter(c, r, path)
              \/ CheckRedis(c) \/ CheckLocal(c)
         \/ \E r \in Replicas : RestartLimiter(r)
    \/ (RedisFails \/ RedisReturns) /\ UNCHANGED limiterVars
    \/ \E b \in Buckets : BucketEvicted(b)

LimiterSpec == LimiterInit /\ [][LimiterNext]_limiterVars

\* For the runs: a behaviour ends where a place has become unsure.
LimiterExplored == unsure = {}

----------------------------------------------------------------------------
(* Properties *)

LimiterTypeOK ==
    /\ clock \in Times /\ limited \in 0..MaxLimited
    /\ scores \in [Buckets -> SUBSET Times]
    /\ touched \in [Buckets -> Times]
    /\ \A r \in Replicas, b \in Buckets : stamps[r][b] \subseteq Times \X Nat
    /\ \A c \in LimitedCalls : limitedCall[c].todo \in Paths \cup {<< >>}
    /\ unsure \subseteq Stores \X Buckets

\* No window of any start holds more requests let through than the limit, as far
\* as one place counts them and none came late or found its bucket evicted.  In
\* Redis requests with one timestamp are one (the member is str(now)); during an
\* outage each process grants the whole limit again.
WindowLimit ==
    \A s \in Stores, b \in Buckets, from \in Times :
      <<s, b>> \notin unsure =>
        LET here == {x \in passed[s][b] : from <= x[1] /\ x[1] < from + Window}
        IN Cardinality(IF s = "redis" THEN StampsOf(here) ELSE here) <= Limit[b]
===============================================================================
