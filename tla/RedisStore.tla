------------------------------ MODULE RedisStore ------------------------------
(***************************************************************************)
(* The Redis server that all replicas of the application share.  The token *)
(* blocklist, the rate limiter and the cache (with the usage counters in   *)
(* it) are clients of it, on disjoint keys, and each of them has its own   *)
(* answer to Redis being away: the memory of the process, or nothing.      *)
(* docker-compose.yml runs it with --appendonly yes, so that an outage     *)
(* loses no keys, and with allkeys-lru, so that a full memory may take any *)
(* key, the ones without an expiry included.                               *)
(***************************************************************************)
EXTENDS Naturals

CONSTANTS
    Replicas,     \* processes that serve requests
    MaxOutages,   \* bound: times Redis goes away
    MaxEvictions  \* bound: keys that Redis evicts

ASSUME RedisBounds == MaxOutages \in Nat /\ MaxEvictions \in Nat

\* The processes have names of their own, apart from the server's.
ASSUME ReplicaNames == "redis" \notin Replicas

VARIABLES
    redisUp,      \* Redis answers
    outages,      \* how many times it has gone away
    evictions,    \* how many keys it has evicted
    adapter       \* the CachePort that Container.cache() has built

redisVars == <<redisUp, outages, evictions, adapter>>

\* Container.cache() decides once: RedisCacheAdapter, or, in development and
\* without Redis, a dictionary in each process.
RedisInit ==
    /\ redisUp = TRUE
    /\ outages = 0
    /\ evictions = 0
    /\ adapter \in {"redis", "memory"}

RedisFails ==
    /\ redisUp
    /\ outages < MaxOutages
    /\ redisUp' = FALSE
    /\ outages' = outages + 1
    /\ UNCHANGED <<evictions, adapter>>

RedisReturns ==
    /\ ~redisUp
    /\ redisUp' = TRUE
    /\ UNCHANGED <<outages, evictions, adapter>>

\* Redis drops a key; what that means is for the client that owns the key.
RedisEvicts ==
    /\ redisUp
    /\ evictions < MaxEvictions
    /\ evictions' = evictions + 1
    /\ UNCHANGED <<redisUp, outages, adapter>>

\* The store in which replica r finds what it has cached, and whether it can
\* be reached: RedisCacheAdapter swallows every error, so that a get finds
\* nothing and a set, delete or increment does nothing.
Stores == Replicas \cup {"redis"}
StoreOf(r) == IF adapter = "redis" THEN "redis" ELSE r
CacheAnswers == adapter = "memory" \/ redisUp

RedisTypeOK ==
    /\ redisUp \in BOOLEAN
    /\ outages \in 0..MaxOutages
    /\ evictions \in 0..MaxEvictions
    /\ adapter \in {"redis", "memory"}
===============================================================================
