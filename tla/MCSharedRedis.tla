---------------------------- MODULE MCSharedRedis ----------------------------
(***************************************************************************)
(* The clients of Redis on one small instance of it.  Their keys are       *)
(* disjoint and none reads another's state, so that a behaviour of all of  *)
(* them is an interleaving of behaviours of each: one of them, the focus,  *)
(* runs against the server, and every one gets its turn.                   *)
(***************************************************************************)
EXTENDS AccessTokens, RateLimiter, ListingCache, ChatAssistant, TLC

VARIABLE focus

vars == <<redisVars, tokenVars, limiterVars, listingVars, chatVars, focus>>

Init ==
    /\ focus \in {"tokens", "limiter", "listing", "chat"}
    /\ RedisInit
    /\ focus \in {"tokens", "limiter"} => adapter = "redis"
    /\ TokensInit /\ LimiterInit /\ ListingInit /\ ChatInit

Next ==
    \/ focus = "tokens" /\ TokensNext
         /\ UNCHANGED <<limiterVars, listingVars, chatVars, focus>>
    \/ focus = "limiter" /\ LimiterNext
         /\ UNCHANGED <<tokenVars, listingVars, chatVars, focus>>
    \/ focus = "listing" /\ ListingNext
         /\ UNCHANGED <<tokenVars, limiterVars, chatVars, focus>>
    \/ focus = "chat" /\ ChatNext
         /\ UNCHANGED <<tokenVars, limiterVars, listingVars, focus>>

Spec == Init /\ [][Next]_vars

\* Types of the parts.
TypeOK == RedisTypeOK /\ TokensTypeOK /\ LimiterTypeOK /\ ListingTypeOK /\ ChatTypeOK

LimitDef == [b \in Buckets |-> IF b = "invite" THEN 1 ELSE 2]
Symmetry == Permutations(Replicas) \cup Permutations(TokenCalls)
===============================================================================
