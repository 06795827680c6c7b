----------------------------- MODULE AccessTokens -----------------------------
(***************************************************************************)
(* JSON web tokens: the pairs that a sign-in or a refresh issues, the      *)
(* calls that present them, and the blocklist that takes them back before  *)
(* they expire.  A token carries its own expiry; only the blocklist and    *)
(* the users table can refuse it earlier.  The blocklist is a set of keys  *)
(* in Redis and, for as long as Redis does not answer, a dictionary in     *)
(* each process, which no other process sees.                              *)
(***************************************************************************)
EXTENDS RedisStore, Sequences, FiniteSets

CONSTANTS
    Accounts,     \* rows of users
    TokenCalls,   \* slots for calls with a token
    MaxSessions   \* bound: pairs of tokens that are issued

ASSUME SessionsAssumption == MaxSessions \in Nat

VARIABLES
    sessions,     \* the pairs of tokens: whose they are, and their age
    removed,      \* accounts that are deleted
    blocklist,    \* the keys blocklist:jwt:* in Redis
    localList,    \* _local_blocklist of each process
    tokenCall,    \* the calls in hand
    loggedOut     \* history: tokens that were revoked, and the store that took them

tokenVars == <<sessions, removed, blocklist, localList, tokenCall, loggedOut>>

----------------------------------------------------------------------------
(* Data *)

\* Ages of a pair: 0 both tokens are good, 1 the access token ends, 2 it has
\* expired, 3 the refresh token ends, 4 it has expired.  A token "ends" in the
\* two seconds in which it is still accepted (jose compares whole seconds) and
\* int(exp - now) is zero already.
Ages == 0..4
AtEnd == [access |-> 1, refresh |-> 3]

Kinds == {"access", "refresh"}
SessionIds == 1..MaxSessions
Tokens == Kinds \X SessionIds
Issued == {t \in Tokens : t[2] <= Len(sessions)}
AgeOf(t) == sessions[t[2]].age
AccountOf(t) == sessions[t[2]].account

\* decode_token accepts the token; a key for it is still worth setting.
Decodes(t) == AgeOf(t) <= AtEnd[t[1]]
HasTimeLeft(t) == AgeOf(t) < AtEnd[t[1]]

\* The store that answers a process just now.
AnsweringStore(r) == IF redisUp THEN "redis" ELSE r

TokenCallRecords ==
    [pc : {"idle", "checked", "admitted", "changed", "chatting"},
     token : Tokens \cup {<<"none", 0>>}, replica : Replicas \cup {"none"}]
NoTokenCall ==
    [pc |-> "idle", token |-> <<"none", 0>>, replica |-> "none"]

TokensInit ==
    /\ sessions = << >>
    /\ removed = {}
    /\ blocklist = {}
    /\ localList = [r \in Replicas |-> {}]
    /\ tokenCall = [c \in TokenCalls |-> NoTokenCall]
    /\ loggedOut = {}

----------------------------------------------------------------------------
(* Issuing tokens *)

Issue(a) ==
    /\ Len(sessions) < MaxSessions
    /\ sessions' = Append(sessions, [account |-> a, age |-> 0])
    /\ UNCHANGED <<removed, blocklist, localList, tokenCall, loggedOut>>

\* Register, login, Google, dev-login and accept-invite all end in this.
SignIn(a) == a \notin removed /\ Issue(a)

\* /refresh decodes the token and loads the user.  It does not ask the
\* blocklist, and the old refresh token stays good.
RefreshTokens(t) ==
    /\ t \in Issued /\ t[1] = "refresh"
    /\ Decodes(t)
    /\ AccountOf(t) \notin removed
    /\ Issue(AccountOf(t))

----------------------------------------------------------------------------
(* Calls: get_current_user asks the blocklist, then loads the user *)

\* Faulty variant: the dictionary of the process is asked first and its "no"
\* is taken for an answer once it holds anything.
IsRevokedLocalFirst(t, r) ==
    IF redisUp /\ localList[r] = {} THEN t \in blocklist ELSE t \in localList[r]

\* What Redis says, or the dictionary when Redis does not answer; never both.
IsRevoked(t, r) == IF redisUp THEN t \in blocklist ELSE t \in localList[r]

\* The type of the token is not looked at: a refresh token is let in too.
Arrive(c, r, t) ==
    /\ tokenCall[c].pc = "idle"
    /\ t \in Issued /\ Decodes(t)
    /\ ~IsRevoked(t, r)
    /\ tokenCall' = [tokenCall EXCEPT ![c] =
         [pc |-> "checked", token |-> t, replica |-> r]]
    /\ UNCHANGED <<sessions, removed, blocklist, localList, loggedOut>>

\* websocket_chat decodes the token and loads the user, and asks nothing else; the
\* message then goes the way of ChatAssistant.
ChatByWebSocket(c, r, t) ==
    /\ tokenCall[c].pc = "idle"
    /\ t \in Issued /\ Decodes(t)
    /\ AccountOf(t) \notin removed
    /\ tokenCall' = [tokenCall EXCEPT ![c] =
         [pc |-> "chatting", token |-> t, replica |-> r]]
    /\ UNCHANGED <<sessions, removed, blocklist, localList, loggedOut>>

EndCall(c) == tokenCall' = [tokenCall EXCEPT ![c] = NoTokenCall]

\* The user is loaded; is_active is false for no row, as nothing clears it.
Admit(c) ==
    /\ tokenCall[c].pc = "checked"
    /\ IF AccountOf(tokenCall[c].token) \in removed
         THEN EndCall(c)
         ELSE tokenCall' = [tokenCall EXCEPT ![c].pc = "admitted"]
    /\ UNCHANGED <<sessions, removed, blocklist, localList, loggedOut>>

\* Any other endpoint ends here; so does a call that fails or is cut off, which
\* may leave a changed password without a revoked token.
Leave(c) ==
    /\ tokenCall[c].pc # "idle"
    /\ EndCall(c)
    /\ UNCHANGED <<sessions, removed, blocklist, localList, loggedOut>>

----------------------------------------------------------------------------
(* Revoking a token *)

\* TokenBlocklist.revoke of one token, in process r.
Revoke(t, r) ==
    IF ~HasTimeLeft(t)
      THEN UNCHANGED <<blocklist, localList, loggedOut>>
      ELSE /\ loggedOut' = loggedOut \cup {[token |-> t, store |-> AnsweringStore(r)]}
           /\ IF redisUp
                THEN blocklist' = blocklist \cup {t} /\ UNCHANGED localList
                ELSE /\ localList' = [localList EXCEPT ![r] = @ \cup {t}]
                     /\ UNCHANGED blocklist

\* /logout revokes the token it was called with, and that one alone.
Logout(c) ==
    /\ tokenCall[c].pc = "admitted"
    /\ IF Decodes(tokenCall[c].token)
         THEN Revoke(tokenCall[c].token, tokenCall[c].replica)
         ELSE UNCHANGED <<blocklist, localList, loggedOut>>
    /\ EndCall(c)
    /\ UNCHANGED <<sessions, removed>>

\* /change-password commits the new hash first, if the user is still there ...
ChangePassword(c) ==
    /\ tokenCall[c].pc = "admitted"
    /\ IF AccountOf(tokenCall[c].token) \in removed
         THEN EndCall(c)
         ELSE tokenCall' = [tokenCall EXCEPT ![c].pc = "changed"]
    /\ UNCHANGED <<sessions, removed, blocklist, localList, loggedOut>>

\* ... and then revokes the token it was called with, again no other.
RevokeAfterChange(c) ==
    /\ tokenCall[c].pc = "changed"
    /\ IF Decodes(tokenCall[c].token)
         THEN Revoke(tokenCall[c].token, tokenCall[c].replica)
         ELSE UNCHANGED <<blocklist, localList, loggedOut>>
    /\ EndCall(c)
    /\ UNCHANGED <<sessions, removed>>

\* DELETE /me takes the row away and revokes nothing.
RemoveAccount(c) ==
    /\ tokenCall[c].pc = "admitted"
    /\ removed' = removed \cup {AccountOf(tokenCall[c].token)}
    /\ EndCall(c)
    /\ UNCHANGED <<sessions, blocklist, localList, loggedOut>>

----------------------------------------------------------------------------
(* Time, restarts and Redis *)

\* Pairs age in the order in which they were issued, and a key goes with the
\* time its token has left; the local dictionary is pruned to the same effect.
GrowOlder(n) ==
    /\ n <= Len(sessions) /\ sessions[n].age < 4
    /\ \A m \in 1..(n - 1) : sessions[m].age > sessions[n].age
    /\ sessions' = [sessions EXCEPT ![n].age = @ + 1]
    /\ LET over == {t \in Tokens : t[2] = n /\ AtEnd[t[1]] = sessions[n].age + 1}
       IN /\ blocklist' = blocklist \ over
          /\ localList' = [r \in Replicas |-> localList[r] \ over]
          /\ loggedOut' = {o \in loggedOut : o.token \notin over}
    /\ UNCHANGED <<removed, tokenCall>>

Restart(r) ==
    /\ localList' = [localList EXCEPT ![r] = {}]
    /\ tokenCall' = [c \in TokenCalls |->
         IF tokenCall[c].replica = r THEN NoTokenCall ELSE tokenCall[c]]
    /\ loggedOut' = {o \in loggedOut : o.store # r}
    /\ UNCHANGED <<sessions, removed, blocklist>>

\* A key of the blocklist is the one that Redis evicts.
BlockEvicted(t) ==
    /\ RedisEvicts
    /\ t \in blocklist
    /\ blocklist' = blocklist \ {t}
    /\ loggedOut' = loggedOut \ {[token |-> t, store |-> "redis"]}
    /\ UNCHANGED <<sessions, removed, localList, tokenCall>>

TokensNext ==
    \/ UNCHANGED redisVars /\
         \/ \E a \in Accounts : SignIn(a)
         \/ \E t \in Tokens : RefreshTokens(t)
         \/ \E c \in TokenCalls, r \in Replicas, t \in Tokens :
              Arrive(c, r, t) \/ ChatByWebSocket(c, r, t)
         \/ \E c \in TokenCalls :
              \/ Admit(c) \/ Leave(c) \/ Logout(c)
              \/ ChangePassword(c) \/ RevokeAfterChange(c) \/ RemoveAccount(c)
         \/ \E n \in SessionIds : GrowOlder(n)
         \/ \E r \in Replicas : Restart(r)
    \/ (RedisFails \/ RedisReturns) /\ UNCHANGED tokenVars
    \/ \E t \in Tokens : BlockEvicted(t)

TokensSpec == TokensInit /\ [][TokensNext]_tokenVars

\* For the runs: with two pairs, one call at a time.
TokensExplored ==
    Len(sessions) <= 1 \/ Cardinality({c \in TokenCalls : tokenCall[c].pc # "idle"}) <= 1

----------------------------------------------------------------------------
(* Properties *)

TokensTypeOK ==
    /\ \A n \in DOMAIN sessions : sessions[n] \in [account : Accounts, age : Ages]
    /\ Len(sessions) <= MaxSessions
    /\ removed \subseteq Accounts
    /\ blocklist \subseteq Tokens
    /\ localList \in [Replicas -> SUBSET Tokens]
    /\ tokenCall \in [TokenCalls -> TokenCallRecords]
    /\ loggedOut \subseteq [token : Tokens, store : Stores]

\* A call of the HTTP interface with a token that was revoked is not let in: by no
\* process if Redis answered at the revocation and answers now, even with an outage
\* in between, and by the process that revoked it if Redis did not answer then and
\* does not now.  Nothing else is promised: what is revoked during an outage is
\* good elsewhere, and everywhere again once Redis is back (token_blocklist.py);
\* the WebSocket lets it in at any time.
RevokedIsRefused ==
    [][\A c \in TokenCalls :
         (tokenCall[c].pc = "idle" /\ tokenCall'[c].pc = "checked") =>
           [token |-> tokenCall'[c].token,
            store |-> AnsweringStore(tokenCall'[c].replica)] \notin loggedOut]_tokenVars
===============================================================================
