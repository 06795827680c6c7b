--------------------------- MODULE SharedRedisProofs ---------------------------
(***************************************************************************)
(* For every number of processes and calls: what the token blocklist       *)
(* refuses, how fresh a cached listing is, and what a window of the rate   *)
(* limiter lets through.                                                   *)
(***************************************************************************)
EXTENDS MCSharedRedis, ChatAssistantProofs, SequenceTheorems, FiniteSetTheorems, TLAPS

-----------------------------------------------------------------------------
(* Tokens: the inductive invariant *)

Sessions == [account : Accounts, age : Ages]

\* The types, and that a call in hand has an issued token and a process.
TokensTypes ==
    /\ sessions \in Seq(Sessions)
    /\ Len(sessions) <= MaxSessions
    /\ removed \subseteq Accounts
    /\ blocklist \subseteq Tokens
    /\ localList \in [Replicas -> SUBSET Tokens]
    /\ tokenCall \in [TokenCalls -> TokenCallRecords]
    /\ loggedOut \subseteq [token : Tokens, store : Stores]
    /\ \A c \in TokenCalls : tokenCall[c].pc # "idle" =>
         tokenCall[c].token \in Issued /\ tokenCall[c].replica \in Replicas

\* A revoked token is still where its revocation was written.
RevokedIsHeld ==
    \A o \in loggedOut :
      IF o.store = "redis" THEN o.token \in blocklist ELSE o.token \in localList[o.store]

TokensInv == TokensTypes /\ RevokedIsHeld

-----------------------------------------------------------------------------
(* Tokens: steps *)

\* No step but one of a call's slot changes the slot.
LEMMA SlotTypes ==
    ASSUME TokensTypes, NEW c \in TokenCalls, NEW r \in TokenCallRecords,
           tokenCall' = [tokenCall EXCEPT ![c] = r],
           r.pc # "idle" => r.token \in Issued /\ r.replica \in Replicas,
           sessions' = sessions
    PROVE  /\ tokenCall' \in [TokenCalls -> TokenCallRecords]
           /\ \A d \in TokenCalls : tokenCall'[d].pc # "idle" =>
                tokenCall'[d].token \in Issued' /\ tokenCall'[d].replica \in Replicas
<1>1. Issued' = Issued
  BY DEF Issued
<1> QED
  BY <1>1 DEF TokensTypes

LEMMA EmptySlot == NoTokenCall \in TokenCallRecords /\ NoTokenCall.pc = "idle"
BY DEF NoTokenCall, TokenCallRecords

\* A pair is issued.
LEMMA IssueKeeps ==
    ASSUME TokensInv, NEW a \in Accounts, Issue(a)
    PROVE  TokensInv'
<1> DEFINE s == [account |-> a, age |-> 0]
<1>1. TokensTypes /\ s \in Sessions /\ sessions' = Append(sessions, s)
  BY DEF TokensInv, Issue, Sessions, Ages
<1> HIDE DEF s
<1>2. sessions' \in Seq(Sessions) /\ Len(sessions') = Len(sessions) + 1
  BY <1>1, AppendProperties DEF TokensTypes
<1>3. Len(sessions') <= MaxSessions
  BY <1>1, <1>2, SessionsAssumption, LenProperties DEF Issue, TokensTypes
<1>4. Issued \subseteq Issued'
  <2>1. Len(sessions) \in Nat
    BY <1>1, LenProperties DEF TokensTypes
  <2> QED
    BY <1>2, <2>1 DEF Issued, Tokens, SessionIds
<1> QED
  BY <1>1, <1>2, <1>3, <1>4 DEF TokensInv, TokensTypes, RevokedIsHeld, Issue

\* An issued token names a pair that is there, and an account.
LEMMA IssuedToken ==
    ASSUME TokensTypes, NEW t \in Issued
    PROVE  /\ t \in Tokens /\ t[2] \in 1..Len(sessions)
           /\ sessions[t[2]] \in Sessions /\ AccountOf(t) \in Accounts
<1>1. t \in Tokens /\ t[2] \in 1..Len(sessions)
  BY DEF Issued, Tokens, SessionIds
<1>2. sessions[t[2]] \in Sessions
  BY <1>1, ElementOfSeq DEF TokensTypes
<1> QED
  BY <1>1, <1>2 DEF AccountOf, Sessions

\* A call arrives, goes on or ends, and what is revoked is left alone.
LEMMA CallKeeps ==
    ASSUME TokensInv, NEW c \in TokenCalls, NEW r \in TokenCallRecords,
           tokenCall' = [tokenCall EXCEPT ![c] = r],
           r.pc # "idle" => r.token \in Issued /\ r.replica \in Replicas,
           removed' \subseteq Accounts,
           UNCHANGED <<sessions, blocklist, localList, loggedOut>>
    PROVE  TokensInv'
<1>1. /\ tokenCall' \in [TokenCalls -> TokenCallRecords]
      /\ \A d \in TokenCalls : tokenCall'[d].pc # "idle" =>
           tokenCall'[d].token \in Issued' /\ tokenCall'[d].replica \in Replicas
  BY SlotTypes DEF TokensInv
<1> QED
  BY <1>1 DEF TokensInv, TokensTypes, RevokedIsHeld

LEMMA GoesOnKeeps ==
    ASSUME TokensInv, NEW c \in TokenCalls, tokenCall[c].pc # "idle",
           NEW pc \in {"admitted", "changed"},
           tokenCall' = [tokenCall EXCEPT ![c].pc = pc],
           UNCHANGED <<sessions, removed, blocklist, localList, loggedOut>>
    PROVE  TokensInv'
<1> DEFINE r == [tokenCall[c] EXCEPT !.pc = pc]
<1>1. /\ r \in TokenCallRecords /\ r.token \in Issued /\ r.replica \in Replicas
      /\ tokenCall' = [tokenCall EXCEPT ![c] = r]
  BY DEF TokensInv, TokensTypes, TokenCallRecords
<1> HIDE DEF r
<1> QED
  BY <1>1, CallKeeps DEF TokensInv, TokensTypes

LEMMA EndKeeps ==
    ASSUME TokensInv, NEW c \in TokenCalls, EndCall(c), removed' \subseteq Accounts,
           UNCHANGED <<sessions, blocklist, localList, loggedOut>>
    PROVE  TokensInv'
BY EmptySlot, CallKeeps DEF EndCall

LEMMA ArriveKeeps ==
    ASSUME TokensInv, NEW c \in TokenCalls, NEW r \in Replicas, NEW t \in Tokens,
           Arrive(c, r, t) \/ ChatByWebSocket(c, r, t)
    PROVE  TokensInv'
<1>1. PICK pc \in {"checked", "chatting"} :
        /\ t \in Issued
        /\ tokenCall' = [tokenCall EXCEPT ![c] = [pc |-> pc, token |-> t, replica |-> r]]
        /\ UNCHANGED <<sessions, removed, blocklist, localList, loggedOut>>
  BY DEF Arrive, ChatByWebSocket
<1> DEFINE call == [pc |-> pc, token |-> t, replica |-> r]
<1>2. call \in TokenCallRecords /\ call.token \in Issued /\ call.replica \in Replicas
  BY <1>1 DEF TokenCallRecords
<1> HIDE DEF call
<1>3. tokenCall' = [tokenCall EXCEPT ![c] = call]
  BY <1>1 DEF call
<1> QED
  BY <1>1, <1>2, <1>3, CallKeeps DEF TokensInv, TokensTypes

\* A revocation is written where it is looked for, and nowhere is one lost.
LEMMA RevokeKeeps ==
    ASSUME TokensInv, NEW c \in TokenCalls, tokenCall[c].pc # "idle",
           \/ Revoke(tokenCall[c].token, tokenCall[c].replica)
           \/ UNCHANGED <<blocklist, localList, loggedOut>>,
           EndCall(c), UNCHANGED <<sessions, removed>>
    PROVE  TokensInv'
<1> DEFINE t == tokenCall[c].token
           r == tokenCall[c].replica
<1>1. TokensTypes /\ RevokedIsHeld /\ t \in Tokens /\ r \in Replicas
  BY IssuedToken DEF TokensInv, TokensTypes
<1> HIDE DEF t, r
<1>2. CASE UNCHANGED <<blocklist, localList, loggedOut>>
  BY <1>1, <1>2, EndKeeps DEF TokensTypes
<1>3. CASE Revoke(t, r) /\ HasTimeLeft(t)
  <2>1. /\ tokenCall' \in [TokenCalls -> TokenCallRecords]
        /\ \A d \in TokenCalls : tokenCall'[d].pc # "idle" =>
             tokenCall'[d].token \in Issued' /\ tokenCall'[d].replica \in Replicas
    BY <1>1, EmptySlot, SlotTypes DEF EndCall
  <2>2. CASE redisUp
    <3>1. /\ loggedOut' = loggedOut \cup {[token |-> t, store |-> "redis"]}
          /\ blocklist' = blocklist \cup {t} /\ localList' = localList
      BY <1>3, <2>2 DEF Revoke, AnsweringStore
    <3>2. TokensTypes'
      BY <1>1, <2>1, <3>1 DEF TokensTypes, Stores
    <3>3. RevokedIsHeld'
      BY <1>1, <3>1 DEF RevokedIsHeld
    <3> QED
      BY <3>2, <3>3 DEF TokensInv
  <2>3. CASE ~redisUp
    <3>1. /\ loggedOut' = loggedOut \cup {[token |-> t, store |-> r]}
          /\ blocklist' = blocklist
          /\ localList' = [localList EXCEPT ![r] = localList[r] \cup {t}]
      BY <1>3, <2>3 DEF Revoke, AnsweringStore
    <3>2. TokensTypes'
      BY <1>1, <2>1, <3>1 DEF TokensTypes, Stores
    <3>3. RevokedIsHeld'
      <4> SUFFICES ASSUME NEW o \in loggedOut'
                   PROVE  IF o.store = "redis" THEN o.token \in blocklist'
                          ELSE o.token \in localList'[o.store]
        BY DEF RevokedIsHeld
      <4>1. CASE o \in loggedOut
        BY <1>1, <3>1, <4>1 DEF RevokedIsHeld, TokensTypes, Stores
      <4>2. CASE o = [token |-> t, store |-> r]
        BY <1>1, <3>1, <4>2, ReplicaNames DEF TokensTypes
      <4> QED
        BY <3>1, <4>1, <4>2
    <3> QED
      BY <3>2, <3>3 DEF TokensInv
  <2> QED
    BY <2>2, <2>3
<1>4. CASE Revoke(t, r) /\ ~HasTimeLeft(t)
  BY <1>2, <1>4 DEF Revoke
<1> QED
  BY <1>2, <1>3, <1>4 DEF t, r

\* A pair grows older; what its tokens had in the blocklist goes with them.
LEMMA OlderKeeps ==
    ASSUME TokensInv, NEW n \in SessionIds, GrowOlder(n)
    PROVE  TokensInv'
<1> DEFINE over == {t \in Tokens : t[2] = n /\ AtEnd[t[1]] = sessions[n].age + 1}
           s == [sessions[n] EXCEPT !.age = @ + 1]
<1>1. TokensTypes /\ RevokedIsHeld /\ n \in 1..Len(sessions)
  BY DEF TokensInv, GrowOlder, SessionIds
<1>2. sessions[n] \in Sessions
  BY <1>1, ElementOfSeq DEF TokensTypes
<1>3. s \in Sessions
  BY <1>2 DEF Sessions, Ages, GrowOlder
<1>4. /\ sessions' = [sessions EXCEPT ![n] = s]
      /\ blocklist' = blocklist \ over
      /\ localList' = [r \in Replicas |-> localList[r] \ over]
      /\ loggedOut' = {o \in loggedOut : o.token \notin over}
      /\ UNCHANGED <<removed, tokenCall>>
  BY DEF GrowOlder
<1> HIDE DEF s, over
<1>5. sessions' \in Seq(Sessions) /\ Len(sessions') = Len(sessions)
  BY <1>1, <1>3, <1>4, ExceptSeq DEF TokensTypes
<1>6. Issued' = Issued
  BY <1>5 DEF Issued
<1>7. TokensTypes'
  BY <1>1, <1>4, <1>5, <1>6 DEF TokensTypes
<1>8. RevokedIsHeld'
  BY <1>1, <1>4 DEF RevokedIsHeld, TokensTypes, Stores
<1> QED
  BY <1>7, <1>8 DEF TokensInv

\* The lists, calls and revocations of a process go together.
LEMMA RestartKeeps ==
    ASSUME TokensInv, NEW r \in Replicas, Restart(r)
    PROVE  TokensInv'
<1>1. TokensTypes /\ RevokedIsHeld /\ Issued' = Issued
  BY DEF TokensInv, Restart, Issued
<1>2. TokensTypes'
  BY <1>1, EmptySlot DEF TokensTypes, Restart
<1>3. RevokedIsHeld'
  BY <1>1, ReplicaNames DEF RevokedIsHeld, TokensTypes, Stores, Restart
<1> QED
  BY <1>2, <1>3 DEF TokensInv

LEMMA EvictedKeeps ==
    ASSUME TokensInv, NEW t \in Tokens, BlockEvicted(t)
    PROVE  TokensInv'
<1>1. TokensTypes /\ RevokedIsHeld /\ Issued' = Issued
  BY DEF TokensInv, BlockEvicted, Issued
<1>2. TokensTypes'
  BY <1>1 DEF TokensTypes, BlockEvicted
<1>3. RevokedIsHeld'
  <2> SUFFICES ASSUME NEW o \in loggedOut'
               PROVE  IF o.store = "redis" THEN o.token \in blocklist'
                      ELSE o.token \in localList'[o.store]
    BY DEF RevokedIsHeld
  <2>1. o \in loggedOut /\ o # [token |-> t, store |-> "redis"]
    BY DEF BlockEvicted
  <2>2. o.store = "redis" => o.token # t
    BY <1>1, <2>1 DEF TokensTypes
  <2> QED
    BY <1>1, <2>1, <2>2 DEF RevokedIsHeld, BlockEvicted
<1> QED
  BY <1>2, <1>3 DEF TokensInv

LEMMA InitTokensInv == TokensInit => TokensInv
BY EmptySlot, SessionsAssumption
   DEF TokensInit, TokensInv, TokensTypes, RevokedIsHeld, Sessions

LEMMA StepKeepsTokensInv == TokensInv /\ [TokensNext]_tokenVars => TokensInv'
<1> SUFFICES ASSUME TokensInv, [TokensNext]_tokenVars PROVE TokensInv'
  OBVIOUS
<1>1. CASE UNCHANGED tokenVars
  BY <1>1 DEF tokenVars, TokensInv, TokensTypes, RevokedIsHeld, Issued
<1>2. ASSUME NEW a \in Accounts, SignIn(a) PROVE TokensInv'
  BY <1>2, IssueKeeps DEF SignIn
<1>3. ASSUME NEW t \in Tokens, RefreshTokens(t) PROVE TokensInv'
  <2>1. AccountOf(t) \in Accounts
    BY <1>3, IssuedToken DEF RefreshTokens, TokensInv
  <2> QED
    BY <1>3, <2>1, IssueKeeps DEF RefreshTokens
<1>4. ASSUME NEW c \in TokenCalls, NEW r \in Replicas, NEW t \in Tokens,
             Arrive(c, r, t) \/ ChatByWebSocket(c, r, t)
      PROVE  TokensInv'
  BY <1>4, ArriveKeeps
<1>5. ASSUME NEW c \in TokenCalls, Admit(c) \/ ChangePassword(c) PROVE TokensInv'
  BY <1>5, EndKeeps, GoesOnKeeps DEF Admit, ChangePassword, TokensInv, TokensTypes
<1>6. ASSUME NEW c \in TokenCalls, Leave(c) PROVE TokensInv'
  BY <1>6, EndKeeps DEF Leave, TokensInv, TokensTypes
<1>7. ASSUME NEW c \in TokenCalls, Logout(c) \/ RevokeAfterChange(c) PROVE TokensInv'
  <2>1. /\ tokenCall[c].pc # "idle" /\ EndCall(c) /\ UNCHANGED <<sessions, removed>>
        /\ \/ Revoke(tokenCall[c].token, tokenCall[c].replica)
           \/ UNCHANGED <<blocklist, localList, loggedOut>>
    BY <1>7 DEF Logout, RevokeAfterChange
  <2> QED
    BY <2>1, RevokeKeeps
<1>8. ASSUME NEW c \in TokenCalls, RemoveAccount(c) PROVE TokensInv'
  <2>1. AccountOf(tokenCall[c].token) \in Accounts
    BY <1>8, IssuedToken DEF RemoveAccount, TokensInv, TokensTypes
  <2> QED
    BY <1>8, <2>1, EndKeeps DEF RemoveAccount, TokensInv, TokensTypes
<1>9. ASSUME NEW n \in SessionIds, GrowOlder(n) PROVE TokensInv'
  BY <1>9, OlderKeeps
<1>10. ASSUME NEW r \in Replicas, Restart(r) PROVE TokensInv'
  BY <1>10, RestartKeeps
<1>11. ASSUME NEW t \in Tokens, BlockEvicted(t) PROVE TokensInv'
  BY <1>11, EvictedKeeps
<1> QED
  BY <1>1, <1>2, <1>3, <1>4, <1>5, <1>6, <1>7, <1>8, <1>9, <1>10, <1>11 DEF TokensNext

-----------------------------------------------------------------------------
(* Tokens: theorems *)

\* A revoked token stays in the store that took its revocation until it expires,
\* is evicted or the process starts again.
THEOREM TokensInvAlways == TokensSpec => []TokensInv
BY InitTokensInv, StepKeepsTokensInv, PTL DEF TokensSpec

\* The parts of the token store keep their types.
THEOREM TokensTypesHold == TokensSpec => []TokensTypeOK
<1>1. TokensInv => TokensTypeOK
  <2> SUFFICES ASSUME TokensInv PROVE TokensTypeOK
    OBVIOUS
  <2>1. \A n \in DOMAIN sessions : sessions[n] \in Sessions
    BY ElementOfSeq, LenProperties DEF TokensInv, TokensTypes
  <2> QED
    BY <2>1 DEF TokensInv, TokensTypes, TokensTypeOK, Sessions
<1> QED
  BY <1>1, TokensInvAlways, PTL

\* No process lets in a call with a token whose revocation was written to the store
\* that it asks, whatever outages, evictions of other keys and restarts lie between.
THEOREM RevokedStaysOut == TokensSpec => RevokedIsRefused
<1>1. TokensInv /\ [TokensNext]_tokenVars =>
        [\A c \in TokenCalls :
           (tokenCall[c].pc = "idle" /\ tokenCall'[c].pc = "checked") =>
             [token |-> tokenCall'[c].token,
              store |-> AnsweringStore(tokenCall'[c].replica)] \notin loggedOut]_tokenVars
  <2> SUFFICES ASSUME TokensInv, [TokensNext]_tokenVars, NEW c \in TokenCalls,
                      tokenCall[c].pc = "idle", tokenCall'[c].pc = "checked"
               PROVE  [token |-> tokenCall'[c].token,
                       store |-> AnsweringStore(tokenCall'[c].replica)] \notin loggedOut
    OBVIOUS
  <2>1. tokenCall \in [TokenCalls -> TokenCallRecords] /\ NoTokenCall.pc = "idle"
    BY EmptySlot DEF TokensInv, TokensTypes
  <2>2. \E r \in Replicas, t \in Tokens : Arrive(c, r, t)
    <3>1. \A d \in TokenCalls, r \in Replicas, t \in Tokens :
            (Arrive(d, r, t) => d = c) /\ ~ChatByWebSocket(d, r, t)
      BY <2>1 DEF Arrive, ChatByWebSocket
    <3>2. \A d \in TokenCalls :
            ~Admit(d) /\ ~Leave(d) /\ ~Logout(d) /\ ~ChangePassword(d)
            /\ ~RevokeAfterChange(d) /\ ~RemoveAccount(d)
      BY <2>1 DEF Admit, Leave, Logout, ChangePassword, RevokeAfterChange, RemoveAccount,
                  EndCall
    <3>3. tokenCall' # tokenCall /\ \A r \in Replicas : ~Restart(r)
      BY <2>1 DEF Restart
    <3> QED
      BY <3>1, <3>2, <3>3
         DEF TokensNext, tokenVars, SignIn, RefreshTokens, Issue, GrowOlder, BlockEvicted
  <2> PICK r \in Replicas, t \in Tokens : Arrive(c, r, t)
    BY <2>2
  <2>3. /\ tokenCall'[c].token = t /\ tokenCall'[c].replica = r
        /\ IF redisUp THEN t \notin blocklist ELSE t \notin localList[r]
    BY <2>1 DEF Arrive, IsRevoked
  <2> QED
    BY <2>3, ReplicaNames DEF AnsweringStore, TokensInv, RevokedIsHeld
<1> QED
  BY <1>1, TokensInvAlways, PTL DEF TokensSpec, RevokedIsRefused

-----------------------------------------------------------------------------
(* Listings: the inductive invariant *)

ListCallRecords == [pc : ListSteps, replica : Replicas \cup {"none"}, of : Listings]
CacheEntries == [is : BOOLEAN, of : Listings]

\* The types, and that a call in hand has a process.
ListingTypes ==
    /\ calendar \in Listings
    /\ cached \in [Stores -> CacheEntries]
    /\ listCall \in [ListCalls -> ListCallRecords]
    /\ \A c \in ListCalls : listCall[c].pc # "idle" => listCall[c].replica \in Replicas
    /\ answer \in {"none", "listing", "error"}
    /\ finished \in Versions
    /\ missed \subseteq Stores

\* Nothing has ended that the calendar does not know yet.
CalendarIsAhead ==
    /\ finished <= calendar.version
    /\ \A c \in ListCalls : listCall[c].pc = "invalidate" =>
         listCall[c].of.version <= calendar.version

ListingInv == ListingTypes /\ CalendarIsAhead /\ ListingsAreCurrent

-----------------------------------------------------------------------------
(* Listings: steps *)

LEMMA EmptyListing ==
    /\ NoListCall \in ListCallRecords /\ NoListCall.pc = "idle"
    /\ NoEntry \in CacheEntries /\ ~NoEntry.is /\ Nothing \in Listings
    /\ 0 \in Versions
BY ChangesAssumption
   DEF NoListCall, ListCallRecords, ListSteps, NoEntry, CacheEntries, Nothing, Listings, Versions

\* A call goes on to another step, with a change the calendar knows.
LEMMA ListContinues ==
    ASSUME ListingInv, NEW c \in ListCalls, NEW pc \in {"read", "store", "invalidate"},
           NEW r \in Replicas, NEW of \in Listings, Continue(c, pc, r, of),
           calendar' \in Listings, calendar.version <= calendar'.version,
           pc = "invalidate" => of.version <= calendar'.version,
           UNCHANGED <<cached, answer, finished, missed>>
    PROVE  ListingInv'
<1> DEFINE call == [pc |-> pc, replica |-> r, of |-> of]
<1>1. /\ call \in ListCallRecords /\ call.pc = pc /\ call.replica = r /\ call.of = of
      /\ listCall' = [listCall EXCEPT ![c] = call]
  BY DEF ListCallRecords, ListSteps, Continue
<1> HIDE DEF call
<1>2. ListingTypes'
  BY <1>1 DEF ListingInv, ListingTypes
<1>3. CalendarIsAhead'
  <2>1. /\ finished \in Nat /\ calendar.version \in Nat /\ calendar'.version \in Nat
        /\ \A d \in ListCalls : listCall[d].of.version \in Nat
    BY DEF ListingInv, ListingTypes, ListCallRecords, Listings, Versions
  <2> QED
    BY <1>1, <2>1 DEF ListingInv, ListingTypes, CalendarIsAhead
<1>4. ListingsAreCurrent'
  BY DEF ListingInv, ListingsAreCurrent
<1> QED
  BY <1>2, <1>3, <1>4 DEF ListingInv

\* A call ends, and whatever else it leaves is typed and ended before.
LEMMA ListEnds ==
    ASSUME ListingTypes, CalendarIsAhead, NEW c \in ListCalls, EndListCall(c),
           calendar' = calendar, cached' \in [Stores -> CacheEntries],
           answer' \in {"none", "listing", "error"}, missed' \subseteq Stores,
           finished' \in Versions, finished' <= calendar.version
    PROVE  ListingTypes' /\ CalendarIsAhead'
<1>1. listCall' = [listCall EXCEPT ![c] = NoListCall]
  BY DEF EndListCall
<1>2. ListingTypes'
  BY <1>1, EmptyListing DEF ListingTypes
<1>3. CalendarIsAhead'
  BY <1>1, EmptyListing DEF ListingTypes, CalendarIsAhead
<1> QED
  BY <1>2, <1>3

LEMMA HitKeeps ==
    ASSUME ListingInv, NEW c \in ListCalls, NEW r \in Replicas, ListHit(c, r)
    PROVE  ListingInv'
BY DEF ListingInv, ListingTypes, CalendarIsAhead, ListingsAreCurrent, ListHit, Returned

LEMMA ListMissKeeps ==
    ASSUME ListingInv, NEW c \in ListCalls, NEW r \in Replicas, ListMiss(c, r)
    PROVE  ListingInv'
<1>1. calendar' = calendar /\ calendar \in Listings /\ calendar.version \in Nat
  BY DEF ListMiss, ListingInv, ListingTypes, Listings, Versions
<1> QED
  BY <1>1, EmptyListing, ListContinues DEF ListMiss

LEMMA ReadKeeps ==
    ASSUME ListingInv, NEW c \in ListCalls, ReadCalendar(c)
    PROVE  ListingInv'
<1>1. /\ calendar' = calendar /\ calendar \in Listings /\ calendar.version \in Nat
      /\ listCall[c].replica \in Replicas
  BY DEF ReadCalendar, ListingInv, ListingTypes, Listings, Versions
<1> QED
  BY <1>1, ListContinues DEF ReadCalendar

LEMMA ChangeKeeps ==
    ASSUME ListingInv, NEW c \in ListCalls, NEW r \in Replicas, NEW some \in BOOLEAN,
           Change(c, r, some)
    PROVE  ListingInv'
<1>1. calendar' \in Listings /\ calendar.version <= calendar'.version
      /\ calendar'.version <= calendar'.version
  BY ChangesAssumption DEF Change, ListingInv, ListingTypes, Listings, Versions
<1> QED
  BY <1>1, ListContinues DEF Change

\* A listing is stored: it is the calendar's, or its store is missed.
LEMMA StoreKeeps ==
    ASSUME ListingInv, NEW c \in ListCalls, StoreListing(c)
    PROVE  ListingInv'
<1> DEFINE s == StoreOf(listCall[c].replica)
           entry == [is |-> TRUE, of |-> listCall[c].of]
<1>1. ListingTypes /\ CalendarIsAhead /\ ListingsAreCurrent
  BY DEF ListingInv
<1>2. s \in Stores /\ entry \in CacheEntries /\ entry.of = listCall[c].of
  BY <1>1 DEF StoreListing, ListingTypes, ListCallRecords, StoreOf, Stores, CacheEntries
<1>3. /\ EndListCall(c) /\ answer' = "listing" /\ UNCHANGED <<calendar, finished>>
      /\ \/ /\ cached' = [cached EXCEPT ![s] = entry]
            /\ missed' = IF entry.of = calendar THEN missed \ {s} ELSE missed \cup {s}
         \/ UNCHANGED <<cached, missed>>
  BY <1>2 DEF StoreListing
<1> HIDE DEF s, entry
<1>4. cached' \in [Stores -> CacheEntries] /\ missed' \subseteq Stores
  BY <1>1, <1>2, <1>3 DEF ListingTypes
<1>5. ListingTypes' /\ CalendarIsAhead'
  BY <1>1, <1>3, <1>4, ListEnds DEF ListingTypes, CalendarIsAhead
<1>6. ListingsAreCurrent'
  BY <1>1, <1>2, <1>3 DEF ListingsAreCurrent, ListingTypes, CalendarIsAhead
<1> QED
  BY <1>5, <1>6 DEF ListingInv

\* A change ends: what it emptied is gone, what it could not reach is missed.
LEMMA InvalidateKeeps ==
    ASSUME ListingInv, NEW c \in ListCalls, Invalidate(c)
    PROVE  ListingInv'
<1> DEFINE own == IF CacheAnswers THEN {StoreOf(listCall[c].replica)} ELSE {}
<1>1. ListingTypes /\ CalendarIsAhead
  BY DEF ListingInv
<1>2. /\ EndListCall(c) /\ UNCHANGED <<calendar, answer>>
      /\ cached' = [s \in Stores |-> IF s \in own THEN NoEntry ELSE cached[s]]
      /\ missed' = (missed \ own) \cup {s \in Stores \ own : cached[s].is}
      /\ finished' = IF listCall[c].of.version > finished
                       THEN listCall[c].of.version ELSE finished
      /\ listCall[c].pc = "invalidate"
  BY DEF Invalidate
<1> HIDE DEF own
<1>3. cached' \in [Stores -> CacheEntries] /\ missed' \subseteq Stores
  BY <1>1, <1>2, EmptyListing DEF ListingTypes
<1>4. finished' \in Versions /\ finished' <= calendar.version
  BY <1>1, <1>2 DEF ListingTypes, CalendarIsAhead, ListCallRecords, Listings
<1>5. ListingTypes' /\ CalendarIsAhead'
  BY <1>1, <1>2, <1>3, <1>4, ListEnds DEF ListingTypes
<1>6. ListingsAreCurrent'
  BY <1>1, <1>2, EmptyListing DEF ListingsAreCurrent, ListingTypes
<1> QED
  BY <1>5, <1>6 DEF ListingInv

LEMMA FailKeeps ==
    ASSUME ListingInv, NEW c \in ListCalls, FailListCall(c)
    PROVE  ListingInv'
<1>1. ListingTypes' /\ CalendarIsAhead'
  BY ListEnds DEF FailListCall, ListingInv, ListingTypes, CalendarIsAhead
<1> QED
  BY <1>1 DEF ListingInv, ListingsAreCurrent, FailListCall

LEMMA ElsewhereKeeps ==
    ASSUME ListingInv, NEW some \in BOOLEAN, ChangeElsewhere(some)
    PROVE  ListingInv'
<1>1. /\ calendar' \in Listings /\ calendar'.version = calendar.version + 1
      /\ calendar.version \in Nat /\ finished' \in Versions
      /\ finished' = calendar.version + 1
  BY ChangesAssumption DEF ChangeElsewhere, ListingInv, ListingTypes, Listings, Versions
<1>2. ListingTypes'
  BY <1>1 DEF ListingInv, ListingTypes, ChangeElsewhere
<1>3. CalendarIsAhead'
  BY <1>1 DEF ListingInv, ListingTypes, CalendarIsAhead, ListCallRecords, Listings,
              Versions, ChangeElsewhere
<1>4. ListingsAreCurrent'
  BY DEF ListingsAreCurrent, ChangeElsewhere
<1> QED
  BY <1>2, <1>3, <1>4 DEF ListingInv

LEMMA ForgetKeeps ==
    ASSUME ListingInv, NEW s \in Stores, ForgetListing(s)
    PROVE  ListingInv'
<1>1. ListingTypes' /\ CalendarIsAhead'
  BY EmptyListing DEF ListingInv, ListingTypes, CalendarIsAhead, ForgetListing
<1>2. ListingsAreCurrent'
  BY EmptyListing DEF ListingInv, ListingTypes, ListingsAreCurrent, ForgetListing
<1> QED
  BY <1>1, <1>2 DEF ListingInv

LEMMA InitListingInv == ListingInit => ListingInv
BY EmptyListing, ChangesAssumption
   DEF ListingInit, ListingInv, ListingTypes, CalendarIsAhead, ListingsAreCurrent, Nothing

LEMMA StepKeepsListingInv == ListingInv /\ [ListingNext]_listingVars => ListingInv'
<1> SUFFICES ASSUME ListingInv, [ListingNext]_listingVars PROVE ListingInv'
  OBVIOUS
<1>1. CASE UNCHANGED listingVars
  BY <1>1 DEF listingVars, ListingInv, ListingTypes, CalendarIsAhead, ListingsAreCurrent
<1>2. CASE ListingNext
  BY <1>1, <1>2, HitKeeps, ListMissKeeps, ChangeKeeps, ReadKeeps, StoreKeeps, InvalidateKeeps,
     FailKeeps, ElsewhereKeeps, ForgetKeeps DEF ListingNext
<1> QED
  BY <1>1, <1>2

-----------------------------------------------------------------------------
(* Listings: theorems *)

\* No change has ended that the calendar does not know, and what the cache holds
\* beside is either current or missed.
THEOREM ListingInvAlways == ListingSpec => []ListingInv
BY InitListingInv, StepKeepsListingInv, PTL DEF ListingSpec

\* However listings, changes and outages interleave, a listing in a store that no
\* change missed knows every change whose request has ended.
THEOREM FreshUnlessMissed == ListingSpec => []ListingsAreCurrent
<1>1. ListingInv => ListingsAreCurrent
  BY DEF ListingInv
<1> QED
  BY <1>1, ListingInvAlways, PTL

\* The parts of the listing cache keep their types.
THEOREM ListingTypesHold == ListingSpec => []ListingTypeOK
<1>1. ListingInv => ListingTypeOK
  BY DEF ListingInv, ListingTypes, ListingTypeOK, ListCallRecords, CacheEntries
<1> QED
  BY <1>1, ListingInvAlways, PTL

-----------------------------------------------------------------------------
(* Limiter: the inductive invariant *)

Lists == {l \in SUBSET (Times \X Nat) : IsFiniteSet(l)}
LimitedCallRecords ==
    [todo : Paths \cup {<< >>}, now : Times, replica : Replicas \cup {"none"}]

LimiterTypes ==
    /\ clock \in Times
    /\ scores \in [Buckets -> SUBSET Times]
    /\ touched \in [Buckets -> Times]
    /\ stamps \in [Replicas -> [Buckets -> Lists]]
    /\ limitedCall \in [LimitedCalls -> LimitedCallRecords]
    /\ \A c \in LimitedCalls :
         limitedCall[c].todo # << >> => limitedCall[c].replica \in Replicas
    /\ passed \in [Stores -> [Buckets -> Lists]]

\* What Redis has let through is still a member, or a whole window behind one.
InRedis(b) ==
    <<"redis", b>> \notin unsure =>
      \A p \in passed["redis"][b] : \E u \in scores[b] : p[1] = u \/ p[1] + Window <= u

\* What a process has let through is still in its list, or a whole window behind an
\* entry, or behind as many entries as the limit allows: a request that is refused
\* prunes the list and leaves no entry of its own.
InProcess(r, b) ==
    <<r, b>> \notin unsure =>
      /\ stamps[r][b] \subseteq passed[r][b]
      /\ \A p \in passed[r][b] \ stamps[r][b] :
           \/ \E x \in stamps[r][b] : p[1] + Window <= x[1]
           \/ Limit[b] <= Cardinality({x \in stamps[r][b] : p[1] < x[1]})

\* WindowLimit, place by place.
InWindow(s, b, from) == {x \in passed[s][b] : from <= x[1] /\ x[1] < from + Window}
Counted(s, list) == IF s = "redis" THEN StampsOf(list) ELSE list
LimitAt(s, b) ==
    <<s, b>> \notin unsure =>
      \A from \in Times : Cardinality(Counted(s, InWindow(s, b, from))) <= Limit[b]

RedisPlace(b) == InRedis(b) /\ LimitAt("redis", b)
ProcessPlace(r, b) == InProcess(r, b) /\ LimitAt(r, b)
LimiterInv ==
    LimiterTypes /\ \A b \in Buckets : RedisPlace(b) /\ \A r \in Replicas : ProcessPlace(r, b)

-----------------------------------------------------------------------------
(* Limiter: lists of timestamps *)

LEMMA LimitsAndTimes ==
    /\ \A b \in Buckets : Limit[b] \in Nat \ {0} /\ Ceiling(b) = Limit[b]
    /\ Window \in Nat \ {0} /\ MaxTime \in Nat \ {0} /\ Times \subseteq Nat /\ 0 \in Times
    /\ IsFiniteSet(Times)
<1>1. IsFiniteSet(Times)
  BY LimiterAssumption, FS_Interval DEF Times
<1> QED
  BY <1>1, LimiterAssumption DEF Buckets, Ceiling, Times

\* A list with one more entry is a list.
LEMMA AddToList ==
    ASSUME NEW l \in Lists, NEW t \in Times
    PROVE  Add(l, t) \in Lists
<1>1. {x \in l : x[1] = t} \in SUBSET l /\ IsFiniteSet(l)
  BY DEF Lists
<1>2. Cardinality({x \in l : x[1] = t}) \in Nat
  BY <1>1, FS_Subset, FS_CardinalityType
<1>3. <<t, 1 + Cardinality({x \in l : x[1] = t})>> \in Times \X Nat
  BY <1>2
<1>4. IsFiniteSet(Add(l, t))
  BY <1>1, FS_AddElement DEF Add
<1> QED
  BY <1>3, <1>4 DEF Add, Lists

LEMMA NoStamps == {} \in Lists
BY FS_EmptySet DEF Lists

\* One element more than a set that is smaller than n.
LEMMA OneMore ==
    ASSUME NEW K, IsFiniteSet(K), NEW e, NEW n \in Nat, Cardinality(K) < n,
           NEW H \in SUBSET (K \cup {e})
    PROVE  Cardinality(H) <= n
<1> DEFINE k == Cardinality(K)
           m == Cardinality(K \cup {e})
<1>0. k \in Nat /\ IsFiniteSet(K \cup {e}) /\ (m = IF e \in K THEN k ELSE k + 1)
  BY FS_AddElement, FS_CardinalityType
<1>1. m <= k + 1 /\ k \in Nat /\ IsFiniteSet(K \cup {e})
  <2> HIDE DEF k, m
  <2> QED
    BY <1>0
<1>2. Cardinality(H) <= Cardinality(K \cup {e}) /\ IsFiniteSet(H)
  BY <1>1, FS_Subset
<1>3. Cardinality(H) \in Nat /\ Cardinality(K \cup {e}) \in Nat
  BY <1>1, <1>2, FS_CardinalityType
<1> QED
  BY <1>1, <1>2, <1>3

-----------------------------------------------------------------------------
(* Limiter: steps *)

\* A place that a step leaves alone.
LEMMA PlaceKeeps ==
    ASSUME NEW s, NEW b \in Buckets, passed'[s][b] = passed[s][b],
           (<<s, b>> \in unsure)' <=> <<s, b>> \in unsure
    PROVE  /\ LimitAt(s, b) => LimitAt(s, b)'
           /\ s = "redis" /\ InRedis(b) /\ scores'[b] = scores[b] => InRedis(b)'
           /\ InProcess(s, b) /\ stamps'[s][b] = stamps[s][b] => InProcess(s, b)'
<1>1. LimitAt(s, b) => LimitAt(s, b)'
  BY DEF LimitAt, InWindow
<1>2. s = "redis" /\ InRedis(b) /\ scores'[b] = scores[b] => InRedis(b)'
  BY DEF InRedis
<1>3. InProcess(s, b) /\ stamps'[s][b] = stamps[s][b] => InProcess(s, b)'
  BY DEF InProcess
<1> QED
  BY <1>1, <1>2, <1>3

LEMMA EmptyCall == NoLimitedCall \in LimitedCallRecords /\ NoLimitedCall.todo = << >>
BY LimitsAndTimes DEF NoLimitedCall, LimitedCallRecords

\* An answer ends the request or leaves the general limit to ask.
LEMMA AnswerTypes ==
    ASSUME LimiterTypes, NEW c \in LimitedCalls, NEW allowed \in BOOLEAN,
           limitedCall[c].todo # << >>, Answer(c, allowed)
    PROVE  /\ limitedCall' \in [LimitedCalls -> LimitedCallRecords]
           /\ \A d \in LimitedCalls :
                limitedCall'[d].todo # << >> => limitedCall'[d].replica \in Replicas
<1>1. limitedCall[c].todo \in {<<"general">>, <<"invite", "general">>}
      /\ limitedCall[c].replica \in Replicas
  BY DEF LimiterTypes, LimitedCallRecords, Paths
<1>2. Len(limitedCall[c].todo) > 1 => Tail(limitedCall[c].todo) = <<"general">>
  <2>1. CASE limitedCall[c].todo = <<"general">>
    BY <2>1
  <2>2. CASE limitedCall[c].todo = <<"invite", "general">>
    <3>1. Tail(<<"invite", "general">>) = <<"general">>
      OBVIOUS
    <3> QED
      BY <2>2, <3>1
  <2> QED
    BY <1>1, <2>1, <2>2
<1> DEFINE r == [todo |-> <<"general">>, now |-> clock, replica |-> limitedCall[c].replica]
<1>3. r \in LimitedCallRecords /\ r.replica \in Replicas
  BY <1>1 DEF LimitedCallRecords, LimiterTypes, Paths
<1>4. \/ limitedCall' = [limitedCall EXCEPT ![c] = r]
      \/ limitedCall' = [limitedCall EXCEPT ![c] = NoLimitedCall]
  BY <1>2 DEF Answer
<1> HIDE DEF r
<1> QED
  BY <1>3, <1>4, EmptyCall DEF LimiterTypes

\* The bucket, time and process of a request in the middleware.
LEMMA CallTypes ==
    ASSUME LimiterTypes, NEW c \in LimitedCalls, limitedCall[c].todo # << >>
    PROVE  /\ Head(limitedCall[c].todo) \in Buckets /\ limitedCall[c].now \in Times
           /\ limitedCall[c].replica \in Replicas
<1>1. limitedCall[c].todo \in {<<"general">>, <<"invite", "general">>}
  BY DEF LimiterTypes, LimitedCallRecords, Paths
<1>2. Head(<<"general">>) = "general" /\ Head(<<"invite", "general">>) = "invite"
  OBVIOUS
<1> QED
  BY <1>1, <1>2 DEF LimiterTypes, LimitedCallRecords, Buckets

\* What Record says of the place it is about, and of the others.
LEMMA RecordEffect ==
    ASSUME LimiterTypes, NEW s \in Stores, NEW b \in Buckets, NEW t \in Times,
           NEW allowed \in BOOLEAN, NEW late \in BOOLEAN, Record(s, b, t, allowed, late)
    PROVE  /\ passed' \in [Stores -> [Buckets -> Lists]]
           /\ \A q \in Stores, o \in Buckets : q # s \/ o # b =>
                /\ passed'[q][o] = passed[q][o]
                /\ (<<q, o>> \in unsure)' <=> <<q, o>> \in unsure
           /\ <<s, b>> \notin unsure' =>
                /\ ~late /\ <<s, b>> \notin unsure
                /\ passed'[s][b] = IF allowed THEN Add(passed[s][b], t) ELSE passed[s][b]
<1> DEFINE doubt == late \/ <<s, b>> \in unsure
           list == IF doubt THEN {} ELSE IF allowed THEN Add(passed[s][b], t) ELSE passed[s][b]
<1>1. list \in Lists
  BY AddToList, NoStamps DEF LimiterTypes
<1>2. /\ unsure' = IF doubt THEN unsure \cup {<<s, b>>} ELSE unsure
      /\ passed' = [passed EXCEPT ![s][b] = list]
  BY DEF Record
<1>3. passed' \in [Stores -> [Buckets -> Lists]] /\ passed'[s][b] = list
  <2> HIDE DEF list
  <2> QED
    BY <1>1, <1>2 DEF LimiterTypes
<1>4. \A q \in Stores, o \in Buckets : q # s \/ o # b => passed'[q][o] = passed[q][o]
  <2> HIDE DEF list
  <2> QED
    BY <1>2 DEF LimiterTypes
<1> QED
  BY <1>2, <1>3, <1>4

\* What Add adds is stamped t.
LEMMA AddedStamp ==
    ASSUME NEW l \in Lists, NEW t \in Times
    PROVE  /\ l \subseteq Add(l, t)
           /\ \A p \in Add(l, t) \ l : p[1] = t
           /\ \A p \in Add(l, t) : p[1] \in Nat
<1>1. \A p \in Add(l, t) : p[1] \in Nat
  BY AddToList, LimitsAndTimes DEF Lists
<1> QED
  BY <1>1 DEF Add

\* A request that Redis counts in time: whatever was let through and is in a window
\* with it is a member of the sorted set still.
LEMMA RedisCounts ==
    ASSUME LimiterInv, NEW c \in LimitedCalls, CheckRedis(c)
    PROVE  LimiterInv'
<1>0. limitedCall[c].todo # << >> /\ LimiterTypes
  BY DEF CheckRedis, LimiterInv
<1> PICK t \in Times, b \in Buckets :
      t = limitedCall[c].now /\ b = Head(limitedCall[c].todo)
  BY <1>0, CallTypes
<1> DEFINE alive == clock <= touched[b] + Window
           inWindow == {u \in scores[b] : u + Window > t}
           kept == IF alive THEN inWindow ELSE {}
           allowed == Cardinality(kept) < Ceiling(b)
           late == kept # inWindow \/ \E u \in kept : u > t
<1>1. /\ scores' = [scores EXCEPT ![b] = kept \cup {t}]
      /\ touched' = [touched EXCEPT ![b] = clock]
      /\ Record("redis", b, t, allowed, late)
      /\ Answer(c, allowed)
      /\ UNCHANGED <<clock, stamps, limited>>
  BY DEF CheckRedis
<1>2. LimiterTypes /\ t \in Times /\ b \in Buckets
  BY <1>0
<1>3. kept \in SUBSET scores[b] /\ scores[b] \in SUBSET Times
  BY <1>2 DEF LimiterTypes
<1>4. IsFiniteSet(kept)
  <2>1. kept \in SUBSET Times
    BY <1>3
  <2> QED
    BY <2>1, LimitsAndTimes, FS_Subset
<1>5. "redis" \in Stores /\ allowed \in BOOLEAN /\ late \in BOOLEAN
  BY DEF Stores
<1>6. ASSUME ~late
      PROVE  \A u \in scores[b] : (u \in kept /\ u <= t) \/ (u \notin kept /\ u + Window <= t)
  <2>1. scores[b] \subseteq Nat /\ t \in Nat /\ Window \in Nat
    BY <1>3, LimitsAndTimes
  <2>2. kept = inWindow /\ \A u \in kept : ~(u > t)
    BY <1>6
  <2>3. \A u \in scores[b] : u \in kept <=> u + Window > t
    BY <2>2
  <2> HIDE DEF kept
  <2> QED
    BY <2>1, <2>2, <2>3
<1> HIDE DEF kept, late
<1>7. /\ passed' \in [Stores -> [Buckets -> Lists]]
      /\ \A q \in Stores, o \in Buckets : q # "redis" \/ o # b =>
           passed'[q][o] = passed[q][o] /\ ((<<q, o>> \in unsure)' <=> <<q, o>> \in unsure)
      /\ <<"redis", b>> \notin unsure' =>
           /\ ~late /\ <<"redis", b>> \notin unsure
           /\ passed'["redis"][b] = IF allowed THEN Add(passed["redis"][b], t)
                                    ELSE passed["redis"][b]
  <2> HIDE DEF allowed
  <2> QED
    BY <1>1, <1>2, <1>5, RecordEffect
<1>8. LimiterTypes'
  <2>1. /\ limitedCall' \in [LimitedCalls -> LimitedCallRecords]
        /\ \A d \in LimitedCalls :
             limitedCall'[d].todo # << >> => limitedCall'[d].replica \in Replicas
    <3> HIDE DEF allowed
    <3> QED
      BY <1>0, <1>1, <1>2, <1>5, AnswerTypes
  <2> QED
    BY <1>1, <1>2, <1>3, <1>7, <2>1 DEF LimiterTypes
<1>9. ASSUME NEW o \in Buckets PROVE RedisPlace(o)'
  <2>1. CASE o # b
    <3>1. scores'[o] = scores[o]
      BY <1>1, <1>2, <2>1 DEF LimiterTypes
    <3> QED
      BY <1>5, <1>7, <2>1, <3>1, PlaceKeeps DEF LimiterInv, RedisPlace
  <2>2. CASE o = b
    <3> SUFFICES ASSUME <<"redis", b>> \notin unsure'
                 PROVE  InRedis(b)' /\ LimitAt("redis", b)'
      BY <2>2 DEF RedisPlace, InRedis, LimitAt
    <3> DEFINE old == passed["redis"][b]
               new == passed'["redis"][b]
    <3>1. /\ ~late /\ <<"redis", b>> \notin unsure
          /\ new = IF allowed THEN Add(old, t) ELSE old
          /\ old \in Lists
      BY <1>2, <1>5, <1>7 DEF LimiterTypes
    <3>2. /\ \A p \in new : p \in old \/ p[1] = t
          /\ \A p \in new : p[1] \in Nat
          /\ old \subseteq new /\ (~allowed => new = old)
      BY <1>2, <3>1, AddedStamp, LimitsAndTimes DEF Lists
    <3>3. scores'[b] = kept \cup {t} /\ t \in Nat /\ scores[b] \subseteq Nat
      BY <1>1, <1>2, <1>3, LimitsAndTimes DEF LimiterTypes
    <3>4. \A p \in old : \E u \in scores[b] : p[1] = u \/ p[1] + Window <= u
      BY <1>2, <3>1 DEF LimiterInv, RedisPlace, InRedis
    <3> HIDE DEF old, new, allowed
    <3>5. \A p \in new : \E u \in scores'[b] : p[1] = u \/ p[1] + Window <= u
      BY <1>6, <3>1, <3>2, <3>3, <3>4, LimitsAndTimes
    <3>6. \A p \in old : t < p[1] + Window => p[1] \in kept
      BY <1>6, <3>1, <3>2, <3>3, <3>4, LimitsAndTimes
    <3>7. ASSUME NEW from \in Times
          PROVE  Cardinality(Counted("redis", InWindow("redis", b, from)')) <= Limit[b]
      <4> DEFINE was == InWindow("redis", b, from)
                 is == InWindow("redis", b, from)'
      <4>1. /\ is = {x \in new : from <= x[1] /\ x[1] < from + Window}
            /\ was = {x \in old : from <= x[1] /\ x[1] < from + Window}
        BY DEF InWindow, new, old
      <4>2. from \in Nat /\ Window \in Nat
        BY LimitsAndTimes
      <4>3. CASE allowed /\ from <= t /\ t < from + Window
        <5>1. StampsOf(is) \subseteq kept \cup {t}
          BY <3>2, <3>3, <3>6, <4>1, <4>2, <4>3 DEF StampsOf
        <5>2. Cardinality(kept) < Limit[b] /\ Limit[b] \in Nat
          BY <1>2, <4>3, LimitsAndTimes DEF allowed
        <5> QED
          BY <1>4, <5>1, <5>2, OneMore DEF Counted
      <4>4. CASE ~(allowed /\ from <= t /\ t < from + Window)
        <5>1. is = was
          BY <3>2, <4>1, <4>4
        <5> QED
          BY <1>2, <3>1, <5>1 DEF LimiterInv, RedisPlace, LimitAt
      <4> QED
        BY <4>3, <4>4
    <3>8. InRedis(b)'
      BY <3>5 DEF InRedis, new
    <3>9. LimitAt("redis", b)'
      BY <3>7 DEF LimitAt, Counted
    <3> QED
      BY <3>8, <3>9
  <2> QED
    BY <2>1, <2>2
<1>10. ASSUME NEW o \in Buckets, NEW r \in Replicas PROVE ProcessPlace(r, o)'
  <2>1. r # "redis" /\ r \in Stores /\ stamps' = stamps
    BY <1>1, ReplicaNames DEF Stores
  <2> QED
    BY <1>7, <2>1, PlaceKeeps DEF LimiterInv, ProcessPlace
<1> QED
  BY <1>8, <1>9, <1>10 DEF LimiterInv

\* A request that a process counts itself, in time: whatever it let through and is in
\* a window with the request is in its list still, if it lets the request through.
LEMMA ProcessCounts ==
    ASSUME LimiterInv, NEW c \in LimitedCalls, CheckLocal(c)
    PROVE  LimiterInv'
<1>0. limitedCall[c].todo # << >> /\ LimiterTypes
  BY DEF CheckLocal, LimiterInv
<1> PICK t \in Times, b \in Buckets, r \in Replicas :
      /\ t = limitedCall[c].now /\ b = Head(limitedCall[c].todo)
      /\ r = limitedCall[c].replica
  BY <1>0, CallTypes
<1> DEFINE kept == {x \in stamps[r][b] : x[1] + Window > t}
           allowed == Cardinality(kept) < Ceiling(b)
           late == \E u \in StampsOf(stamps[r][b]) : u > t
           list == IF allowed THEN Add(kept, t) ELSE kept
<1>1. /\ stamps' = [stamps EXCEPT ![r][b] = list]
      /\ Record(r, b, t, allowed, late)
      /\ Answer(c, allowed)
      /\ UNCHANGED <<clock, scores, touched, limited>>
  BY DEF CheckLocal
<1>2. r \in Stores /\ r # "redis" /\ allowed \in BOOLEAN /\ late \in BOOLEAN
  BY ReplicaNames DEF Stores
<1>3. /\ stamps[r][b] \in Lists /\ kept \in SUBSET stamps[r][b]
      /\ \A x \in stamps[r][b] : x[1] \in Nat
      /\ t \in Nat /\ Window \in Nat \ {0}
  <2>1. stamps[r][b] \in Lists
    BY <1>0 DEF LimiterTypes
  <2> QED
    BY <2>1, LimitsAndTimes DEF Lists
<1>4. IsFiniteSet(kept) /\ kept \in Lists
  <2> HIDE DEF kept
  <2> QED
    BY <1>3, FS_Subset DEF Lists
<1>5. list \in Lists
  <2> HIDE DEF kept
  <2> QED
    BY <1>4, AddToList
<1>6. /\ \A x \in stamps[r][b] : x \in kept <=> t < x[1] + Window
      /\ ~late => \A x \in stamps[r][b] : x[1] <= t
  BY <1>3 DEF StampsOf
<1>7. allowed <=> Cardinality(kept) < Limit[b]
  BY LimitsAndTimes
<1> HIDE DEF kept, late, list, allowed
<1>8. /\ passed' \in [Stores -> [Buckets -> Lists]]
      /\ \A q \in Stores, o \in Buckets : q # r \/ o # b =>
           passed'[q][o] = passed[q][o] /\ ((<<q, o>> \in unsure)' <=> <<q, o>> \in unsure)
      /\ <<r, b>> \notin unsure' =>
           /\ ~late /\ <<r, b>> \notin unsure
           /\ passed'[r][b] = IF allowed THEN Add(passed[r][b], t) ELSE passed[r][b]
  BY <1>0, <1>1, <1>2, RecordEffect
<1>9. /\ stamps' \in [Replicas -> [Buckets -> Lists]] /\ stamps'[r][b] = list
      /\ \A q \in Replicas, o \in Buckets : q # r \/ o # b => stamps'[q][o] = stamps[q][o]
  BY <1>0, <1>1, <1>5 DEF LimiterTypes
<1>10. LimiterTypes'
  <2>1. /\ limitedCall' \in [LimitedCalls -> LimitedCallRecords]
        /\ \A d \in LimitedCalls :
             limitedCall'[d].todo # << >> => limitedCall'[d].replica \in Replicas
    BY <1>0, <1>1, <1>2, AnswerTypes
  <2> QED
    BY <1>0, <1>1, <1>8, <1>9, <2>1 DEF LimiterTypes
<1>11. ASSUME <<r, b>> \notin unsure'
       PROVE  InProcess(r, b)' /\ LimitAt(r, b)'
  <2> DEFINE old == passed[r][b]
             new == passed'[r][b]
             is  == stamps[r][b]
             is2 == stamps'[r][b]
             behind(p, l) == {x \in l : p[1] < x[1]}
  <2>1. /\ ~late /\ <<r, b>> \notin unsure
        /\ new = IF allowed THEN Add(old, t) ELSE old
        /\ is2 = IF allowed THEN Add(kept, t) ELSE kept
        /\ old \in Lists /\ new \in Lists
    BY <1>0, <1>2, <1>8, <1>9, <1>11 DEF LimiterTypes, list
  <2>2. /\ is \subseteq old
        /\ \A p \in old \ is : (\E x \in is : p[1] + Window <= x[1])
                               \/ Limit[b] <= Cardinality(behind(p, is))
    BY <2>1 DEF LimiterInv, ProcessPlace, InProcess
  <2>3. \A p \in old : p[1] \in Nat
    BY <2>1, LimitsAndTimes DEF Lists
  <2>4. \A x \in is : x[1] <= t /\ (x \in kept <=> t < x[1] + Window)
    BY <1>6, <2>1
  <2>5. /\ Cardinality(kept) \in Nat /\ Limit[b] \in Nat /\ kept \subseteq is
        /\ \A p : IsFiniteSet(behind(p, is)) /\ Cardinality(behind(p, is)) \in Nat
    <3>1. \A p : behind(p, is) \in SUBSET is /\ IsFiniteSet(is)
      BY <1>3 DEF Lists
    <3> HIDE DEF behind, is
    <3> QED
      BY <1>3, <1>4, <3>1, FS_Subset, FS_CardinalityType, LimitsAndTimes DEF is
  <2>6. ASSUME NEW p \in old, p \notin kept, t < p[1] + Window
        PROVE  /\ Limit[b] <= Cardinality(kept) /\ ~allowed
               /\ p \notin is /\ Limit[b] <= Cardinality(behind(p, is))
               /\ behind(p, is) \subseteq kept
    <3>1. p \notin is
      BY <2>4, <2>6
    <3>2. ~(\E x \in is : p[1] + Window <= x[1])
      BY <1>3, <2>3, <2>4, <2>6
    <3>3. Limit[b] <= Cardinality(behind(p, is))
      BY <2>2, <3>1, <3>2
    <3>4. behind(p, is) \in SUBSET kept
      BY <1>3, <2>3, <2>4, <2>6
    <3>5. Cardinality(behind(p, is)) <= Cardinality(kept)
      <4> HIDE DEF behind
      <4> QED
        BY <1>4, <3>4, FS_Subset
    <3>6. Limit[b] <= Cardinality(kept)
      <4> HIDE DEF behind
      <4> QED
        BY <2>5, <3>3, <3>5
    <3> QED
      BY <1>7, <2>5, <3>1, <3>3, <3>4, <3>6
  <2>7. CASE allowed
    <3> DEFINE e == <<t, 1 + Cardinality({x \in kept : x[1] = t})>>
    <3>1. \A p \in old : t < p[1] + Window => p \in kept
      BY <2>6, <2>7
    <3>2. {x \in kept : x[1] = t} = {x \in old : x[1] = t}
      BY <1>3, <2>2, <2>3, <2>5, <3>1
    <3>3. new = old \cup {e} /\ is2 = kept \cup {e} /\ e[1] = t
      BY <2>1, <2>7, <3>2 DEF Add
    <3> HIDE DEF e
    <3>4. is2 \subseteq new /\ \A p \in new \ is2 : p[1] + Window <= t /\ p[1] \in Nat
      BY <1>3, <2>2, <2>3, <2>5, <3>1, <3>3
    <3>5. InProcess(r, b)'
      BY <3>3, <3>4 DEF InProcess
    <3>6. ASSUME NEW from \in Times
          PROVE  Cardinality(Counted(r, InWindow(r, b, from)')) <= Limit[b]
      <4>1. /\ InWindow(r, b, from)' = {x \in new : from <= x[1] /\ x[1] < from + Window}
            /\ InWindow(r, b, from) = {x \in old : from <= x[1] /\ x[1] < from + Window}
        BY DEF InWindow
      <4>2. from \in Nat
        BY LimitsAndTimes
      <4>3. CASE from <= t /\ t < from + Window
        <5>1. InWindow(r, b, from)' \in SUBSET (kept \cup {e})
          BY <1>3, <2>3, <3>1, <3>3, <4>1, <4>2, <4>3
        <5> HIDE DEF kept
        <5> QED
          BY <1>2, <1>4, <1>7, <2>5, <2>7, <5>1, OneMore DEF Counted
      <4>4. CASE ~(from <= t /\ t < from + Window)
        <5>1. InWindow(r, b, from)' = InWindow(r, b, from)
          BY <3>3, <4>1, <4>4
        <5> QED
          BY <2>1, <5>1 DEF LimiterInv, ProcessPlace, LimitAt
      <4> QED
        BY <4>3, <4>4
    <3> QED
      BY <3>5, <3>6 DEF LimitAt, Counted
  <2>8. CASE ~allowed
    <3>1. new = old /\ is2 = kept /\ Limit[b] <= Cardinality(kept)
      BY <1>7, <2>1, <2>5, <2>8
    <3>2. ASSUME NEW p \in old, p \notin kept
          PROVE  Limit[b] <= Cardinality(behind(p, kept))
      <4>1. CASE t < p[1] + Window
        <5>1. behind(p, kept) = behind(p, is) /\ Limit[b] <= Cardinality(behind(p, is))
          BY <2>5, <2>6, <3>2, <4>1
        <5> QED
          BY <5>1
      <4>2. CASE ~(t < p[1] + Window)
        <5>1. behind(p, kept) = kept
          BY <1>3, <2>3, <2>4, <2>5, <3>2, <4>2
        <5> QED
          BY <3>1, <5>1
      <4> QED
        BY <4>1, <4>2
    <3>3. InProcess(r, b)'
      BY <2>2, <2>5, <3>1, <3>2 DEF InProcess
    <3>4. LimitAt(r, b)'
      BY <2>1, <3>1 DEF LimiterInv, ProcessPlace, LimitAt, InWindow
    <3> QED
      BY <3>3, <3>4
  <2> QED
    BY <2>7, <2>8
<1>12. ASSUME NEW o \in Buckets, NEW q \in Replicas PROVE ProcessPlace(q, o)'
  <2>1. CASE q = r /\ o = b
    BY <1>11, <2>1 DEF ProcessPlace, InProcess, LimitAt
  <2>2. CASE q # r \/ o # b
    BY <1>8, <1>9, <2>2, PlaceKeeps DEF LimiterInv, ProcessPlace, Stores
  <2> QED
    BY <2>1, <2>2
<1>13. ASSUME NEW o \in Buckets PROVE RedisPlace(o)'
  <2>1. "redis" \in Stores /\ scores' = scores
    BY <1>1 DEF Stores
  <2> QED
    BY <1>2, <1>8, <2>1, PlaceKeeps DEF LimiterInv, RedisPlace
<1> QED
  BY <1>10, <1>12, <1>13 DEF LimiterInv

\* Time, and a request that comes in, leave what the places hold.
LEMMA OtherLimiterSteps ==
    ASSUME LimiterInv,
           \/ Tick
           \/ \E c \in LimitedCalls, r \in Replicas, path \in Paths : EnterLimiter(c, r, path)
    PROVE  LimiterInv'
<1>1. UNCHANGED <<scores, touched, stamps, passed, unsure>>
  BY DEF Tick, EnterLimiter
<1>2. CASE Tick
  <2>1. clock' \in Times
    BY <1>2, LimiterAssumption DEF Tick, LimiterInv, LimiterTypes, Times
  <2> QED
    BY <1>1, <1>2, <2>1 DEF Tick, LimiterInv, LimiterTypes, RedisPlace, ProcessPlace,
                            InRedis, InProcess, LimitAt, InWindow
<1>3. ASSUME NEW c \in LimitedCalls, NEW r \in Replicas, NEW path \in Paths,
             EnterLimiter(c, r, path)
      PROVE  LimiterInv'
  <2> DEFINE call == [todo |-> path, now |-> clock, replica |-> r]
  <2>1. call \in LimitedCallRecords /\ call.replica = r
    BY DEF LimitedCallRecords, LimiterInv, LimiterTypes
  <2>2. limitedCall' = [limitedCall EXCEPT ![c] = call] /\ clock' = clock
    BY <1>3 DEF EnterLimiter
  <2> HIDE DEF call
  <2>3. LimiterTypes'
    BY <1>1, <2>1, <2>2 DEF LimiterInv, LimiterTypes
  <2> QED
    BY <1>1, <2>3 DEF LimiterInv, RedisPlace, ProcessPlace, InRedis, InProcess, LimitAt, InWindow
<1> QED
  BY <1>2, <1>3

\* An emptied list has let nothing through.
LEMMA NothingPassed ==
    ASSUME NEW s, NEW b \in Buckets, passed'[s][b] = {}
    PROVE  LimitAt(s, b)'
<1>1. \A from : Counted(s, InWindow(s, b, from)') = {}
  BY DEF InWindow, Counted, StampsOf
<1> QED
  BY <1>1, FS_EmptySet, LimitsAndTimes DEF LimitAt, Counted

\* A process that restarts has empty lists, which have let nothing through.
LEMMA LimiterRestarts ==
    ASSUME LimiterInv, NEW r \in Replicas, RestartLimiter(r)
    PROVE  LimiterInv'
<1> DEFINE none == [b \in Buckets |-> {}]
<1>1. none \in [Buckets -> Lists] /\ r \in Stores /\ r # "redis" /\ LimiterTypes
  BY NoStamps, ReplicaNames DEF Stores, LimiterInv
<1>2. /\ stamps' = [stamps EXCEPT ![r] = none] /\ passed' = [passed EXCEPT ![r] = none]
      /\ UNCHANGED <<clock, scores, touched, unsure>>
  BY DEF RestartLimiter
<1>3. \A b \in Buckets : none[b] = {}
  OBVIOUS
<1> HIDE DEF none
<1>4. /\ limitedCall' \in [LimitedCalls -> LimitedCallRecords]
      /\ \A d \in LimitedCalls :
           limitedCall'[d].todo # << >> => limitedCall'[d].replica \in Replicas
  BY <1>1, EmptyCall DEF RestartLimiter, LimiterTypes
<1>5. LimiterTypes'
  BY <1>1, <1>2, <1>4 DEF LimiterTypes
<1>6. /\ \A q \in Stores \ {r} : passed'[q] = passed[q]
      /\ \A q \in Replicas \ {r} : stamps'[q] = stamps[q]
      /\ passed'[r] = none /\ stamps'[r] = none
  BY <1>1, <1>2 DEF LimiterTypes
<1>7. ASSUME NEW b \in Buckets, NEW q \in Replicas PROVE ProcessPlace(q, b)'
  <2>1. CASE q = r
    <3>1. LimitAt(q, b)'
      BY <1>3, <1>6, <2>1, NothingPassed
    <3>2. InProcess(q, b)'
      BY <1>3, <1>6, <2>1 DEF InProcess
    <3> QED
      BY <3>1, <3>2 DEF ProcessPlace
  <2>2. CASE q # r
    BY <1>2, <1>6, <2>2, PlaceKeeps DEF LimiterInv, ProcessPlace, Stores
  <2> QED
    BY <2>1, <2>2
<1>8. ASSUME NEW b \in Buckets PROVE RedisPlace(b)'
  <2>1. passed'["redis"] = passed["redis"]
    BY <1>1, <1>6 DEF Stores
  <2> QED
    BY <1>2, <2>1, PlaceKeeps DEF LimiterInv, RedisPlace
<1> QED
  BY <1>5, <1>7, <1>8 DEF LimiterInv

\* A bucket that Redis drops is unsure from then on.
LEMMA BucketGone ==
    ASSUME LimiterInv, NEW b \in Buckets, BucketEvicted(b)
    PROVE  LimiterInv'
<1>1. "redis" \in Stores /\ LimiterTypes /\ {} \in Lists /\ {} \in SUBSET Times
  BY NoStamps DEF Stores, LimiterInv
<1>2. /\ scores' = [scores EXCEPT ![b] = {}]
      /\ unsure' = unsure \cup {<<"redis", b>>}
      /\ passed' = [passed EXCEPT !["redis"][b] = {}]
      /\ UNCHANGED <<clock, touched, stamps, limitedCall>>
  BY DEF BucketEvicted
<1>3. LimiterTypes'
  BY <1>1, <1>2 DEF LimiterTypes
<1>4. \A q \in Stores, o \in Buckets : q # "redis" \/ o # b =>
        passed'[q][o] = passed[q][o] /\ ((<<q, o>> \in unsure)' <=> <<q, o>> \in unsure)
  BY <1>1, <1>2 DEF LimiterTypes
<1>5. ASSUME NEW o \in Buckets, NEW q \in Replicas PROVE ProcessPlace(q, o)'
  <2>1. q # "redis" /\ q \in Stores
    BY ReplicaNames DEF Stores
  <2> QED
    BY <1>2, <1>4, <2>1, PlaceKeeps DEF LimiterInv, ProcessPlace
<1>6. ASSUME NEW o \in Buckets PROVE RedisPlace(o)'
  <2>1. CASE o = b
    BY <1>2, <2>1 DEF RedisPlace, InRedis, LimitAt
  <2>2. CASE o # b
    <3>1. scores'[o] = scores[o]
      BY <1>1, <1>2, <2>2 DEF LimiterTypes
    <3> QED
      BY <1>1, <1>4, <2>2, <3>1, PlaceKeeps DEF LimiterInv, RedisPlace
  <2> QED
    BY <2>1, <2>2
<1> QED
  BY <1>3, <1>5, <1>6 DEF LimiterInv

LEMMA InitLimiterInv == LimiterInit => LimiterInv
<1> SUFFICES ASSUME LimiterInit PROVE LimiterInv
  OBVIOUS
<1>1. LimiterTypes
  BY EmptyCall, NoStamps, LimitsAndTimes DEF LimiterInit, LimiterTypes
<1>2. \A s \in Stores, b \in Buckets : passed[s][b] = {}
  BY DEF LimiterInit
<1>3. \A s \in Stores, b \in Buckets : LimitAt(s, b)
  <2>1. \A s \in Stores, b \in Buckets, from \in Times : Counted(s, InWindow(s, b, from)) = {}
    BY <1>2 DEF Counted, InWindow, StampsOf
  <2> QED
    BY <2>1, FS_EmptySet, LimitsAndTimes DEF LimitAt
<1>4. \A b \in Buckets : InRedis(b) /\ \A r \in Replicas : InProcess(r, b)
  BY <1>2 DEF LimiterInit, InRedis, InProcess, Stores
<1> QED
  BY <1>1, <1>3, <1>4 DEF LimiterInv, RedisPlace, ProcessPlace, Stores

LEMMA StepKeepsLimiterInv == LimiterInv /\ [LimiterNext]_limiterVars => LimiterInv'
<1> SUFFICES ASSUME LimiterInv, [LimiterNext]_limiterVars PROVE LimiterInv'
  OBVIOUS
<1>1. CASE UNCHANGED limiterVars
  BY <1>1 DEF limiterVars, LimiterInv, LimiterTypes, RedisPlace, ProcessPlace,
              InRedis, InProcess, LimitAt, InWindow
<1>2. CASE LimiterNext
  BY <1>1, <1>2, RedisCounts, ProcessCounts, OtherLimiterSteps, LimiterRestarts, BucketGone
     DEF LimiterNext
<1> QED
  BY <1>1, <1>2

-----------------------------------------------------------------------------
(* Limiter: theorems *)

\* What a place has let through is still counted there for as long as it shares a
\* window with a request to come.
THEOREM LimiterInvAlways == LimiterSpec => []LimiterInv
BY InitLimiterInv, StepKeepsLimiterInv, PTL DEF LimiterSpec

\* No window of any start holds more requests let through than the limit, for each
\* place that none reached late and that kept its bucket.
THEOREM NoWindowOverTheLimit == LimiterSpec => []WindowLimit
<1>1. LimiterInv => WindowLimit
  <2> SUFFICES ASSUME LimiterInv, NEW s \in Stores, NEW b \in Buckets, NEW from \in Times,
                      <<s, b>> \notin unsure
               PROVE  Cardinality(Counted(s, InWindow(s, b, from))) <= Limit[b]
    BY DEF WindowLimit, Counted, InWindow
  <2>1. LimitAt(s, b)
    BY DEF LimiterInv, RedisPlace, ProcessPlace, Stores
  <2> QED
    BY <2>1 DEF LimitAt
<1> QED
  BY <1>1, LimiterInvAlways, PTL

\* The requests are counted up to their bound, and only places are unsure.
LimiterHistory == limited \in 0..MaxLimited /\ unsure \subseteq Stores \X Buckets

LEMMA StepKeepsLimiterHistory ==
    LimiterInv /\ LimiterHistory /\ [LimiterNext]_limiterVars => LimiterHistory'
<1> SUFFICES ASSUME LimiterInv, LimiterHistory, [LimiterNext]_limiterVars
             PROVE  LimiterHistory'
  OBVIOUS
<1>0. LimiterTypes
  BY DEF LimiterInv
<1>1. CASE UNCHANGED limiterVars
  BY <1>1 DEF limiterVars, LimiterHistory
<1>2. ASSUME NEW c \in LimitedCalls, NEW r \in Replicas, NEW path \in Paths,
             EnterLimiter(c, r, path)
      PROVE  LimiterHistory'
  <2>1. limited \in 0..MaxLimited /\ MaxLimited \in Nat
    BY LimiterAssumption DEF LimiterHistory
  <2>2. limited < MaxLimited /\ limited' = limited + 1 /\ unsure' = unsure
    BY <1>2 DEF EnterLimiter
  <2>3. limited' \in 0..MaxLimited
    BY ONLY <2>1, <2>2
  <2> QED
    BY <2>2, <2>3 DEF LimiterHistory
<1>3. ASSUME NEW s \in Stores, NEW b \in Buckets, NEW t, NEW allowed, NEW late,
             Record(s, b, t, allowed, late), limited' = limited
      PROVE  LimiterHistory'
  <2>1. unsure' \subseteq unsure \cup {<<s, b>>}
    BY <1>3 DEF Record
  <2> QED
    BY <1>3, <2>1 DEF LimiterHistory
<1>4. ASSUME NEW c \in LimitedCalls, CheckRedis(c) PROVE LimiterHistory'
  <2>1. \E b, t, allowed, late : /\ b = Head(limitedCall[c].todo)
                                 /\ Record("redis", b, t, allowed, late)
    BY <1>4 DEF CheckRedis
  <2>2. limited' = limited /\ Head(limitedCall[c].todo) \in Buckets /\ "redis" \in Stores
    BY <1>0, <1>4, CallTypes DEF CheckRedis, Stores
  <2> QED
    BY <1>3, <2>1, <2>2
<1>5. ASSUME NEW c \in LimitedCalls, CheckLocal(c) PROVE LimiterHistory'
  <2>1. \E b, t, allowed, late : /\ b = Head(limitedCall[c].todo)
                                 /\ Record(limitedCall[c].replica, b, t, allowed, late)
    BY <1>5 DEF CheckLocal
  <2>2. /\ limited' = limited /\ Head(limitedCall[c].todo) \in Buckets
        /\ limitedCall[c].replica \in Stores
    BY <1>0, <1>5, CallTypes DEF CheckLocal, Stores
  <2> QED
    BY <1>3, <2>1, <2>2
<1>6. ASSUME Tick \/ (\E r \in Replicas : RestartLimiter(r)) PROVE LimiterHistory'
  BY <1>6 DEF Tick, RestartLimiter, LimiterHistory
<1>7. ASSUME NEW b \in Buckets, BucketEvicted(b) PROVE LimiterHistory'
  BY <1>7 DEF BucketEvicted, LimiterHistory, Stores
<1> QED
  BY <1>1, <1>2, <1>4, <1>5, <1>6, <1>7 DEF LimiterNext

\* Clock, buckets and requests are of their types.
THEOREM LimiterTyped == LimiterSpec => []LimiterTypeOK
<1>1. LimiterInit => LimiterHistory
  BY LimiterAssumption DEF LimiterInit, LimiterHistory
<1>2. LimiterInv /\ LimiterHistory => LimiterTypeOK
  BY DEF LimiterInv, LimiterTypes, LimiterHistory, LimiterTypeOK, Lists, LimitedCallRecords
<1> QED
  BY <1>1, <1>2, StepKeepsLimiterHistory, LimiterInvAlways, PTL DEF LimiterSpec

-----------------------------------------------------------------------------
(* The clients of Redis together *)

\* The server alone: whoever is its client, it goes away, returns or evicts.
RedisSpec == RedisInit /\ [][RedisFails \/ RedisReturns \/ RedisEvicts]_redisVars

LEMMA RedisTyped == RedisSpec => []RedisTypeOK
<1>1. RedisInit => RedisTypeOK
  BY RedisBounds DEF RedisInit, RedisTypeOK
<1>2. RedisTypeOK /\ [RedisFails \/ RedisReturns \/ RedisEvicts]_redisVars => RedisTypeOK'
  <2> SUFFICES ASSUME RedisTypeOK, [RedisFails \/ RedisReturns \/ RedisEvicts]_redisVars
               PROVE  RedisTypeOK'
    OBVIOUS
  <2>1. ASSUME NEW n \in Nat, NEW i \in 0..n, NEW j, j = i \/ (i < n /\ j = i + 1)
        PROVE  j \in 0..n
    BY ONLY <2>1
  <2>2. outages' \in 0..MaxOutages
    <3>1. outages' = outages \/ (outages < MaxOutages /\ outages' = outages + 1)
      BY DEF redisVars, RedisFails, RedisReturns, RedisEvicts
    <3> QED
      BY <2>1, <3>1, RedisBounds DEF RedisTypeOK
  <2>3. evictions' \in 0..MaxEvictions
    <3>1. evictions' = evictions \/ (evictions < MaxEvictions /\ evictions' = evictions + 1)
      BY DEF redisVars, RedisFails, RedisReturns, RedisEvicts
    <3> QED
      BY <2>1, <3>1, RedisBounds DEF RedisTypeOK
  <2>4. redisUp' \in BOOLEAN /\ adapter' = adapter
    BY DEF RedisTypeOK, redisVars, RedisFails, RedisReturns, RedisEvicts
  <2> QED
    BY <2>2, <2>3, <2>4 DEF RedisTypeOK
<1> QED
  BY <1>1, <1>2, PTL DEF RedisSpec

\* A step of any client is one of the server's or leaves it alone.
LEMMA ClientsUseRedis ==
    TokensNext \/ LimiterNext \/ ListingNext \/ ChatNext =>
      RedisFails \/ RedisReturns \/ RedisEvicts \/ UNCHANGED redisVars
BY DEF TokensNext, LimiterNext, ListingNext, ChatNext, BlockEvicted, BucketEvicted, EvictUsage

\* Whichever client has the focus, a step of all is a step of each or leaves it alone.
LEMMA EachClientRuns ==
    Spec => RedisSpec /\ TokensSpec /\ LimiterSpec /\ ListingSpec /\ ChatSpec
<1>1. Init => RedisInit /\ TokensInit /\ LimiterInit /\ ListingInit /\ ChatInit
  BY DEF Init
<1>2. [Next]_vars => [RedisFails \/ RedisReturns \/ RedisEvicts]_redisVars
  BY ClientsUseRedis DEF Next, vars
<1>3. [Next]_vars => [TokensNext]_tokenVars
  BY DEF Next, vars, tokenVars
<1>4. [Next]_vars => [LimiterNext]_limiterVars
  BY DEF Next, vars, limiterVars
<1>5. [Next]_vars => [ListingNext]_listingVars
  BY DEF Next, vars, listingVars
<1>6. [Next]_vars => [ChatNext]_<<adapter, chatVars>>
  <2>1. RedisFails \/ RedisReturns \/ RedisEvicts \/ UNCHANGED redisVars => adapter' = adapter
    BY DEF RedisFails, RedisReturns, RedisEvicts, redisVars
  <2> QED
    BY <2>1, ClientsUseRedis DEF Next, vars, redisVars
<1> QED
  BY <1>1, <1>2, <1>3, <1>4, <1>5, <1>6, PTL
     DEF Spec, RedisSpec, TokensSpec, LimiterSpec, ListingSpec, ChatSpec

\* However the steps of the clients interleave, and not only while one of them has the
\* focus, the server and the four have the types they have alone.
THEOREM ClientTypesTogether ==
    RedisSpec /\ TokensSpec /\ LimiterSpec /\ ListingSpec /\ ChatSpec => []TypeOK
<1>1. RedisTypeOK /\ TokensTypeOK /\ LimiterTypeOK /\ ListingTypeOK /\ ChatTypeOK => TypeOK
  BY DEF TypeOK
<1> QED
  BY <1>1, RedisTyped, TokensTypesHold, LimiterTyped, ListingTypesHold, ChatsTyped, PTL

\* The state that the run explores is of its type.
THEOREM SharedRedisTyped == Spec => []TypeOK
BY EachClientRuns, ClientTypesTogether, PTL

\* On one server, with its outages and evictions, the clients promise what each of them
\* promises alone: a revoked token is refused, no window is over its limit, listings
\* are current unless missed, the plan and the conversation are kept.
THEOREM ClientsKeepPromises ==
    Spec => /\ [](WindowLimit /\ ListingsAreCurrent /\ QuotaHolds /\ HistoryIsKept)
            /\ RevokedIsRefused
BY EachClientRuns, RevokedStaysOut, NoWindowOverTheLimit, FreshUnlessMissed, PlanIsKept,
   ConversationIsKept, PTL
=============================================================================
