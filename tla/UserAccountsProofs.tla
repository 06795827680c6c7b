-------------------------- MODULE UserAccountsProofs --------------------------
(***************************************************************************)
(* What the users table, the reset links and the Google tokens keep,       *)
(* whatever requests overlap, fail or die.  Three invariants in a row: the *)
(* types, then the links and the tokens, which are proved from the types   *)
(* and independently of one another.                                       *)
(***************************************************************************)
EXTENDS UserAccounts, SequenceTheorems, FiniteSetTheorems, TLAPS

AccountRecords ==
    [email : Emails, password : BOOLEAN, live : BOOLEAN, grant : 0..MaxGrants]
ResetRecords ==
    [account : AccountIds, used : BOOLEAN, expired : BOOLEAN, sets : Nat, overlapped : BOOLEAN]
ConnectionRecords ==
    [account : AccountIds \cup {0}, home : {"personal", "org", "none"},
     active : BOOLEAN, grant : 0..MaxGrants]
CallRecords ==
    [pc : AccountSteps, account : AccountIds \cup {0}, email : Emails \cup {""},
     grant : 0..MaxGrants, ids : SUBSET Nat, disturbed : BOOLEAN]

OnARow == {"google update", "google insert", "refresh", "forgot", "reset"}

\* The types, and what a request in hand has read: an address, or an account
\* that is or was there, and a grant that has been given.
AccountTypes ==
    /\ accounts \in Seq(AccountRecords) /\ Len(accounts) <= MaxAccounts
    /\ resets \in Seq(ResetRecords)
    /\ connections \in Seq(ConnectionRecords)
    /\ grants \in 0..MaxGrants
    /\ accountCall \in [AccountCalls -> CallRecords]
    /\ crossed \subseteq AccountIds
    /\ settled \in [AccountIds -> 0..grants]
GrantsGiven ==
    /\ \A a \in DOMAIN accounts : accounts[a].grant <= grants
    /\ \A n \in DOMAIN connections : connections[n].grant <= grants
Sensible(q, numberOfAccounts, given) ==
    /\ q.grant <= given
    /\ q.pc \in {"register", "google user"} => q.email \in Emails
    /\ q.pc = "google user" => q.account \in 0..numberOfAccounts
    /\ q.pc \in OnARow => q.account \in 1..numberOfAccounts
CallsMakeSense == \A c \in AccountCalls : Sensible(accountCall[c], Len(accounts), grants)
TypesInv == AccountTypes /\ GrantsGiven /\ CallsMakeSense

ResettingWith(i) ==
    {c \in AccountCalls : accountCall[c].pc = "reset" /\ i \in accountCall[c].ids}
ForgetfulOf(a) ==
    {c \in AccountCalls : accountCall[c].pc = "forgot" /\ accountCall[c].account = a}

\* A link that has set a password is used, and unless two requests with it
\* overlapped, one request at most holds it, and then it has set none.
SingleUse ==
    /\ \A c \in AccountCalls :
         accountCall[c].pc = "reset" => accountCall[c].ids \subseteq DOMAIN resets
    /\ \A i \in DOMAIN resets :
         /\ resets[i].sets > 0 => resets[i].used
         /\ ~resets[i].overlapped =>
              /\ resets[i].sets <= 1
              /\ \A c, d \in ResettingWith(i) : c = d
              /\ ResettingWith(i) # {} => resets[i].sets = 0

\* While no two requests for an account have overlapped, the one that is in hand
\* has every good link of the account before it.
OneGoodLink ==
    \A a \in AccountIds \ crossed :
        /\ \A c, d \in ForgetfulOf(a) : c = d
        /\ \A c \in ForgetfulOf(a) : UnusedOf(a) \subseteq accountCall[c].ids
        /\ \A i, j \in UnusedOf(a) : i = j
LinksInv == SingleUse /\ OneGoodLink

\* What an undisturbed sign-in is going to put out covers every active row, and
\* rows of its account only; a settled account has one active row, of the
\* sign-in, and whoever refreshes it holds the same grant.
SignInCovers ==
    \A c \in AccountCalls : accountCall[c].pc = "google insert" =>
        /\ ~accountCall[c].disturbed => ActiveOf(accountCall[c].account) \subseteq accountCall[c].ids
        /\ \A n \in accountCall[c].ids :
             /\ n \in DOMAIN connections
             /\ connections[n].account \in {accountCall[c].account, 0}
SettledIsActive ==
    \A a \in AccountIds : settled[a] # 0 =>
        /\ \E n \in DOMAIN connections :
             /\ ActiveOf(a) = {n}
             /\ connections[n].grant = settled[a]
             /\ connections[n].home = "personal"
        /\ \A c \in AccountCalls :
             accountCall[c].pc = "refresh" /\ accountCall[c].account = a
               => accountCall[c].grant = settled[a]
GrantsInv == SignInCovers /\ SettledIsActive

AccountsInv == TypesInv /\ LinksInv /\ GrantsInv

----------------------------------------------------------------------------
(* Types *)

\* An address that is found names a live account.
LEMMA FoundIsLive ==
    ASSUME NEW e, Found(e) # 0
    PROVE  Found(e) \in AccountIds /\ Found(e) \in DOMAIN accounts /\ Live(Found(e))
BY DEF Found, With, Live

\* The initial state has the types.
LEMMA InitTypes == ASSUME AccountsInit PROVE TypesInv
<1>. USE AccountBounds
<1>1. NoAccountCall \in CallRecords
    BY DEF NoAccountCall, CallRecords, AccountSteps, GoogleSteps
<1>2. AccountTypes
    BY <1>1 DEF AccountsInit, AccountTypes
<1>3. GrantsGiven
    BY DEF AccountsInit, GrantsGiven
<1>4. CallsMakeSense
  <2>1. /\ NoAccountCall.pc = "idle" /\ NoAccountCall.grant = 0 /\ Len(<< >>) \in Nat
      BY DEF NoAccountCall
  <2>2. Sensible(NoAccountCall, Len(<< >>), 0)
      BY <2>1 DEF Sensible, OnARow
  <2>. QED  BY <2>2 DEF AccountsInit, CallsMakeSense
<1>. QED  BY <1>2, <1>3, <1>4 DEF TypesInv

\* The names of the steps.
LEMMA StepNames ==
    AccountSteps = {"idle", "register", "refresh", "forgot", "reset",
                    "google user", "google update", "google insert"}
BY DEF AccountSteps, GoogleSteps

\* The bounds are natural numbers.
LEMMA Bounds ==
    /\ MaxAccounts \in Nat /\ MaxResets \in Nat /\ MaxGrants \in Nat
    /\ 0 \in 0..MaxGrants /\ \A g \in 0..MaxGrants : g \in Nat
    /\ Lower \in [Emails -> Emails]
BY AccountBounds

\* What made sense does when there are more accounts and grants.
LEMMA SensibleLater ==
    ASSUME NEW q \in CallRecords, NEW m \in Nat, NEW n \in Nat, m <= n,
           NEW g \in Nat, NEW h \in Nat, g <= h, Sensible(q, m, g)
    PROVE  Sensible(q, n, h)
<1>1. q.grant \in Nat /\ q.account \in Nat
  <2>1. q.grant \in 0..MaxGrants /\ q.account \in AccountIds \cup {0}
      BY DEF CallRecords
  <2>. QED  BY <2>1, Bounds DEF AccountIds
<1>2. q.grant <= g
    BY DEF Sensible
<1>3. q.grant <= h
    BY <1>1, <1>2
<1>4. \A a \in Nat : (a \in 0..m => a \in 0..n) /\ (a \in 1..m => a \in 1..n)
    OBVIOUS
<1>. QED  BY <1>1, <1>3, <1>4, Zenon DEF Sensible

\* One request goes on, and accounts and grants do not become fewer.
LEMMA OneCallTypes ==
    ASSUME TypesInv, NEW c \in AccountCalls, NEW q \in CallRecords,
           accountCall' = [accountCall EXCEPT ![c] = q],
           Len(accounts') \in Nat, grants' \in Nat,
           Len(accounts) <= Len(accounts'), grants <= grants',
           Sensible(q, Len(accounts'), grants')
    PROVE  accountCall' \in [AccountCalls -> CallRecords] /\ CallsMakeSense'
<1>. USE AccountBounds DEF TypesInv, AccountTypes
<1>1. accountCall' \in [AccountCalls -> CallRecords]
    OBVIOUS
<1>2. ASSUME NEW d \in AccountCalls PROVE Sensible(accountCall'[d], Len(accounts'), grants')
  <2>1. CASE d = c
    BY <2>1
  <2>2. CASE d # c
    <3>1. accountCall'[d] = accountCall[d] /\ accountCall[d] \in CallRecords
        BY <2>2
    <3>2. Sensible(accountCall[d], Len(accounts), grants)
        BY DEF CallsMakeSense
    <3>3. Len(accounts) \in Nat /\ grants \in Nat
        OBVIOUS
    <3>4. Sensible(accountCall[d], Len(accounts'), grants')
        BY ONLY <3>1, <3>2, <3>3, SensibleLater, Len(accounts') \in Nat, grants' \in Nat,
                Len(accounts) <= Len(accounts'), grants <= grants'
    <3>. QED  BY ONLY <3>1, <3>4
  <2>. QED  BY <2>1, <2>2
<1>. QED  BY <1>1, <1>2 DEF CallsMakeSense

\* A step of a request that leaves the tables alone.
LEMMA CallOnlyTypes ==
    ASSUME TypesInv, NEW c \in AccountCalls, NEW q \in CallRecords,
           accountCall' = [accountCall EXCEPT ![c] = q],
           accounts' = accounts, resets' = resets, connections' = connections,
           grants' \in 0..MaxGrants, grants <= grants',
           settled' = settled, crossed' \subseteq AccountIds,
           Sensible(q, Len(accounts), grants')
    PROVE  TypesInv'
<1>. USE AccountBounds
<1>1. /\ accountCall' \in [AccountCalls -> CallRecords] /\ CallsMakeSense'
  <2>1. /\ Len(accounts') \in Nat /\ grants' \in Nat /\ Len(accounts) <= Len(accounts')
        /\ Sensible(q, Len(accounts'), grants')
      BY DEF TypesInv, AccountTypes
  <2>. QED  BY <2>1, OneCallTypes
<1>2. AccountTypes'
    BY <1>1 DEF TypesInv, AccountTypes
<1>3. GrantsGiven'
  <2>. grants \in Nat /\ grants' \in Nat
    BY DEF TypesInv, AccountTypes
  <2>1. ASSUME NEW a \in DOMAIN accounts PROVE accounts[a].grant <= grants'
    <3>1. accounts[a] \in AccountRecords
        BY DEF TypesInv, AccountTypes
    <3>2. accounts[a].grant \in Nat /\ accounts[a].grant <= grants
        BY <3>1 DEF AccountRecords, TypesInv, GrantsGiven
    <3>. QED  BY <3>2
  <2>2. ASSUME NEW n \in DOMAIN connections PROVE connections[n].grant <= grants'
    <3>1. connections[n] \in ConnectionRecords
        BY DEF TypesInv, AccountTypes
    <3>2. connections[n].grant \in Nat /\ connections[n].grant <= grants
        BY <3>1 DEF ConnectionRecords, TypesInv, GrantsGiven
    <3>. QED  BY <3>2
  <2>. QED  BY <2>1, <2>2 DEF GrantsGiven
<1>. QED  BY <1>1, <1>2, <1>3 DEF TypesInv

\* An idle slot has nothing to make sense of.
LEMMA IdleCall ==
    /\ NoAccountCall \in CallRecords
    /\ \A n, g \in Nat : Sensible(NoAccountCall, n, g)
<1>1. NoAccountCall \in CallRecords
    BY Bounds DEF NoAccountCall, CallRecords, AccountSteps, GoogleSteps
<1>2. NoAccountCall.pc = "idle" /\ NoAccountCall.grant = 0
    BY DEF NoAccountCall
<1>. QED  BY <1>1, <1>2 DEF Sensible, OnARow

\* The fields of what a request in hand has read.
LEMMA CallFields ==
    ASSUME TypesInv, NEW c \in AccountCalls
    PROVE  /\ accountCall[c] \in CallRecords
           /\ accountCall[c].pc \in AccountSteps
           /\ accountCall[c].account \in AccountIds \cup {0}
           /\ accountCall[c].email \in Emails \cup {""}
           /\ accountCall[c].grant \in 0..MaxGrants /\ accountCall[c].grant \in 0..grants
           /\ accountCall[c].ids \in SUBSET Nat
           /\ accountCall[c].disturbed \in BOOLEAN
           /\ Sensible(accountCall[c], Len(accounts), grants)
           /\ Len(accounts) \in Nat /\ grants \in Nat /\ DOMAIN accounts = 1..Len(accounts)
<1>1. accountCall[c] \in CallRecords /\ Sensible(accountCall[c], Len(accounts), grants)
    BY DEF TypesInv, AccountTypes, CallsMakeSense
<1>2. Len(accounts) \in Nat /\ grants \in Nat /\ DOMAIN accounts = 1..Len(accounts)
    BY Bounds DEF TypesInv, AccountTypes
<1>3. /\ accountCall[c].pc \in AccountSteps
      /\ accountCall[c].account \in AccountIds \cup {0}
      /\ accountCall[c].email \in Emails \cup {""}
      /\ accountCall[c].grant \in 0..MaxGrants
      /\ accountCall[c].ids \in SUBSET Nat
      /\ accountCall[c].disturbed \in BOOLEAN
    BY <1>1 DEF CallRecords
<1>4. accountCall[c].grant \in 0..grants
  <2>1. accountCall[c].grant <= grants
      BY <1>1, Zenon DEF Sensible
  <2>2. accountCall[c].grant \in Nat
      BY <1>3, Bounds, Zenon
  <2>. QED  BY ONLY <2>1, <2>2, <1>2
<1>. QED  BY <1>1, <1>2, <1>3, <1>4

\* The rows a request reads or writes have their types.
LEMMA RowTypes ==
    ASSUME TypesInv
    PROVE  /\ \A a \in DOMAIN accounts :
                /\ accounts[a] \in AccountRecords /\ a \in AccountIds
                /\ accounts[a].grant \in 0..grants
           /\ \A i \in DOMAIN resets : resets[i] \in ResetRecords
           /\ \A n \in DOMAIN connections :
                connections[n] \in ConnectionRecords /\ connections[n].grant \in 0..grants
<1>. USE Bounds
<1>1. ASSUME NEW a \in DOMAIN accounts
      PROVE  /\ accounts[a] \in AccountRecords /\ a \in AccountIds
             /\ accounts[a].grant \in 0..grants
  <2>1. accounts[a] \in AccountRecords /\ a \in AccountIds
      BY DEF TypesInv, AccountTypes, AccountIds
  <2>2. accounts[a].grant \in 0..MaxGrants /\ accounts[a].grant <= grants /\ grants \in Nat
      BY <2>1 DEF AccountRecords, TypesInv, GrantsGiven, AccountTypes
  <2>. QED  BY <2>1, <2>2
<1>2. \A i \in DOMAIN resets : resets[i] \in ResetRecords
    BY DEF TypesInv, AccountTypes
<1>3. ASSUME NEW n \in DOMAIN connections
      PROVE  connections[n] \in ConnectionRecords /\ connections[n].grant \in 0..grants
  <2>1. connections[n] \in ConnectionRecords
      BY DEF TypesInv, AccountTypes
  <2>2. connections[n].grant \in 0..MaxGrants /\ connections[n].grant <= grants /\ grants \in Nat
      BY <2>1 DEF ConnectionRecords, TypesInv, GrantsGiven, AccountTypes
  <2>. QED  BY <2>1, <2>2
<1>. QED  BY <1>1, <1>2, <1>3

\* Marking calls as disturbed changes nothing else of them.
LEMMA DisturbedCalls ==
    ASSUME TypesInv, NEW W \in SUBSET AccountCalls
    PROVE  /\ Disturbing(W) \in [AccountCalls -> CallRecords]
           /\ \A c \in AccountCalls :
                /\ Sensible(Disturbing(W)[c], Len(accounts), grants)
                /\ Disturbing(W)[c].pc = accountCall[c].pc
                /\ Disturbing(W)[c].account = accountCall[c].account
                /\ Disturbing(W)[c].grant = accountCall[c].grant
                /\ Disturbing(W)[c].ids = accountCall[c].ids
                /\ c \in W => Disturbing(W)[c].disturbed
                /\ c \notin W => Disturbing(W)[c] = accountCall[c]
<1>1. ASSUME NEW c \in AccountCalls
      PROVE  /\ Disturbing(W)[c] \in CallRecords
             /\ Sensible(Disturbing(W)[c], Len(accounts), grants)
             /\ Disturbing(W)[c].pc = accountCall[c].pc
             /\ Disturbing(W)[c].account = accountCall[c].account
             /\ Disturbing(W)[c].grant = accountCall[c].grant
             /\ Disturbing(W)[c].ids = accountCall[c].ids
             /\ c \in W => Disturbing(W)[c].disturbed
             /\ c \notin W => Disturbing(W)[c] = accountCall[c]
  <2>1. PICK q \in CallRecords : q = accountCall[c] /\ Sensible(q, Len(accounts), grants)
      BY CallFields
  <2>2. PICK r : r = [q EXCEPT !.disturbed = TRUE]
      OBVIOUS
  <2>3. /\ r \in CallRecords /\ r.disturbed
        /\ r.pc = q.pc /\ r.account = q.account /\ r.grant = q.grant /\ r.ids = q.ids
        /\ r.email = q.email
      BY <2>2 DEF CallRecords
  <2>4. Sensible(r, Len(accounts), grants)
      BY <2>1, <2>3 DEF Sensible
  <2>5. Disturbing(W)[c] = IF c \in W THEN r ELSE q
      BY <2>1, <2>2 DEF Disturbing
  <2>. QED  BY ONLY <2>1, <2>3, <2>4, <2>5
<1>. QED  BY <1>1 DEF Disturbing

\* Any step of one request that keeps the types of the tables.
LEMMA OneCallStep ==
    ASSUME TypesInv, NEW c \in AccountCalls, NEW q \in CallRecords,
           accountCall' = [accountCall EXCEPT ![c] = q],
           accounts' \in Seq(AccountRecords), Len(accounts') <= MaxAccounts,
           Len(accounts) <= Len(accounts'),
           resets' \in Seq(ResetRecords),
           connections' \in Seq(ConnectionRecords),
           grants' = grants, settled' \in [AccountIds -> 0..grants], crossed' = crossed,
           GrantsGiven',
           Sensible(q, Len(accounts'), grants)
    PROVE  TypesInv'
<1>1. /\ Len(accounts') \in Nat /\ grants' \in Nat /\ grants <= grants'
      /\ Sensible(q, Len(accounts'), grants')
    BY Bounds DEF TypesInv, AccountTypes
<1>2. accountCall' \in [AccountCalls -> CallRecords] /\ CallsMakeSense'
    BY <1>1, OneCallTypes
<1>3. AccountTypes'
    BY <1>2 DEF TypesInv, AccountTypes
<1>. QED  BY <1>2, <1>3 DEF TypesInv

\* Any step that writes Google tokens: it disturbs the calls in W, and ends
\* those in E.
LEMMA TokenStep ==
    ASSUME TypesInv, NEW W \in SUBSET AccountCalls, NEW E \in SUBSET AccountCalls,
           accountCall' = [c \in AccountCalls |->
                             IF c \in E THEN NoAccountCall ELSE Disturbing(W)[c]],
           accounts' \in Seq(AccountRecords), Len(accounts') = Len(accounts),
           resets' \in Seq(ResetRecords),
           connections' \in Seq(ConnectionRecords),
           grants' \in 0..MaxGrants, grants <= grants',
           settled' \in [AccountIds -> 0..grants'], crossed' = crossed,
           GrantsGiven'
    PROVE  TypesInv'
<1>1. /\ Len(accounts) \in Nat /\ Len(accounts') \in Nat /\ grants \in Nat /\ grants' \in Nat
      /\ Len(accounts') <= MaxAccounts
    BY Bounds DEF TypesInv, AccountTypes
<1>2. ASSUME NEW c \in AccountCalls
      PROVE  /\ accountCall'[c] \in CallRecords
             /\ Sensible(accountCall'[c], Len(accounts'), grants')
  <2>1. PICK d \in CallRecords : d = Disturbing(W)[c] /\ Sensible(d, Len(accounts), grants)
      BY DisturbedCalls
  <2>2. accountCall'[c] = IF c \in E THEN NoAccountCall ELSE d
      BY <2>1
  <2>3. Sensible(d, Len(accounts'), grants')
      BY <1>1, <2>1, SensibleLater
  <2>4. Sensible(NoAccountCall, Len(accounts'), grants') /\ NoAccountCall \in CallRecords
      BY <1>1, IdleCall
  <2>. QED  BY ONLY <2>2, <2>3, <2>4, d \in CallRecords
<1>3. accountCall' \in [AccountCalls -> CallRecords]
    BY <1>2
<1>4. AccountTypes'
    BY <1>1, <1>3 DEF TypesInv, AccountTypes
<1>. QED  BY <1>2, <1>4 DEF TypesInv, CallsMakeSense

\* The steps that change no table but a request, Google's count and the history.
LEMMA RequestsTypes ==
    ASSUME TypesInv, NEW c \in AccountCalls,
           \/ \E e \in Emails : Register(c, e) \/ SignInWithGoogle(c, e) \/ ForgotPassword(c, e)
           \/ DeactivateConnections(c)
           \/ \E a \in AccountIds : BeginRefresh(c, a)
           \/ FailAccountCall(c)
    PROVE  TypesInv'
<1>0. /\ Len(accounts) \in Nat /\ DOMAIN accounts = 1..Len(accounts)
      /\ grants \in 0..MaxGrants /\ grants \in Nat
      /\ crossed \subseteq AccountIds
      /\ grants <= grants /\ grants <= grants + 1
    BY Bounds DEF TypesInv, AccountTypes
<1>. DEFINE Goes(q, g) ==
              /\ accountCall' = [accountCall EXCEPT ![c] = q]
              /\ accounts' = accounts /\ resets' = resets /\ connections' = connections
              /\ grants' = g /\ settled' = settled
<1>a. ASSUME NEW q \in CallRecords, NEW g \in 0..MaxGrants, grants <= g, Goes(q, g),
             Sensible(q, Len(accounts), g), crossed' \subseteq AccountIds
      PROVE  TypesInv'
    BY <1>a, CallOnlyTypes
<1>. HIDE DEF Goes
<1>1. ASSUME NEW e \in Emails, Register(c, e) PROVE TypesInv'
  <2>1. PICK q : q = [NoAccountCall EXCEPT !.pc = "register", !.email = Lower[e]]
      OBVIOUS
  <2>. /\ Lower[e] \in Emails /\ 0 \in 0..MaxGrants
      BY Bounds
  <2>2. /\ q \in CallRecords /\ q.grant = 0 /\ q.pc = "register" /\ q.email \in Emails
      BY <2>1, StepNames DEF NoAccountCall, CallRecords
  <2>3. Sensible(q, Len(accounts), grants)
      BY <1>0, <2>2 DEF Sensible, OnARow
  <2>4. Goes(q, grants) /\ crossed' = crossed
      BY <1>1, <2>1 DEF Goes, Register, BeginAccountCall
  <2>. QED  BY <1>0, <1>a, <2>2, <2>3, <2>4
<1>2. ASSUME NEW e \in Emails, SignInWithGoogle(c, e) PROVE TypesInv'
  <2>1. PICK q : q = [NoAccountCall EXCEPT !.pc = "google user", !.email = e,
                        !.account = Found(e), !.grant = grants + 1]
      OBVIOUS
  <2>2. Found(e) \in AccountIds \cup {0} /\ Found(e) \in 0..Len(accounts)
    <3>1. CASE Found(e) = 0
        BY <1>0, <3>1
    <3>2. CASE Found(e) # 0
        BY <1>0, <3>2, FoundIsLive
    <3>. QED  BY <3>1, <3>2
  <2>3. grants + 1 \in 0..MaxGrants
    <3>1. grants < MaxGrants
        BY <1>2, Zenon DEF SignInWithGoogle
    <3>. QED  BY <1>0, <3>1, Bounds
  <2>4. /\ q \in CallRecords /\ q.grant = grants + 1 /\ q.pc = "google user"
        /\ q.email \in Emails /\ q.account = Found(e)
      BY <2>1, <2>2, <2>3, StepNames DEF NoAccountCall, CallRecords
  <2>5. Sensible(q, Len(accounts), grants + 1)
    <3>0. grants + 1 <= grants + 1
        BY <1>0
    <3>1. q.grant <= grants + 1
        BY <2>4, <3>0, Zenon
    <3>. QED  BY <2>2, <2>4, <3>1 DEF Sensible, OnARow
  <2>6. Goes(q, grants + 1) /\ crossed' = crossed
      BY <1>2, <2>1 DEF Goes, SignInWithGoogle, BeginAccountCall
  <2>. QED  BY <1>0, <1>a, <2>3, <2>4, <2>5, <2>6
<1>3. ASSUME NEW e \in Emails, ForgotPassword(c, e) PROVE TypesInv'
  <2>1. PICK a : a = Found(Lower[e])
      OBVIOUS
  <2>2. PICK q : q = [NoAccountCall EXCEPT !.pc = "forgot", !.account = a, !.ids = UnusedOf(a)]
      OBVIOUS
  <2>3. a \in AccountIds /\ a \in 1..Len(accounts)
    <3>1. Found(Lower[e]) # 0
        BY <1>3 DEF ForgotPassword
    <3>. QED  BY <1>0, <2>1, <3>1, FoundIsLive
  <2>4. UnusedOf(a) \in SUBSET Nat /\ 0 \in 0..MaxGrants
      BY Bounds DEF UnusedOf, TypesInv, AccountTypes
  <2>5. Goes(q, grants) /\ crossed' \subseteq crossed \cup {a}
      BY <1>3, <2>1, <2>2 DEF Goes, ForgotPassword, BeginAccountCall
  <2>6. /\ q \in CallRecords /\ q.grant = 0 /\ q.pc = "forgot" /\ q.account = a
      BY <2>2, <2>3, <2>4, StepNames DEF NoAccountCall, CallRecords
  <2>7. Sensible(q, Len(accounts), grants)
      BY <1>0, <2>3, <2>6 DEF Sensible, OnARow
  <2>. QED  BY <1>0, <1>a, <2>3, <2>5, <2>6, <2>7
<1>4. ASSUME DeactivateConnections(c) PROVE TypesInv'
  <2>1. PICK q \in CallRecords : q = accountCall[c]
      BY CallFields
  <2>2. PICK ns : ns = {n \in DOMAIN connections : connections[n].account = q.account}
      OBVIOUS
  <2>3. ns \in SUBSET Nat
      BY <2>2 DEF TypesInv, AccountTypes
  <2>4. PICK r : r = [q EXCEPT !.pc = "google insert", !.ids = ns]
      OBVIOUS
  <2>5. /\ r \in CallRecords /\ r.pc = "google insert"
        /\ r.grant = q.grant /\ r.account = q.account
      BY <2>3, <2>4, StepNames DEF CallRecords
  <2>6. Sensible(q, Len(accounts), grants) /\ q.pc = "google update"
      BY <1>4, <2>1, CallFields DEF DeactivateConnections, AccountCallAt
  <2>7. Sensible(r, Len(accounts), grants)
      BY <2>5, <2>6 DEF Sensible, OnARow
  <2>8. accountCall' = [accountCall EXCEPT ![c] = r]
    <3>1. accountCall' = [accountCall EXCEPT ![c] = [accountCall[c] EXCEPT
            !.pc = "google insert",
            !.ids = {n \in DOMAIN connections : connections[n].account = accountCall[c].account}]]
        BY <1>4, CallFields DEF DeactivateConnections, TypesInv, AccountTypes
    <3>. QED  BY <3>1, <2>1, <2>2, <2>4
  <2>9. Goes(r, grants) /\ crossed' = crossed
      BY <1>4, <2>8 DEF Goes, DeactivateConnections
  <2>. QED  BY <1>0, <1>a, <2>5, <2>7, <2>9
<1>5. ASSUME NEW a \in AccountIds, BeginRefresh(c, a) PROVE TypesInv'
  <2>1. PICK g \in Usable(a) : BeginAccountCall(c, [NoAccountCall EXCEPT
                                   !.pc = "refresh", !.account = a, !.grant = g])
      BY <1>5 DEF BeginRefresh
  <2>0. a \in DOMAIN accounts
      BY <1>5 DEF BeginRefresh, Live
  <2>2. g \in 0..grants /\ g \in 0..MaxGrants
    <3>1. g \in 0..grants
      <4>1. CASE ActiveOf(a) # {}
        <5>1. PICK n \in ActiveOf(a) : g = connections[n].grant
            BY <2>1, <4>1 DEF Usable
        <5>2. n \in DOMAIN connections
            BY DEF ActiveOf
        <5>. QED  BY <5>1, <5>2, RowTypes
      <4>2. CASE ActiveOf(a) = {}
        <5>1. g = accounts[a].grant
            BY <2>1, <4>2 DEF Usable
        <5>. QED  BY <2>0, <5>1, RowTypes
      <4>. QED  BY <4>1, <4>2
    <3>. QED  BY <1>0, <3>1, Bounds
  <2>3. PICK q : q = [NoAccountCall EXCEPT !.pc = "refresh", !.account = a, !.grant = g]
      OBVIOUS
  <2>4. q \in CallRecords /\ q.pc = "refresh" /\ q.account = a /\ q.grant = g
      BY <2>2, <2>3, StepNames DEF NoAccountCall, CallRecords
  <2>5. Sensible(q, Len(accounts), grants)
      BY <1>0, <2>0, <2>2, <2>4 DEF Sensible, OnARow
  <2>6. Goes(q, grants) /\ crossed' = crossed
      BY <1>5, <2>1, <2>3 DEF Goes, BeginRefresh, BeginAccountCall
  <2>. QED  BY <1>0, <1>a, <2>4, <2>5, <2>6
<1>6. ASSUME FailAccountCall(c) PROVE TypesInv'
  <2>1. Goes(NoAccountCall, grants) /\ crossed' = crossed
      BY <1>6 DEF Goes, FailAccountCall, EndAccountCall
  <2>. QED  BY <1>0, <1>a, <2>1, IdleCall
<1>. QED  BY <1>1, <1>2, <1>3, <1>4, <1>5, <1>6

\* Appending a row, or writing to one, keeps a table's type.
LEMMA AccountAdded ==
    ASSUME TypesInv, NEW e \in Emails, NEW p \in BOOLEAN, NEW g \in 0..grants,
           AddAccount(e, p, g)
    PROVE  /\ accounts' \in Seq(AccountRecords)
           /\ Len(accounts') = Len(accounts) + 1 /\ Len(accounts') <= MaxAccounts
           /\ \A a \in DOMAIN accounts' : accounts'[a].grant <= grants
<1>0. accounts \in Seq(AccountRecords) /\ Len(accounts) < MaxAccounts /\ Len(accounts) \in Nat
    BY DEF TypesInv, AccountTypes, AddAccount
<1>1. PICK r : r = [email |-> e, password |-> p, live |-> TRUE, grant |-> g]
    OBVIOUS
<1>2. g <= grants /\ g \in 0..MaxGrants
    BY Bounds DEF TypesInv, AccountTypes
<1>3. r \in AccountRecords /\ r.grant <= grants
    BY <1>1, <1>2 DEF AccountRecords
<1>4. accounts' = Append(accounts, r)
    BY <1>1 DEF AddAccount
<1>5. /\ accounts' \in Seq(AccountRecords)
      /\ Len(accounts') = Len(accounts) + 1 /\ Len(accounts') <= MaxAccounts
    BY <1>0, <1>3, <1>4, Bounds
<1>6. ASSUME NEW a \in DOMAIN accounts' PROVE accounts'[a].grant <= grants
  <2>1. CASE a = Len(accounts) + 1
      BY <1>0, <1>3, <1>4, <2>1
  <2>2. CASE a # Len(accounts) + 1
    <3>1. a \in DOMAIN accounts /\ accounts'[a] = accounts[a]
        BY <1>0, <1>4, <1>5, <2>2
    <3>. QED  BY <3>1 DEF TypesInv, GrantsGiven
  <2>. QED  BY <2>1, <2>2
<1>. QED  BY <1>5, <1>6

\* A grant is written to the row of a user, if it is still there.
LEMMA AccountGranted ==
    ASSUME TypesInv, NEW a \in DOMAIN accounts, NEW g \in 0..grants,
           accounts' = [accounts EXCEPT ![a].grant = IF Live(a) THEN g ELSE @]
    PROVE  /\ accounts' \in Seq(AccountRecords) /\ Len(accounts') = Len(accounts)
           /\ \A b \in DOMAIN accounts' : accounts'[b].grant <= grants
<1>1. PICK r \in AccountRecords : r = accounts[a] /\ r.grant \in 0..grants
    BY RowTypes
<1>2. PICK h : h = IF Live(a) THEN g ELSE r.grant
    OBVIOUS
<1>3. PICK q : q = [r EXCEPT !.grant = h]
    OBVIOUS
<1>4. grants \in 0..MaxGrants /\ grants \in Nat /\ accounts \in Seq(AccountRecords)
    BY Bounds DEF TypesInv, AccountTypes
<1>5. h \in 0..grants
    BY <1>1, <1>2
<1>6. h \in 0..MaxGrants /\ h <= grants
    BY <1>4, <1>5, Bounds
<1>7. q \in AccountRecords /\ q.grant = h
    BY <1>3, <1>6 DEF AccountRecords
<1>8. accounts' = [accounts EXCEPT ![a] = q]
    BY <1>1, <1>2, <1>3
<1>9. accounts' \in Seq(AccountRecords) /\ Len(accounts') = Len(accounts)
    BY <1>4, <1>7, <1>8
<1>10. ASSUME NEW b \in DOMAIN accounts' PROVE accounts'[b].grant <= grants
  <2>0. b \in DOMAIN accounts
      BY <1>8
  <2>1. CASE b = a
      BY <1>6, <1>7, <1>8, <2>1
  <2>2. CASE b # a
    <3>1. accounts'[b] = accounts[b]
        BY <1>8, <2>0, <2>2
    <3>. QED  BY <2>0, <3>1 DEF TypesInv, GrantsGiven
  <2>. QED  BY <2>1, <2>2
<1>. QED  BY <1>9, <1>10

\* Any rows of the type in place of those there were.
LEMMA ConnectionsMapped ==
    ASSUME TypesInv, NEW g \in Nat, grants <= g,
           connections' \in Seq(ConnectionRecords),
           \A n \in DOMAIN connections' :
             \/ connections'[n].grant \in 0..g
             \/ n \in DOMAIN connections /\ connections'[n].grant = connections[n].grant
    PROVE  \A n \in DOMAIN connections' : connections'[n].grant <= g
<1>. TAKE n \in DOMAIN connections'
<1>0. grants \in Nat
    BY Bounds DEF TypesInv, AccountTypes
<1>1. CASE connections'[n].grant \in 0..g
    BY <1>1
<1>2. CASE n \in DOMAIN connections /\ connections'[n].grant = connections[n].grant
    BY <1>0, <1>2, RowTypes
<1>. QED  BY <1>1, <1>2

\* The steps that insert or write a user.
LEMMA UsersTypes ==
    ASSUME TypesInv, NEW c \in AccountCalls, CommitRegister(c) \/ SaveGoogleUser(c)
    PROVE  TypesInv'
<1>0. /\ Len(accounts) \in Nat /\ DOMAIN accounts = 1..Len(accounts)
      /\ accounts \in Seq(AccountRecords) /\ Len(accounts) <= MaxAccounts
      /\ resets \in Seq(ResetRecords) /\ connections \in Seq(ConnectionRecords)
      /\ grants \in Nat /\ grants <= grants
      /\ settled \in [AccountIds -> 0..grants]
      /\ MaxAccounts \in Nat
    BY Bounds DEF TypesInv, AccountTypes
<1>. DEFINE Goes(q) ==
              /\ accountCall' = [accountCall EXCEPT ![c] = q]
              /\ resets' = resets /\ connections' = connections
              /\ grants' = grants /\ settled' = settled /\ crossed' = crossed
<1>a. ASSUME NEW q \in CallRecords, Goes(q),
             accounts' \in Seq(AccountRecords), Len(accounts') <= MaxAccounts,
             Len(accounts) <= Len(accounts'),
             \A a \in DOMAIN accounts' : accounts'[a].grant <= grants,
             Sensible(q, Len(accounts'), grants)
      PROVE  TypesInv'
  <2>1. GrantsGiven'
      BY <1>a DEF GrantsGiven, TypesInv
  <2>. QED  BY <1>0, <1>a, <2>1, OneCallStep
<1>. HIDE DEF Goes
<1>b. ASSUME accounts' = accounts
      PROVE  /\ accounts' \in Seq(AccountRecords) /\ Len(accounts') <= MaxAccounts
             /\ Len(accounts) <= Len(accounts')
             /\ \A a \in DOMAIN accounts' : accounts'[a].grant <= grants
             /\ Sensible(NoAccountCall, Len(accounts'), grants)
    BY <1>0, <1>b, IdleCall DEF TypesInv, GrantsGiven
<1>1. CASE CommitRegister(c)
  <2>1. Goes(NoAccountCall)
      BY <1>1 DEF CommitRegister, EndAccountCall, Goes
  <2>2. CASE Found(accountCall[c].email) # 0
      BY <1>1, <1>a, <1>b, <2>1, <2>2, IdleCall DEF CommitRegister
  <2>3. CASE Found(accountCall[c].email) = 0
    <3>1. AddAccount(accountCall[c].email, TRUE, 0)
        BY <1>1, <2>3 DEF CommitRegister
    <3>2. accountCall[c].email \in Emails
        BY <1>1, CallFields DEF CommitRegister, AccountCallAt, Sensible
    <3>3. 0 \in 0..grants
        BY <1>0
    <3>4. /\ accounts' \in Seq(AccountRecords)
          /\ Len(accounts') = Len(accounts) + 1 /\ Len(accounts') <= MaxAccounts
          /\ \A a \in DOMAIN accounts' : accounts'[a].grant <= grants
        BY <3>1, <3>2, <3>3, AccountAdded
    <3>5. Len(accounts) <= Len(accounts') /\ Sensible(NoAccountCall, Len(accounts'), grants)
        BY <1>0, <3>4, IdleCall
    <3>. QED  BY <1>a, <2>1, <3>4, <3>5, IdleCall
  <2>. QED  BY <2>2, <2>3
<1>2. CASE SaveGoogleUser(c)
  <2>1. PICK q \in CallRecords : /\ q = accountCall[c] /\ Sensible(q, Len(accounts), grants)
                                 /\ q.grant \in 0..grants
      BY CallFields
  <2>2. q.pc = "google user"
      BY <1>2, <2>1 DEF SaveGoogleUser, AccountCallAt
  <2>3. /\ resets' = resets /\ connections' = connections
        /\ grants' = grants /\ settled' = settled /\ crossed' = crossed
      BY <1>2 DEF SaveGoogleUser
  <2>4. q.email \in Emails /\ q.account \in 0..Len(accounts) /\ q.grant <= grants
      BY <2>1, <2>2 DEF Sensible
  <2>5. CASE q.account # 0
    <3>1. PICK r : r = [q EXCEPT !.pc = "google update"]
        OBVIOUS
    <3>2. /\ r \in CallRecords /\ r.pc = "google update"
          /\ r.account = q.account /\ r.grant = q.grant
        BY <3>1, StepNames DEF CallRecords
    <3>3. /\ accounts' = [accounts EXCEPT ![q.account].grant = IF Live(q.account) THEN q.grant ELSE @]
          /\ accountCall' = [accountCall EXCEPT ![c] = r]
        BY <1>2, <2>1, <2>5, <3>1 DEF SaveGoogleUser
    <3>4. q.account \in DOMAIN accounts /\ q.account \in 1..Len(accounts)
        BY <1>0, <2>4, <2>5
    <3>5. /\ accounts' \in Seq(AccountRecords) /\ Len(accounts') = Len(accounts)
          /\ \A b \in DOMAIN accounts' : accounts'[b].grant <= grants
        BY <2>1, <3>3, <3>4, AccountGranted
    <3>6. Sensible(r, Len(accounts'), grants)
        BY <2>4, <3>2, <3>4, <3>5 DEF Sensible, OnARow
    <3>7. Goes(r)
        BY <2>3, <3>3 DEF Goes
    <3>8. Len(accounts') <= MaxAccounts /\ Len(accounts) <= Len(accounts')
        BY <1>0, <3>5
    <3>. QED  BY <1>a, <3>2, <3>5, <3>6, <3>7, <3>8
  <2>6. CASE q.account = 0 /\ Found(q.email) # 0
    <3>1. accounts' = accounts /\ Goes(NoAccountCall)
        BY <1>2, <2>1, <2>3, <2>6 DEF SaveGoogleUser, EndAccountCall, Goes
    <3>. QED  BY <1>a, <1>b, <3>1, IdleCall
  <2>7. CASE q.account = 0 /\ Found(q.email) = 0
    <3>1. PICK r : r = [q EXCEPT !.pc = "google update", !.account = Len(accounts) + 1]
        OBVIOUS
    <3>2. /\ AddAccount(q.email, FALSE, q.grant)
          /\ accountCall' = [accountCall EXCEPT ![c] = r]
        BY <1>2, <2>1, <2>7, <3>1 DEF SaveGoogleUser
    <3>3. /\ accounts' \in Seq(AccountRecords)
          /\ Len(accounts') = Len(accounts) + 1 /\ Len(accounts') <= MaxAccounts
          /\ \A a \in DOMAIN accounts' : accounts'[a].grant <= grants
        BY <2>1, <2>4, <3>2, AccountAdded
    <3>4. Len(accounts) + 1 \in AccountIds /\ Len(accounts) + 1 \in 1..Len(accounts')
          /\ Len(accounts) <= Len(accounts')
        BY <1>0, <3>3 DEF AccountIds
    <3>5. /\ r \in CallRecords /\ r.pc = "google update"
          /\ r.account = Len(accounts) + 1 /\ r.grant = q.grant
        BY <3>1, <3>4, StepNames DEF CallRecords
    <3>6. Sensible(r, Len(accounts'), grants)
        BY <2>4, <3>4, <3>5 DEF Sensible, OnARow
    <3>7. Goes(r)
        BY <2>3, <3>2 DEF Goes
    <3>. QED  BY <1>a, <3>3, <3>4, <3>5, <3>6, <3>7
  <2>. QED  BY <2>5, <2>6, <2>7
<1>. QED  BY <1>1, <1>2

\* A new connection, and a deleted one, are rows of the table.
LEMMA ConnectionTypes ==
    /\ Gone \in ConnectionRecords /\ Gone.grant = 0 /\ Gone.account = 0 /\ ~Gone.active
    /\ \A a \in AccountIds, home \in {"personal", "org"}, g \in 0..MaxGrants :
         /\ Connection(a, home, g) \in ConnectionRecords
         /\ Connection(a, home, g).grant = g /\ Connection(a, home, g).account = a
         /\ Connection(a, home, g).home = home /\ Connection(a, home, g).active
BY Bounds DEF Gone, Connection, ConnectionRecords

\* What AddConnection does to the rows there are.
LEMMA AddedConnection ==
    ASSUME TypesInv, NEW c \in AccountCalls, AddConnection(c)
    PROVE  /\ accountCall[c].account \in AccountIds
           /\ connections' \in Seq(ConnectionRecords)
           /\ Len(connections') = Len(connections) + 1
           /\ Len(connections) \in Nat /\ DOMAIN connections = 1..Len(connections)
           /\ DOMAIN connections' = 1..(Len(connections) + 1)
           /\ \A n \in DOMAIN connections :
                /\ n \in DOMAIN connections'
                /\ connections'[n].account = connections[n].account
                /\ connections'[n].grant = connections[n].grant
                /\ connections'[n].home = connections[n].home
                /\ connections'[n].active
                     = (connections[n].active /\ n \notin accountCall[c].ids)
           /\ connections'[Len(connections) + 1]
                = Connection(accountCall[c].account, "personal", accountCall[c].grant)
<1>0. connections \in Seq(ConnectionRecords) /\ Len(connections) \in Nat
      /\ DOMAIN connections = 1..Len(connections)
    BY DEF TypesInv, AccountTypes
<1>1. PICK a : a = accountCall[c].account
    OBVIOUS
<1>2. PICK g : g = accountCall[c].grant
    OBVIOUS
<1>3. PICK ids : ids = accountCall[c].ids
    OBVIOUS
<1>4. a \in AccountIds /\ g \in 0..MaxGrants
  <2>1. a \in DOMAIN accounts
      BY <1>1, CallFields DEF AddConnection, AccountCallAt, Sensible, OnARow
  <2>. QED  BY <1>2, <2>1, CallFields, RowTypes
<1>5. PICK new : new = Connection(a, "personal", g)
    OBVIOUS
<1>6. PICK kept : kept = [n \in DOMAIN connections |->
                            IF n \in ids THEN [connections[n] EXCEPT !.active = FALSE]
                                         ELSE connections[n]]
    OBVIOUS
<1>7. connections' = Append(kept, new)
    BY <1>1, <1>2, <1>3, <1>5, <1>6 DEF AddConnection
<1>8. ASSUME NEW n \in DOMAIN connections
      PROVE  /\ kept[n] \in ConnectionRecords
             /\ kept[n].account = connections[n].account /\ kept[n].grant = connections[n].grant
             /\ kept[n].home = connections[n].home
             /\ kept[n].active = (connections[n].active /\ n \notin ids)
  <2>1. PICK r \in ConnectionRecords : r = connections[n]
      BY <1>0
  <2>2. PICK q : q = [r EXCEPT !.active = FALSE]
      OBVIOUS
  <2>3. /\ q \in ConnectionRecords /\ q.account = r.account /\ q.grant = r.grant
        /\ q.home = r.home /\ q.active = FALSE /\ r.active \in BOOLEAN
      BY <2>2 DEF ConnectionRecords
  <2>4. kept[n] = IF n \in ids THEN q ELSE r
      BY <1>6, <2>1, <2>2
  <2>5. CASE n \in ids
      BY <2>1, <2>3, <2>4, <2>5
  <2>6. CASE n \notin ids
    <3>1. kept[n] = r
        BY <2>4, <2>6
    <3>. QED  BY <2>1, <2>3, <2>6, <3>1
  <2>. QED  BY <2>5, <2>6
<1>9. new \in ConnectionRecords
    BY <1>4, <1>5, ConnectionTypes
<1>10. kept \in Seq(ConnectionRecords) /\ Len(kept) = Len(connections)
       /\ DOMAIN kept = DOMAIN connections
  <2>1. kept \in [1..Len(connections) -> ConnectionRecords]
      BY <1>0, <1>6, <1>8
  <2>. QED  BY <1>0, <2>1
<1>11. /\ connections' \in Seq(ConnectionRecords)
       /\ Len(connections') = Len(connections) + 1
       /\ DOMAIN connections' = 1..(Len(connections) + 1)
       /\ connections'[Len(connections) + 1] = new
       /\ \A n \in DOMAIN connections : n \in DOMAIN connections' /\ connections'[n] = kept[n]
    BY <1>0, <1>7, <1>9, <1>10
<1>. QED  BY <1>0, <1>1, <1>2, <1>3, <1>4, <1>5, <1>8, <1>11

\* What ending a write, or only disturbing, makes of the calls.
LEMMA WriteEnds ==
    ASSUME TypesInv, NEW c \in AccountCalls, EndWrite(c)
    PROVE  accountCall' = [d \in AccountCalls |->
             IF d \in {c} THEN NoAccountCall ELSE Disturbing(Writing(accountCall[c].account))[d]]
BY DEF EndWrite, Disturbing

\* The sign-in's connection.
LEMMA AddConnectionTypes ==
    ASSUME TypesInv, NEW c \in AccountCalls, AddConnection(c)
    PROVE  TypesInv'
<1>0. /\ grants \in 0..MaxGrants /\ grants \in Nat /\ grants <= grants /\ 0 \in 0..grants
      /\ accounts \in Seq(AccountRecords) /\ resets \in Seq(ResetRecords)
      /\ settled \in [AccountIds -> 0..grants]
    BY Bounds DEF TypesInv, AccountTypes
<1>1. PICK a : a = accountCall[c].account
    OBVIOUS
<1>2. PICK W : W = Writing(a)
    OBVIOUS
<1>3. W \in SUBSET AccountCalls
    BY <1>2 DEF Writing
<1>4. accountCall' = [d \in AccountCalls |-> IF d \in {c} THEN NoAccountCall ELSE Disturbing(W)[d]]
    BY <1>1, <1>2, WriteEnds DEF AddConnection
<1>5. /\ accounts' = accounts /\ resets' = resets /\ grants' = grants /\ crossed' = crossed
    BY DEF AddConnection
<1>6. settled' \in [AccountIds -> 0..grants]
  <2>1. PICK h : settled' = [settled EXCEPT ![a] = h] /\ h \in {accountCall[c].grant, 0}
      BY <1>1 DEF AddConnection, Settle
  <2>2. h \in 0..grants
      BY <1>0, <2>1, CallFields
  <2>. QED  BY <1>0, <2>1, <2>2
<1>7. connections' \in Seq(ConnectionRecords)
    BY AddedConnection
<1>8. \A n \in DOMAIN connections' : connections'[n].grant <= grants
  <2>1. ASSUME NEW n \in DOMAIN connections'
        PROVE  \/ connections'[n].grant \in 0..grants
               \/ n \in DOMAIN connections /\ connections'[n].grant = connections[n].grant
    <3>1. CASE n = Len(connections) + 1
      <4>1. connections'[n].grant = accountCall[c].grant
        <5>1. PICK g \in 0..MaxGrants : g = accountCall[c].grant
            BY CallFields
        <5>2. PICK b \in AccountIds : b = accountCall[c].account
            BY AddedConnection
        <5>3. Connection(b, "personal", g).grant = g
            BY ConnectionTypes
        <5>. QED  BY <3>1, <5>1, <5>2, <5>3, AddedConnection
      <4>. QED  BY <4>1, CallFields
    <3>2. CASE n # Len(connections) + 1
        BY <3>2, AddedConnection
    <3>. QED  BY <3>1, <3>2
  <2>. QED  BY <1>0, <1>7, <2>1, ConnectionsMapped
<1>9. GrantsGiven'
    BY <1>5, <1>8 DEF GrantsGiven, TypesInv
<1>. QED  BY <1>0, <1>3, <1>4, <1>5, <1>6, <1>7, <1>9, TokenStep

\* What SaveRefreshed does: it writes to one active connection, if there is one.
LEMMA SavedConnection ==
    ASSUME TypesInv, NEW c \in AccountCalls, SaveRefreshed(c)
    PROVE  /\ accountCall[c].account \in DOMAIN accounts
           /\ connections' \in Seq(ConnectionRecords) /\ Len(connections') = Len(connections)
           /\ DOMAIN connections' = DOMAIN connections
           /\ \A n \in DOMAIN connections :
                /\ connections'[n].account = connections[n].account
                /\ connections'[n].active = connections[n].active
                /\ connections'[n].home = connections[n].home
                /\ \/ connections'[n].grant = connections[n].grant
                   \/ /\ n \in ActiveOf(accountCall[c].account)
                      /\ connections'[n].grant = accountCall[c].grant
<1>0. connections \in Seq(ConnectionRecords)
    BY DEF TypesInv, AccountTypes
<1>1. PICK a : a = accountCall[c].account
    OBVIOUS
<1>2. PICK g : g = accountCall[c].grant
    OBVIOUS
<1>3. a \in DOMAIN accounts
    BY <1>1, CallFields DEF SaveRefreshed, AccountCallAt, Sensible, OnARow
<1>4. CASE ActiveOf(a) = {}
    BY <1>0, <1>1, <1>3, <1>4 DEF SaveRefreshed
<1>5. CASE ActiveOf(a) # {}
  <2>1. PICK n \in ActiveOf(a) : connections' = [connections EXCEPT ![n].grant = g]
      BY <1>1, <1>2, <1>5 DEF SaveRefreshed
  <2>2. n \in DOMAIN connections
      BY DEF ActiveOf
  <2>3. PICK r \in ConnectionRecords : r = connections[n]
      BY <1>0, <2>2
  <2>4. PICK q : q = [r EXCEPT !.grant = g]
      OBVIOUS
  <2>5. g \in 0..MaxGrants
      BY <1>2, CallFields
  <2>6. /\ q \in ConnectionRecords /\ q.account = r.account /\ q.active = r.active
        /\ q.home = r.home /\ q.grant = g
      BY <2>4, <2>5 DEF ConnectionRecords
  <2>7. connections' = [connections EXCEPT ![n] = q]
      BY <2>1, <2>3, <2>4
  <2>8. connections' \in Seq(ConnectionRecords) /\ Len(connections') = Len(connections)
        /\ DOMAIN connections' = DOMAIN connections
      BY <1>0, <2>2, <2>6, <2>7
  <2>9. ASSUME NEW m \in DOMAIN connections
        PROVE  /\ connections'[m].account = connections[m].account
               /\ connections'[m].active = connections[m].active
               /\ connections'[m].home = connections[m].home
               /\ \/ connections'[m].grant = connections[m].grant
                  \/ m \in ActiveOf(a) /\ connections'[m].grant = g
    <3>1. CASE m = n
        BY <2>2, <2>3, <2>6, <2>7, <3>1
    <3>2. CASE m # n
        BY <2>7, <3>2
    <3>. QED  BY <3>1, <3>2
  <2>. QED  BY <1>1, <1>2, <1>3, <2>8, <2>9
<1>. QED  BY <1>4, <1>5

\* Refreshed tokens.
LEMMA SaveRefreshedTypes ==
    ASSUME TypesInv, NEW c \in AccountCalls, SaveRefreshed(c)
    PROVE  TypesInv'
<1>0. /\ grants \in 0..MaxGrants /\ grants \in Nat /\ grants <= grants
      /\ resets \in Seq(ResetRecords)
      /\ settled \in [AccountIds -> 0..grants]
    BY Bounds DEF TypesInv, AccountTypes
<1>1. PICK a : a = accountCall[c].account
    OBVIOUS
<1>2. PICK W : W = Writing(a)
    OBVIOUS
<1>3. W \in SUBSET AccountCalls
    BY <1>2 DEF Writing
<1>4. accountCall' = [d \in AccountCalls |-> IF d \in {c} THEN NoAccountCall ELSE Disturbing(W)[d]]
    BY <1>1, <1>2, WriteEnds DEF SaveRefreshed
<1>5. /\ resets' = resets /\ grants' = grants /\ crossed' = crossed /\ settled' = settled
    BY DEF SaveRefreshed
<1>6. PICK g \in 0..grants : g = accountCall[c].grant
    BY CallFields
<1>7. /\ accounts' = [accounts EXCEPT ![a].grant = IF Live(a) THEN g ELSE @]
      /\ a \in DOMAIN accounts
    BY <1>1, <1>6, SavedConnection DEF SaveRefreshed
<1>8. /\ accounts' \in Seq(AccountRecords) /\ Len(accounts') = Len(accounts)
      /\ \A b \in DOMAIN accounts' : accounts'[b].grant <= grants
    BY <1>7, AccountGranted
<1>9. connections' \in Seq(ConnectionRecords)
    BY SavedConnection
<1>10. \A n \in DOMAIN connections' : connections'[n].grant <= grants
  <2>1. ASSUME NEW n \in DOMAIN connections'
        PROVE  \/ connections'[n].grant \in 0..grants
               \/ n \in DOMAIN connections /\ connections'[n].grant = connections[n].grant
      BY <1>6, SavedConnection
  <2>. QED  BY <1>0, <1>9, <2>1, ConnectionsMapped
<1>11. GrantsGiven'
    BY <1>5, <1>8, <1>10 DEF GrantsGiven
<1>. QED  BY <1>0, <1>3, <1>4, <1>5, <1>8, <1>9, <1>11, TokenStep

\* What an organization's connection does to the rows: a new row, or all rows of
\* the organization are written anew.
OfOrganization(a) ==
    {n \in DOMAIN connections : connections[n].account = a /\ connections[n].home = "org"}
LEMMA OrganizationConnection ==
    ASSUME TypesInv, NEW a \in AccountIds, ConnectInOrganization(a)
    PROVE  /\ connections' \in Seq(ConnectionRecords)
           /\ DOMAIN connections \subseteq DOMAIN connections'
           /\ \A n \in DOMAIN connections :
                \/ connections'[n] = connections[n]
                \/ connections[n].account = a /\ connections'[n].account = a
           /\ \A n \in DOMAIN connections' :
                \/ n \in DOMAIN connections /\ connections'[n] = connections[n]
                \/ /\ connections'[n] = Connection(a, "org", grants + 1)
                   /\ connections'[n].account = a /\ connections'[n].grant = grants + 1
<1>0. connections \in Seq(ConnectionRecords) /\ Len(connections) \in Nat
      /\ DOMAIN connections = 1..Len(connections)
      /\ grants \in Nat
    BY Bounds DEF TypesInv, AccountTypes
<1>1. PICK new : new = Connection(a, "org", grants + 1)
    OBVIOUS
<1>2. grants + 1 \in 0..MaxGrants
  <2>1. grants < MaxGrants
      BY Zenon DEF ConnectInOrganization
  <2>. QED  BY <1>0, <2>1, Bounds
<1>3. new \in ConnectionRecords /\ new.account = a /\ new.grant = grants + 1
    BY <1>1, <1>2, ConnectionTypes
<1>4. CASE OfOrganization(a) = {}
  <2>1. connections' = Append(connections, new)
      BY <1>1, <1>4 DEF ConnectInOrganization, OfOrganization
  <2>2. /\ connections' \in Seq(ConnectionRecords) /\ DOMAIN connections' = 1..(Len(connections) + 1)
        /\ connections'[Len(connections) + 1] = new
        /\ \A n \in DOMAIN connections : connections'[n] = connections[n]
      BY <1>0, <1>3, <2>1
  <2>3. DOMAIN connections' = DOMAIN connections \cup {Len(connections) + 1}
      BY <1>0, <2>2
  <2>. QED  BY <1>1, <1>3, <2>2, <2>3
<1>5. CASE OfOrganization(a) # {}
  <2>1. connections' = [n \in DOMAIN connections |->
                          IF n \in OfOrganization(a) THEN new ELSE connections[n]]
      BY <1>1, <1>5 DEF ConnectInOrganization, OfOrganization
  <2>2. ASSUME NEW n \in DOMAIN connections PROVE connections'[n] \in ConnectionRecords
      BY <1>0, <1>3, <2>1
  <2>3. connections' \in [1..Len(connections) -> ConnectionRecords]
      BY <1>0, <2>1, <2>2
  <2>4. connections' \in Seq(ConnectionRecords)
      BY <1>0, <2>3
  <2>5. \A n \in OfOrganization(a) : n \in DOMAIN connections /\ connections[n].account = a
      BY DEF OfOrganization
  <2>. QED  BY <1>1, <1>3, <2>1, <2>4, <2>5
<1>. QED  BY <1>4, <1>5

\* The types after it.
LEMMA ConnectTypes ==
    ASSUME TypesInv, NEW a \in AccountIds, ConnectInOrganization(a)
    PROVE  TypesInv'
<1>0. /\ grants \in 0..MaxGrants /\ grants \in Nat
      /\ accounts \in Seq(AccountRecords) /\ resets \in Seq(ResetRecords)
      /\ settled \in [AccountIds -> 0..grants]
    BY Bounds DEF TypesInv, AccountTypes
<1>1. PICK W : W = Writing(a)
    OBVIOUS
<1>2. W \in SUBSET AccountCalls
    BY <1>1 DEF Writing
<1>11. PICK E \in SUBSET AccountCalls : E = {}
    OBVIOUS
<1>3. accountCall' = [d \in AccountCalls |-> IF d \in E THEN NoAccountCall ELSE Disturbing(W)[d]]
  <2>1. accountCall' = Disturbing(W)
      BY <1>1 DEF ConnectInOrganization
  <2>. QED  BY <2>1, <1>11 DEF Disturbing
<1>4. /\ accounts' = accounts /\ resets' = resets /\ crossed' = crossed /\ grants' = grants + 1
      /\ settled' = [settled EXCEPT ![a] = 0]
    BY DEF ConnectInOrganization
<1>5. grants + 1 \in 0..MaxGrants /\ grants <= grants + 1
  <2>1. grants < MaxGrants
      BY Zenon DEF ConnectInOrganization
  <2>. QED  BY <1>0, <2>1, Bounds
<1>6. settled' \in [AccountIds -> 0..(grants + 1)]
  <2>1. ASSUME NEW b \in AccountIds PROVE settled'[b] \in 0..(grants + 1)
    <3>1. settled'[b] \in {settled[b], 0} /\ settled[b] \in 0..grants
        BY <1>0, <1>4
    <3>. QED  BY <1>0, <3>1
  <2>. QED  BY <1>0, <1>4, <2>1
<1>7. \A n \in DOMAIN connections' : connections'[n].grant <= grants + 1
  <2>1. ASSUME NEW n \in DOMAIN connections'
        PROVE  \/ connections'[n].grant \in 0..(grants + 1)
               \/ n \in DOMAIN connections /\ connections'[n].grant = connections[n].grant
      BY <1>0, OrganizationConnection
  <2>. QED  BY <1>0, <1>5, <2>1, ConnectionsMapped, OrganizationConnection
<1>8. \A b \in DOMAIN accounts : accounts[b].grant <= grants + 1
    BY <1>0, RowTypes
<1>9. GrantsGiven'
    BY <1>4, <1>7, <1>8 DEF GrantsGiven
<1>10. /\ grants' \in 0..MaxGrants /\ grants <= grants' /\ settled' \in [AccountIds -> 0..grants']
       /\ accounts' \in Seq(AccountRecords) /\ Len(accounts') = Len(accounts)
       /\ resets' \in Seq(ResetRecords) /\ connections' \in Seq(ConnectionRecords)
    BY <1>0, <1>4, <1>5, <1>6, OrganizationConnection
<1>. QED  BY <1>2, <1>3, <1>4, <1>9, <1>10, TokenStep

\* Rows that are deleted keep their place, and no request notices.
LEMMA RowsGoTypes ==
    ASSUME TypesInv,
           \/ \E n \in ConnectionIds : DisconnectInOrganization(n)
           \/ \E a \in AccountIds : DeleteAccount(a)
    PROVE  /\ TypesInv'
           /\ accountCall' = accountCall /\ resets' = resets /\ crossed' = crossed
           /\ Len(accounts') = Len(accounts)
           /\ DOMAIN connections' = DOMAIN connections
           /\ \A n \in DOMAIN connections : connections'[n] \in {connections[n], Gone}
<1>0. /\ grants \in 0..MaxGrants /\ grants \in Nat /\ grants <= grants
      /\ accounts \in Seq(AccountRecords) /\ resets \in Seq(ResetRecords)
      /\ settled \in [AccountIds -> 0..grants] /\ 0 \in 0..grants
      /\ connections \in Seq(ConnectionRecords) /\ Len(connections) \in Nat
      /\ DOMAIN connections = 1..Len(connections)
    BY Bounds DEF TypesInv, AccountTypes
<1>1. /\ accountCall' = accountCall /\ resets' = resets /\ grants' = grants /\ crossed' = crossed
      /\ accounts' \in Seq(AccountRecords) /\ Len(accounts') = Len(accounts)
      /\ \A a \in DOMAIN accounts' : accounts'[a].grant <= grants
      /\ settled' \in [AccountIds -> 0..grants]
      /\ DOMAIN connections' = DOMAIN connections
      /\ \A n \in DOMAIN connections : connections'[n] \in {connections[n], Gone}
      /\ connections' = [n \in DOMAIN connections |-> connections'[n]]
  <2>1. ASSUME NEW n \in ConnectionIds, DisconnectInOrganization(n) PROVE <1>1!:
      BY <1>0, <2>1, RowTypes DEF DisconnectInOrganization, TypesInv, GrantsGiven
  <2>2. ASSUME NEW a \in AccountIds, DeleteAccount(a) PROVE <1>1!:
    <3>1. a \in DOMAIN accounts
        BY <2>2 DEF DeleteAccount, Live
    <3>2. PICK r \in AccountRecords : r = accounts[a] /\ r.grant \in 0..grants
        BY <3>1, RowTypes
    <3>3. PICK q : q = [r EXCEPT !.live = FALSE]
        OBVIOUS
    <3>4. q \in AccountRecords /\ q.grant \in 0..grants
        BY <3>2, <3>3 DEF AccountRecords
    <3>5. accounts' = [accounts EXCEPT ![a] = q]
        BY <2>2, <3>2, <3>3 DEF DeleteAccount
    <3>6. accounts' \in Seq(AccountRecords) /\ Len(accounts') = Len(accounts)
        BY <1>0, <3>1, <3>4, <3>5
    <3>7. ASSUME NEW b \in DOMAIN accounts' PROVE accounts'[b].grant <= grants
      <4>1. b \in DOMAIN accounts /\ accounts'[b] \in {accounts[b], q}
          BY <3>5
      <4>2. accounts'[b].grant \in 0..grants
          BY <3>4, <4>1, RowTypes
      <4>. QED  BY <1>0, <4>2
    <3>8. /\ accountCall' = accountCall /\ resets' = resets /\ grants' = grants
          /\ crossed' = crossed /\ settled' = [settled EXCEPT ![a] = 0]
          /\ connections' = [n \in DOMAIN connections |->
                               IF connections[n].account = a THEN Gone ELSE connections[n]]
        BY <2>2 DEF DeleteAccount
    <3>9. settled' \in [AccountIds -> 0..grants]
        BY <1>0, <3>8
    <3>. QED  BY <3>6, <3>7, <3>8, <3>9
  <2>. QED  BY <2>1, <2>2
<1>2. connections' \in Seq(ConnectionRecords)
  <2>1. ASSUME NEW n \in 1..Len(connections) PROVE connections'[n] \in ConnectionRecords
    <3>1. connections'[n] = connections[n] \/ connections'[n] = Gone
        BY <1>0, <1>1
    <3>2. connections[n] \in ConnectionRecords /\ Gone \in ConnectionRecords
        BY <1>0, ConnectionTypes
    <3>. QED  BY ONLY <3>1, <3>2
  <2>2. PICK f : f = connections'
      OBVIOUS
  <2>3. f = [n \in 1..Len(connections) |-> f[n]]
      BY <1>0, <1>1, <2>2
  <2>4. f \in [1..Len(connections) -> ConnectionRecords]
      BY <2>1, <2>2, <2>3
  <2>5. f \in Seq(ConnectionRecords)
      BY ONLY <2>4, <1>0, SeqDef
  <2>. QED  BY <2>2, <2>5
<1>3. \A n \in DOMAIN connections' : connections'[n].grant <= grants
  <2>1. ASSUME NEW n \in DOMAIN connections'
        PROVE  \/ connections'[n].grant \in 0..grants
               \/ n \in DOMAIN connections /\ connections'[n].grant = connections[n].grant
    <3>1. n \in DOMAIN connections /\ (connections'[n] = connections[n] \/ connections'[n] = Gone)
        BY <1>1
    <3>2. Gone.grant = 0 /\ 0 \in 0..grants
        BY <1>0, ConnectionTypes
    <3>. QED  BY ONLY <3>1, <3>2
  <2>. QED  BY <1>0, <1>2, <2>1, ConnectionsMapped
<1>4. GrantsGiven'
    BY <1>1, <1>3 DEF GrantsGiven
<1>5. accountCall' \in [AccountCalls -> CallRecords] /\ CallsMakeSense'
    BY <1>1 DEF TypesInv, AccountTypes, CallsMakeSense
<1>6. AccountTypes'
    BY <1>0, <1>1, <1>2, <1>5 DEF TypesInv, AccountTypes
<1>. QED  BY <1>1, <1>4, <1>5, <1>6 DEF TypesInv

\* What SendLink does: the links that the request read are used up, and one is
\* new.
LEMMA SentLink ==
    ASSUME TypesInv, NEW c \in AccountCalls, SendLink(c)
    PROVE  /\ resets' \in Seq(ResetRecords)
           /\ Len(resets) \in Nat /\ DOMAIN resets = 1..Len(resets)
           /\ DOMAIN resets' = 1..(Len(resets) + 1)
           /\ \A i \in DOMAIN resets :
                /\ i \in DOMAIN resets'
                /\ resets'[i].account = resets[i].account
                /\ resets'[i].sets = resets[i].sets
                /\ resets'[i].overlapped = resets[i].overlapped
                /\ resets'[i].used = (resets[i].used \/ i \in accountCall[c].ids)
           /\ resets'[Len(resets) + 1].account = accountCall[c].account
           /\ resets'[Len(resets) + 1].sets = 0
<1>0. resets \in Seq(ResetRecords) /\ Len(resets) \in Nat /\ DOMAIN resets = 1..Len(resets)
    BY DEF TypesInv, AccountTypes
<1>1. PICK a : a = accountCall[c].account
    OBVIOUS
<1>2. PICK ids : ids = accountCall[c].ids
    OBVIOUS
<1>3. a \in AccountIds
  <2>1. a \in DOMAIN accounts
      BY <1>1, CallFields DEF SendLink, AccountCallAt, Sensible, OnARow
  <2>. QED  BY <2>1, RowTypes
<1>4. PICK new : new = [account |-> a, used |-> FALSE, expired |-> FALSE,
                        sets |-> 0, overlapped |-> FALSE]
    OBVIOUS
<1>5. new \in ResetRecords /\ new.account = a /\ new.sets = 0
    BY <1>3, <1>4 DEF ResetRecords
<1>6. PICK kept : kept = [i \in DOMAIN resets |->
                            [resets[i] EXCEPT !.used = resets[i].used \/ i \in ids]]
    OBVIOUS
<1>7. resets' = Append(kept, new)
    BY <1>1, <1>2, <1>4, <1>6 DEF SendLink
<1>8. ASSUME NEW i \in DOMAIN resets
      PROVE  /\ kept[i] \in ResetRecords
             /\ kept[i].account = resets[i].account /\ kept[i].sets = resets[i].sets
             /\ kept[i].overlapped = resets[i].overlapped
             /\ kept[i].used = (resets[i].used \/ i \in ids)
  <2>1. PICK r \in ResetRecords : r = resets[i]
      BY <1>0
  <2>2. PICK b \in BOOLEAN : b = (r.used \/ i \in ids)
      BY DEF ResetRecords
  <2>3. PICK q : q = [r EXCEPT !.used = b]
      OBVIOUS
  <2>4. /\ q \in ResetRecords /\ q.account = r.account /\ q.sets = r.sets
        /\ q.overlapped = r.overlapped /\ q.used = b
      BY <2>3 DEF ResetRecords
  <2>5. kept[i] = q
      BY <1>6, <2>1, <2>2, <2>3
  <2>. QED  BY <2>1, <2>2, <2>4, <2>5
<1>9. kept \in Seq(ResetRecords) /\ Len(kept) = Len(resets) /\ DOMAIN kept = DOMAIN resets
  <2>1. kept \in [1..Len(resets) -> ResetRecords]
      BY <1>0, <1>6, <1>8
  <2>. QED  BY <1>0, <2>1
<1>10. /\ resets' \in Seq(ResetRecords)
       /\ DOMAIN resets' = 1..(Len(resets) + 1)
       /\ resets'[Len(resets) + 1] = new
       /\ \A i \in DOMAIN resets : i \in DOMAIN resets' /\ resets'[i] = kept[i]
    BY <1>0, <1>5, <1>7, <1>9
<1>. QED  BY <1>0, <1>1, <1>2, <1>5, <1>8, <1>10

\* What a link's use does, and its expiry: rows are written and none is added.
LEMMA WrittenLinks ==
    ASSUME TypesInv,
           \/ \E i \in ResetIds : LinkExpires(i)
           \/ \E c \in AccountCalls, i \in ResetIds : FollowLink(c, i)
           \/ \E c \in AccountCalls : SetPassword(c)
    PROVE  /\ resets' \in Seq(ResetRecords) /\ DOMAIN resets' = DOMAIN resets
           /\ \A i \in DOMAIN resets :
                /\ resets'[i].account = resets[i].account
                /\ resets[i].used => resets'[i].used
                /\ resets[i].overlapped => resets'[i].overlapped
<1>0. resets \in Seq(ResetRecords) /\ Len(resets) \in Nat /\ DOMAIN resets = 1..Len(resets)
    BY DEF TypesInv, AccountTypes
<1>1. ASSUME NEW i \in ResetIds, LinkExpires(i)
      PROVE  \A j \in DOMAIN resets :
                /\ resets'[j] \in ResetRecords /\ resets'[j].account = resets[j].account
                /\ resets[j].used => resets'[j].used
                /\ resets[j].overlapped => resets'[j].overlapped
  <2>1. PICK r \in ResetRecords : r = resets[i]
      BY <1>0, <1>1 DEF LinkExpires
  <2>2. PICK q : q = [r EXCEPT !.expired = TRUE]
      OBVIOUS
  <2>3. /\ q \in ResetRecords /\ q.account = r.account
        /\ q.used = r.used /\ q.overlapped = r.overlapped
      BY <2>2 DEF ResetRecords
  <2>4. resets' = [resets EXCEPT ![i] = q]
      BY <1>1, <2>1, <2>2 DEF LinkExpires
  <2>. TAKE j \in DOMAIN resets
  <2>5. CASE j = i
      BY <1>1, <2>1, <2>3, <2>4, <2>5 DEF LinkExpires
  <2>6. CASE j # i
      BY <1>0, <2>4, <2>6
  <2>. QED  BY <2>5, <2>6
<1>2. ASSUME NEW c \in AccountCalls, NEW i \in ResetIds, FollowLink(c, i)
      PROVE  \A j \in DOMAIN resets :
                /\ resets'[j] \in ResetRecords /\ resets'[j].account = resets[j].account
                /\ resets[j].used => resets'[j].used
                /\ resets[j].overlapped => resets'[j].overlapped
  <2>0. i \in DOMAIN resets
      BY <1>2, Zenon DEF FollowLink
  <2>1. PICK r \in ResetRecords : r = resets[i]
      BY <1>0, <2>0
  <2>2. PICK b \in BOOLEAN : b = (r.overlapped \/ ResettingWith(i) # {})
      BY DEF ResetRecords
  <2>3. PICK q : q = [r EXCEPT !.overlapped = b]
      OBVIOUS
  <2>4. /\ q \in ResetRecords /\ q.account = r.account
        /\ q.used = r.used /\ q.overlapped = b
      BY <2>3 DEF ResetRecords
  <2>5. (\E d \in AccountCalls : AccountCallAt(d, "reset") /\ i \in accountCall[d].ids)
          = (ResettingWith(i) # {})
      BY DEF ResettingWith, AccountCallAt
  <2>6. resets' = [resets EXCEPT ![i] = q]
      BY <1>2, <2>1, <2>2, <2>3, <2>5 DEF FollowLink
  <2>. TAKE j \in DOMAIN resets
  <2>7. CASE j = i
      BY <2>0, <2>1, <2>2, <2>4, <2>6, <2>7
  <2>8. CASE j # i
      BY <1>0, <2>6, <2>8
  <2>. QED  BY <2>7, <2>8
<1>3. ASSUME NEW c \in AccountCalls, SetPassword(c)
      PROVE  \A j \in DOMAIN resets :
                /\ resets'[j] \in ResetRecords /\ resets'[j].account = resets[j].account
                /\ resets[j].used => resets'[j].used
                /\ resets[j].overlapped => resets'[j].overlapped
  <2>. TAKE j \in DOMAIN resets
  <2>1. PICK r \in ResetRecords : r = resets[j]
      BY <1>0
  <2>0. PICK m \in Nat : m = r.sets + 1
      BY DEF ResetRecords
  <2>2. PICK q : q = [r EXCEPT !.used = TRUE, !.sets = m]
      OBVIOUS
  <2>3. /\ q \in ResetRecords /\ q.account = r.account
        /\ q.used = TRUE /\ q.overlapped = r.overlapped
      BY <2>2 DEF ResetRecords
  <2>4. resets'[j] = q \/ resets'[j] = r
      BY <1>3, <2>0, <2>1, <2>2 DEF SetPassword
  <2>. QED  BY <2>1, <2>3, <2>4
<1>4. DOMAIN resets' = DOMAIN resets /\ resets' = [i \in 1..Len(resets) |-> resets'[i]]
  <2>1. ASSUME NEW i \in ResetIds, LinkExpires(i) PROVE <1>4!:
      BY <1>0, <2>1 DEF LinkExpires
  <2>2. ASSUME NEW c \in AccountCalls, NEW i \in ResetIds, FollowLink(c, i) PROVE <1>4!:
    <3>1. PICK q : resets' = [resets EXCEPT ![i] = q]
        BY <2>2 DEF FollowLink
    <3>. QED  BY <1>0, <3>1
  <2>3. ASSUME NEW c \in AccountCalls, SetPassword(c) PROVE <1>4!:
    <3>1. CASE Live(accountCall[c].account)
      <4>1. PICK ids : ids = accountCall[c].ids
          OBVIOUS
      <4>2. PICK f : f = [i \in DOMAIN resets |-> IF i \in ids
                            THEN [resets[i] EXCEPT !.used = TRUE, !.sets = @ + 1] ELSE resets[i]]
          OBVIOUS
      <4>3. resets' = f
          BY <2>3, <3>1, <4>1, <4>2 DEF SetPassword
      <4>4. f = [i \in 1..Len(resets) |-> f[i]] /\ DOMAIN f = DOMAIN resets
          BY <1>0, <4>2
      <4>. QED  BY <4>3, <4>4
    <3>2. CASE ~Live(accountCall[c].account)
      <4>1. resets' = resets
          BY <2>3, <3>2 DEF SetPassword
      <4>2. resets = [i \in 1..Len(resets) |-> resets[i]]
          BY <1>0
      <4>. QED  BY <4>1, <4>2
    <3>. QED  BY <3>1, <3>2
  <2>. QED  BY <2>1, <2>2, <2>3
<1>5. \A j \in DOMAIN resets :
         /\ resets'[j] \in ResetRecords /\ resets'[j].account = resets[j].account
         /\ resets[j].used => resets'[j].used
         /\ resets[j].overlapped => resets'[j].overlapped
    BY <1>1, <1>2, <1>3
<1>6. resets' \in Seq(ResetRecords)
  <2>1. PICK f : f = resets'
      OBVIOUS
  <2>2. f \in [1..Len(resets) -> ResetRecords]
      BY <1>0, <1>4, <1>5, <2>1
  <2>3. f \in Seq(ResetRecords)
      BY ONLY <1>0, <2>2, SeqDef
  <2>. QED  BY <2>1, <2>3
<1>. QED  BY <1>4, <1>5, <1>6

\* The steps of the reset links keep the types.
LEMMA LinksTypes ==
    ASSUME TypesInv,
           \/ \E i \in ResetIds : LinkExpires(i)
           \/ \E c \in AccountCalls, i \in ResetIds : FollowLink(c, i)
           \/ \E c \in AccountCalls : SendLink(c) \/ SetPassword(c)
    PROVE  TypesInv'
<1>0. /\ accounts \in Seq(AccountRecords) /\ Len(accounts) <= MaxAccounts
      /\ Len(accounts) \in Nat /\ Len(accounts) <= Len(accounts)
      /\ DOMAIN accounts = 1..Len(accounts)
      /\ connections \in Seq(ConnectionRecords) /\ grants \in Nat
      /\ settled \in [AccountIds -> 0..grants]
    BY Bounds DEF TypesInv, AccountTypes
<1>1. /\ accounts' = accounts /\ connections' = connections /\ grants' = grants
      /\ settled' = settled /\ crossed' = crossed
    BY DEF LinkExpires, FollowLink, SendLink, SetPassword
<1>2. resets' \in Seq(ResetRecords)
    BY SentLink, WrittenLinks
<1>3. GrantsGiven'
    BY <1>1 DEF GrantsGiven, TypesInv
<1>4. ASSUME NEW c \in AccountCalls, NEW q \in CallRecords,
             accountCall' = [accountCall EXCEPT ![c] = q], Sensible(q, Len(accounts), grants)
      PROVE  TypesInv'
    BY <1>0, <1>1, <1>2, <1>3, <1>4, OneCallStep
<1>5. ASSUME NEW i \in ResetIds, LinkExpires(i) PROVE TypesInv'
  <2>1. accountCall' = accountCall
      BY <1>5 DEF LinkExpires
  <2>. QED
      BY <1>0, <1>1, <1>2, <1>3, <2>1 DEF TypesInv, AccountTypes, CallsMakeSense
<1>6. ASSUME NEW c \in AccountCalls, NEW i \in ResetIds, FollowLink(c, i) PROVE TypesInv'
  <2>1. PICK a : a = resets[i].account
      OBVIOUS
  <2>0. i \in DOMAIN resets /\ Live(a)
      BY <1>6, <2>1, Zenon DEF FollowLink
  <2>2. a \in DOMAIN accounts /\ a \in AccountIds /\ i \in Nat
    <3>1. a \in DOMAIN accounts
        BY <2>0 DEF Live
    <3>. QED  BY <2>0, <3>1, RowTypes DEF TypesInv, AccountTypes
  <2>3. PICK q : q = [NoAccountCall EXCEPT !.pc = "reset", !.ids = {i}, !.account = a]
      OBVIOUS
  <2>4. 0 \in 0..MaxGrants /\ {i} \in SUBSET Nat
      BY <2>2, Bounds
  <2>5. q \in CallRecords /\ q.pc = "reset" /\ q.account = a /\ q.grant = 0
      BY <2>2, <2>3, <2>4, StepNames DEF NoAccountCall, CallRecords
  <2>6. Sensible(q, Len(accounts), grants)
      BY <1>0, <2>2, <2>5 DEF Sensible, OnARow
  <2>7. accountCall' = [accountCall EXCEPT ![c] = q]
      BY <1>6, <2>1, <2>3 DEF FollowLink, BeginAccountCall
  <2>. QED  BY <1>4, <2>5, <2>6, <2>7
<1>7. ASSUME NEW c \in AccountCalls, SendLink(c) \/ SetPassword(c) PROVE TypesInv'
  <2>1. accountCall' = [accountCall EXCEPT ![c] = NoAccountCall]
      BY <1>7 DEF SendLink, SetPassword, EndAccountCall
  <2>. QED  BY <1>0, <1>4, <2>1, IdleCall
<1>. QED  BY <1>5, <1>6, <1>7

\* Every step keeps the types.
LEMMA NextTypes == ASSUME TypesInv, AccountsNext PROVE TypesInv'
BY RequestsTypes, UsersTypes, AddConnectionTypes, SaveRefreshedTypes, ConnectTypes,
   RowsGoTypes, LinksTypes DEF AccountsNext

----------------------------------------------------------------------------
(* Reset links *)

\* The requests that reset or send a link, and those that write Google tokens,
\* held the same before a step; a write may have been disturbed by it.
LinkCallsKept ==
    \A c \in AccountCalls : accountCall'[c].pc \in {"reset", "forgot"} =>
        /\ accountCall'[c].pc = accountCall[c].pc
        /\ accountCall'[c].account = accountCall[c].account
        /\ accountCall'[c].ids = accountCall[c].ids
GrantCallsKept ==
    \A c \in AccountCalls : accountCall'[c].pc \in {"google insert", "refresh"} =>
        /\ accountCall'[c].pc = accountCall[c].pc
        /\ accountCall'[c].account = accountCall[c].account
        /\ accountCall'[c].ids = accountCall[c].ids
        /\ accountCall'[c].grant = accountCall[c].grant
        /\ accountCall[c].disturbed => accountCall'[c].disturbed

\* A step of one request keeps the others.
LEMMA OneCallKept ==
    ASSUME TypesInv, NEW c \in AccountCalls, NEW q,
           accountCall' = [accountCall EXCEPT ![c] = q]
    PROVE  /\ q.pc \notin {"reset", "forgot"} => LinkCallsKept
           /\ q.pc \notin {"google insert", "refresh"} => GrantCallsKept
           /\ accountCall'[c] = q
           /\ \A d \in AccountCalls \ {c} : accountCall'[d] = accountCall[d]
<1>1. accountCall'[c] = q /\ \A d \in AccountCalls \ {c} : accountCall'[d] = accountCall[d]
    BY DEF TypesInv, AccountTypes
<1>. QED  BY <1>1 DEF LinkCallsKept, GrantCallsKept

\* So does a step that disturbs some and ends others.
LEMMA DisturbedKept ==
    ASSUME TypesInv, NEW W \in SUBSET AccountCalls, NEW E \in SUBSET AccountCalls,
           accountCall' = [c \in AccountCalls |->
                             IF c \in E THEN NoAccountCall ELSE Disturbing(W)[c]]
    PROVE  LinkCallsKept /\ GrantCallsKept
<1>1. ASSUME NEW c \in AccountCalls, c \in E PROVE accountCall'[c].pc = "idle"
    BY <1>1 DEF NoAccountCall
<1>2. ASSUME NEW c \in AccountCalls, c \notin E
      PROVE  /\ accountCall'[c].pc = accountCall[c].pc
             /\ accountCall'[c].account = accountCall[c].account
             /\ accountCall'[c].ids = accountCall[c].ids
             /\ accountCall'[c].grant = accountCall[c].grant
             /\ accountCall[c].disturbed => accountCall'[c].disturbed
  <2>1. accountCall'[c] = Disturbing(W)[c]
      BY <1>2
  <2>2. CASE c \in W
      BY <2>1, <2>2, DisturbedCalls
  <2>3. CASE c \notin W
      BY <2>1, <2>3, DisturbedCalls
  <2>. QED  BY <2>2, <2>3
<1>. QED  BY <1>1, <1>2 DEF LinkCallsKept, GrantCallsKept

\* No link is there at first, and no request.
LEMMA InitLinks == ASSUME AccountsInit PROVE LinksInv
<1>1. /\ DOMAIN resets = {}
      /\ \A c \in AccountCalls : accountCall[c].pc = "idle"
  <2>1. resets = << >> /\ accountCall = [c \in AccountCalls |-> NoAccountCall]
      BY DEF AccountsInit
  <2>2. NoAccountCall.pc = "idle"
      BY DEF NoAccountCall
  <2>. QED  BY <2>1, <2>2
<1>2. \A a : ForgetfulOf(a) = {} /\ UnusedOf(a) = {}
    BY <1>1 DEF ForgetfulOf, UnusedOf
<1>. QED  BY <1>1, <1>2 DEF LinksInv, SingleUse, OneGoodLink

\* Steps after which every request that resets or sends held the same before,
\* and no link has changed but by being used up.
LEMMA LinksFrame ==
    ASSUME TypesInv, LinksInv, crossed' = crossed,
           DOMAIN resets' = DOMAIN resets,
           \A i \in DOMAIN resets :
             /\ resets'[i].account = resets[i].account
             /\ resets'[i].sets = resets[i].sets
             /\ resets[i].used => resets'[i].used
             /\ resets'[i].overlapped = resets[i].overlapped,
           LinkCallsKept
    PROVE  LinksInv'
<1>. USE DEF LinkCallsKept
<1>1. \A i : ResettingWith(i)' \subseteq ResettingWith(i)
    BY DEF ResettingWith
<1>2. \A a : ForgetfulOf(a)' \subseteq ForgetfulOf(a)
    BY DEF ForgetfulOf
<1>3. \A a : UnusedOf(a)' \subseteq UnusedOf(a)
    BY DEF UnusedOf
<1>4. SingleUse'
  <2>1. ASSUME NEW c \in AccountCalls, accountCall'[c].pc = "reset"
        PROVE  accountCall'[c].ids \subseteq DOMAIN resets'
      BY <2>1 DEF LinksInv, SingleUse
  <2>2. ASSUME NEW i \in DOMAIN resets
        PROVE  /\ resets'[i].sets > 0 => resets'[i].used
               /\ ~resets'[i].overlapped =>
                    /\ resets'[i].sets <= 1
                    /\ \A c, d \in ResettingWith(i)' : c = d
                    /\ ResettingWith(i)' # {} => resets'[i].sets = 0
      BY <1>1 DEF LinksInv, SingleUse
  <2>. QED  BY <2>1, <2>2 DEF SingleUse
<1>5. OneGoodLink'
  <2>1. ASSUME NEW a \in AccountIds \ crossed
        PROVE  /\ \A c, d \in ForgetfulOf(a)' : c = d
               /\ \A c \in ForgetfulOf(a)' : UnusedOf(a)' \subseteq accountCall'[c].ids
               /\ \A i, j \in UnusedOf(a)' : i = j
    <3>1. \A c \in ForgetfulOf(a)' : accountCall'[c].ids = accountCall[c].ids
        BY DEF ForgetfulOf
    <3>. QED  BY <1>2, <1>3, <3>1 DEF LinksInv, OneGoodLink
  <2>. QED  BY <2>1 DEF OneGoodLink
<1>. QED  BY <1>4, <1>5 DEF LinksInv

\* What the steps of a sign-in make of its request.
LEMMA SaveGoogleUserCalls ==
    ASSUME TypesInv, NEW c \in AccountCalls, SaveGoogleUser(c)
    PROVE  LinkCallsKept /\ GrantCallsKept
<1>1. PICK p \in CallRecords : p = accountCall[c]
    BY CallFields
<1>2. LinkCallsKept /\ GrantCallsKept
  <2>1. CASE p.account # 0
    <3>1. PICK r : r = [p EXCEPT !.pc = "google update"]
        OBVIOUS
    <3>2. accountCall' = [accountCall EXCEPT ![c] = r]
        BY <1>1, <2>1, <3>1 DEF SaveGoogleUser
    <3>3. r.pc = "google update"
        BY <3>1 DEF CallRecords
    <3>. QED  BY <3>2, <3>3, OneCallKept
  <2>2. CASE p.account = 0 /\ Found(p.email) # 0
    <3>1. accountCall' = [accountCall EXCEPT ![c] = NoAccountCall]
        BY <1>1, <2>2 DEF SaveGoogleUser, EndAccountCall
    <3>2. NoAccountCall.pc = "idle"
        BY DEF NoAccountCall
    <3>. QED  BY <3>1, <3>2, OneCallKept
  <2>3. CASE p.account = 0 /\ Found(p.email) = 0
    <3>1. PICK r : r = [p EXCEPT !.pc = "google update", !.account = Len(accounts) + 1]
        OBVIOUS
    <3>2. accountCall' = [accountCall EXCEPT ![c] = r]
        BY <1>1, <2>3, <3>1 DEF SaveGoogleUser
    <3>3. r.pc = "google update"
        BY <3>1 DEF CallRecords
    <3>. QED  BY <3>2, <3>3, OneCallKept
  <2>. QED  BY <2>1, <2>2, <2>3
<1>. QED  BY <1>2

LEMMA DeactivateCalls ==
    ASSUME TypesInv, NEW c \in AccountCalls, DeactivateConnections(c)
    PROVE  \E q : /\ accountCall' = [accountCall EXCEPT ![c] = q]
                  /\ q.pc = "google insert" /\ q.account = accountCall[c].account
                  /\ q.ids = {n \in DOMAIN connections :
                                connections[n].account = accountCall[c].account}
<1>1. PICK p \in CallRecords : p = accountCall[c]
    BY CallFields
<1>2. PICK ns : ns = {n \in DOMAIN connections : connections[n].account = p.account}
    OBVIOUS
<1>3. PICK q : q = [p EXCEPT !.pc = "google insert", !.ids = ns]
    OBVIOUS
<1>4. q.pc = "google insert" /\ q.account = p.account /\ q.ids = ns
    BY <1>3 DEF CallRecords
<1>5. accountCall' = [accountCall EXCEPT ![c] = q]
  <2>1. accountCall' = [accountCall EXCEPT ![c] = [accountCall[c] EXCEPT
            !.pc = "google insert",
            !.ids = {n \in DOMAIN connections : connections[n].account = accountCall[c].account}]]
      BY DEF DeactivateConnections, TypesInv, AccountTypes
  <2>. QED  BY <1>1, <1>2, <1>3, <2>1
<1>. QED  BY <1>1, <1>2, <1>4, <1>5

\* What an organization's connection makes of the requests.
LEMMA ConnectCalls ==
    ASSUME TypesInv, NEW a \in AccountIds, ConnectInOrganization(a)
    PROVE  /\ Writing(a) \in SUBSET AccountCalls
           /\ accountCall' = Disturbing(Writing(a))
           /\ LinkCallsKept /\ GrantCallsKept
<1>1. PICK W : W = Writing(a)
    OBVIOUS
<1>2. PICK E \in SUBSET AccountCalls : E = {}
    OBVIOUS
<1>3. W \in SUBSET AccountCalls
    BY <1>1 DEF Writing
<1>4. accountCall' = Disturbing(W)
    BY <1>1 DEF ConnectInOrganization
<1>5. accountCall' = [d \in AccountCalls |-> IF d \in E THEN NoAccountCall ELSE Disturbing(W)[d]]
    BY <1>2, <1>4 DEF Disturbing
<1>. QED  BY <1>1, <1>3, <1>4, <1>5, DisturbedKept

\* The steps that are about neither.
LEMMA OthersKeepLinks ==
    ASSUME TypesInv, LinksInv,
           \/ \E c \in AccountCalls :
                \/ \E e \in Emails : Register(c, e) \/ SignInWithGoogle(c, e)
                \/ CommitRegister(c) \/ SaveGoogleUser(c)
                \/ DeactivateConnections(c) \/ AddConnection(c)
                \/ \E a \in AccountIds : BeginRefresh(c, a)
                \/ SaveRefreshed(c)
                \/ FailAccountCall(c)
           \/ \E a \in AccountIds : ConnectInOrganization(a) \/ DeleteAccount(a)
           \/ \E n \in ConnectionIds : DisconnectInOrganization(n)
    PROVE  LinksInv'
<1>1. /\ crossed' = crossed /\ resets' = resets
    BY RowsGoTypes DEF Register, SignInWithGoogle, CommitRegister, SaveGoogleUser,
          DeactivateConnections, AddConnection, BeginRefresh, SaveRefreshed, FailAccountCall,
          ConnectInOrganization
<1>2. LinkCallsKept
  <2>1. ASSUME NEW c \in AccountCalls, NEW e \in Emails, Register(c, e) PROVE LinkCallsKept
    <3>1. PICK q : q = [NoAccountCall EXCEPT !.pc = "register", !.email = Lower[e]]
        OBVIOUS
    <3>2. q.pc = "register"
        BY <3>1 DEF NoAccountCall
    <3>3. accountCall' = [accountCall EXCEPT ![c] = q]
        BY <2>1, <3>1 DEF Register, BeginAccountCall
    <3>. QED  BY <3>2, <3>3, OneCallKept
  <2>2. ASSUME NEW c \in AccountCalls, NEW e \in Emails, SignInWithGoogle(c, e)
        PROVE  LinkCallsKept
    <3>1. PICK q : q = [NoAccountCall EXCEPT !.pc = "google user", !.email = e,
                          !.account = Found(e), !.grant = grants + 1]
        OBVIOUS
    <3>2. q.pc = "google user"
        BY <3>1 DEF NoAccountCall
    <3>3. accountCall' = [accountCall EXCEPT ![c] = q]
        BY <2>2, <3>1 DEF SignInWithGoogle, BeginAccountCall
    <3>. QED  BY <3>2, <3>3, OneCallKept
  <2>3. ASSUME NEW c \in AccountCalls, CommitRegister(c) \/ FailAccountCall(c)
        PROVE  LinkCallsKept
    <3>1. accountCall' = [accountCall EXCEPT ![c] = NoAccountCall] /\ NoAccountCall.pc = "idle"
        BY <2>3 DEF CommitRegister, FailAccountCall, EndAccountCall, NoAccountCall
    <3>. QED  BY <3>1, OneCallKept
  <2>4. ASSUME NEW c \in AccountCalls, SaveGoogleUser(c) PROVE LinkCallsKept
      BY <2>4, SaveGoogleUserCalls
  <2>5. ASSUME NEW c \in AccountCalls, DeactivateConnections(c) PROVE LinkCallsKept
    <3>1. PICK q : accountCall' = [accountCall EXCEPT ![c] = q] /\ q.pc = "google insert"
        BY <2>5, DeactivateCalls
    <3>. QED  BY <3>1, OneCallKept
  <2>6. ASSUME NEW c \in AccountCalls, AddConnection(c) \/ SaveRefreshed(c) PROVE LinkCallsKept
    <3>1. PICK W : W = Writing(accountCall[c].account)
        OBVIOUS
    <3>2. W \in SUBSET AccountCalls /\ {c} \in SUBSET AccountCalls
        BY <3>1 DEF Writing
    <3>3. EndWrite(c)
        BY <2>6 DEF AddConnection, SaveRefreshed
    <3>. QED  BY <3>1, <3>2, <3>3, WriteEnds, DisturbedKept
  <2>7. ASSUME NEW c \in AccountCalls, NEW a \in AccountIds, BeginRefresh(c, a)
        PROVE  LinkCallsKept
    <3>1. PICK g : BeginAccountCall(c, [NoAccountCall EXCEPT !.pc = "refresh", !.account = a,
                                                             !.grant = g])
        BY <2>7 DEF BeginRefresh
    <3>2. PICK q : q = [NoAccountCall EXCEPT !.pc = "refresh", !.account = a, !.grant = g]
        OBVIOUS
    <3>3. q.pc = "refresh"
        BY <3>2 DEF NoAccountCall
    <3>4. accountCall' = [accountCall EXCEPT ![c] = q]
        BY <3>1, <3>2 DEF BeginAccountCall
    <3>. QED  BY <3>3, <3>4, OneCallKept
  <2>8. ASSUME NEW a \in AccountIds, ConnectInOrganization(a) PROVE LinkCallsKept
      BY <2>8, ConnectCalls
  <2>9. ASSUME accountCall' = accountCall PROVE LinkCallsKept
      BY <2>9 DEF LinkCallsKept
  <2>. QED
      BY <2>1, <2>2, <2>3, <2>4, <2>5, <2>6, <2>7, <2>8, <2>9, RowsGoTypes
<1>. QED  BY <1>1, <1>2, LinksFrame

\* A link that expires.
LEMMA ExpiryKeepsLinks ==
    ASSUME TypesInv, LinksInv, NEW i \in ResetIds, LinkExpires(i)
    PROVE  LinksInv'
<1>1. i \in DOMAIN resets
    BY DEF LinkExpires
<1>2. PICK r \in ResetRecords : r = resets[i]
    BY <1>1, RowTypes
<1>3. PICK q : q = [r EXCEPT !.expired = TRUE]
    OBVIOUS
<1>4. /\ q.account = r.account /\ q.used = r.used
      /\ q.overlapped = r.overlapped /\ q.sets = r.sets
    BY <1>3 DEF ResetRecords
<1>5. /\ resets' = [resets EXCEPT ![i] = q] /\ crossed' = crossed
      /\ accountCall' = accountCall
    BY <1>2, <1>3 DEF LinkExpires
<1>6. DOMAIN resets' = DOMAIN resets
    BY <1>5
<1>7. ASSUME NEW j \in DOMAIN resets
      PROVE  /\ resets'[j].account = resets[j].account
             /\ resets'[j].sets = resets[j].sets
             /\ resets[j].used => resets'[j].used
             /\ resets'[j].overlapped = resets[j].overlapped
  <2>1. CASE j = i
      BY <1>1, <1>2, <1>4, <1>5, <2>1
  <2>2. CASE j # i
      BY <1>5, <2>2
  <2>. QED  BY <2>1, <2>2
<1>8. LinkCallsKept
    BY <1>5 DEF LinkCallsKept
<1>. QED  BY <1>5, <1>6, <1>7, <1>8, LinksFrame

\* A request for a link: it crosses any other for the account.
LEMMA ForgotKeepsLinks ==
    ASSUME TypesInv, LinksInv, NEW c \in AccountCalls, NEW e \in Emails, ForgotPassword(c, e)
    PROVE  LinksInv'
<1>1. PICK a : a = Found(Lower[e])
    OBVIOUS
<1>2. PICK q : q = [NoAccountCall EXCEPT !.pc = "forgot", !.account = a, !.ids = UnusedOf(a)]
    OBVIOUS
<1>3. q.pc = "forgot" /\ q.account = a /\ q.ids = UnusedOf(a)
    BY <1>2 DEF NoAccountCall
<1>4. /\ accountCall' = [accountCall EXCEPT ![c] = q]
      /\ resets' = resets
      /\ crossed' = IF ForgetfulOf(a) # {} THEN crossed \cup {a} ELSE crossed
  <2>1. (\E d \in AccountCalls : AccountCallAt(d, "forgot") /\ accountCall[d].account = a)
          = (ForgetfulOf(a) # {})
      BY DEF AccountCallAt, ForgetfulOf
  <2>. QED  BY <1>1, <1>2, <2>1 DEF ForgotPassword, BeginAccountCall
<1>5. accountCall[c].pc = "idle"
    BY DEF ForgotPassword, BeginAccountCall
<1>6. accountCall'[c] = q /\ \A d \in AccountCalls \ {c} : accountCall'[d] = accountCall[d]
    BY <1>4, OneCallKept
<1>7. SingleUse'
  <2>1. \A i : ResettingWith(i)' = ResettingWith(i)
      BY <1>3, <1>5, <1>6 DEF ResettingWith
  <2>2. ASSUME NEW d \in AccountCalls, accountCall'[d].pc = "reset"
        PROVE  accountCall'[d].ids \subseteq DOMAIN resets'
      BY <1>3, <1>4, <1>6, <2>2 DEF LinksInv, SingleUse
  <2>. QED  BY <1>4, <2>1, <2>2 DEF LinksInv, SingleUse
<1>8. OneGoodLink'
  <2>1. \A b : UnusedOf(b)' = UnusedOf(b)
      BY <1>4 DEF UnusedOf
  <2>2. ASSUME NEW b \in AccountIds \ crossed'
        PROVE  /\ \A d, f \in ForgetfulOf(b)' : d = f
               /\ \A d \in ForgetfulOf(b)' : UnusedOf(b) \subseteq accountCall'[d].ids
    <3>1. b \in AccountIds \ crossed
        BY <1>4, <2>2
    <3>2. CASE b = a
      <4>1. ForgetfulOf(a) = {}
          BY <1>4, <2>2, <3>2
      <4>2. ForgetfulOf(b)' \subseteq {c}
          BY <1>6, <3>2, <4>1 DEF ForgetfulOf
      <4>3. UnusedOf(b) \subseteq accountCall'[c].ids
          BY <1>3, <1>6, <3>2
      <4>. QED  BY <4>2, <4>3
    <3>3. CASE b # a
      <4>1. \A d \in ForgetfulOf(b)' : d \in ForgetfulOf(b) /\ accountCall'[d] = accountCall[d]
          BY <1>3, <1>6, <3>3 DEF ForgetfulOf
      <4>. QED  BY <3>1, <4>1 DEF LinksInv, OneGoodLink
    <3>. QED  BY <3>2, <3>3
  <2>3. crossed \subseteq crossed'
      BY <1>4
  <2>. QED  BY <2>1, <2>2, <2>3 DEF LinksInv, OneGoodLink
<1>. QED  BY <1>7, <1>8 DEF LinksInv

\* The link is sent, and takes the older ones back.
LEMMA SendKeepsLinks ==
    ASSUME TypesInv, LinksInv, NEW c \in AccountCalls, SendLink(c)
    PROVE  LinksInv'
<1>1. accountCall' = [accountCall EXCEPT ![c] = NoAccountCall] /\ crossed' = crossed
      /\ accountCall[c].pc = "forgot"
    BY DEF SendLink, EndAccountCall, AccountCallAt
<1>2. /\ accountCall'[c].pc = "idle"
      /\ \A d \in AccountCalls \ {c} : accountCall'[d] = accountCall[d]
  <2>1. NoAccountCall.pc = "idle"
      BY DEF NoAccountCall
  <2>. QED  BY <1>1, <2>1, OneCallKept
<1>3. PICK a : a = accountCall[c].account
    OBVIOUS
<1>4. PICK new : new = Len(resets) + 1
    OBVIOUS
<1>5. /\ DOMAIN resets' = DOMAIN resets \cup {new} /\ new \notin DOMAIN resets
      /\ resets'[new].account = a /\ resets'[new].sets = 0
  <2>1. /\ Len(resets) \in Nat /\ DOMAIN resets = 1..Len(resets)
        /\ DOMAIN resets' = 1..(Len(resets) + 1)
        /\ resets'[new].account = a /\ resets'[new].sets = 0
      BY <1>3, <1>4, SentLink
  <2>2. new \notin 1..Len(resets) /\ 1..(Len(resets) + 1) = (1..Len(resets)) \cup {new}
      BY ONLY <1>4, <2>1
  <2>. QED  BY <2>1, <2>2
<1>6. SingleUse'
  <2>1. \A i : ResettingWith(i)' \subseteq ResettingWith(i)
      BY <1>2 DEF ResettingWith
  <2>2. ASSUME NEW d \in AccountCalls, accountCall'[d].pc = "reset"
        PROVE  accountCall'[d].ids \subseteq DOMAIN resets'
      BY <1>2, <1>5, <2>2 DEF LinksInv, SingleUse
  <2>3. ASSUME NEW i \in DOMAIN resets
        PROVE  /\ resets'[i].sets > 0 => resets'[i].used
               /\ ~resets'[i].overlapped =>
                    /\ resets'[i].sets <= 1
                    /\ \A d, f \in ResettingWith(i)' : d = f
                    /\ ResettingWith(i)' # {} => resets'[i].sets = 0
    <3>1. /\ resets[i].sets > 0 => resets[i].used
          /\ ~resets[i].overlapped =>
               /\ resets[i].sets <= 1
               /\ \A d, f \in ResettingWith(i) : d = f
               /\ ResettingWith(i) # {} => resets[i].sets = 0
        BY DEF LinksInv, SingleUse
    <3>2. /\ resets'[i].sets = resets[i].sets /\ resets'[i].overlapped = resets[i].overlapped
          /\ resets[i].used => resets'[i].used
        BY SentLink
    <3>. QED  BY <2>1, <3>1, <3>2
  <2>4. ResettingWith(new)' = {}
    <3>1. ResettingWith(new) = {}
        BY <1>5 DEF LinksInv, SingleUse, ResettingWith
    <3>. QED  BY <2>1, <3>1
  <2>5. /\ resets'[new].sets > 0 => resets'[new].used
        /\ ~resets'[new].overlapped =>
             /\ resets'[new].sets <= 1
             /\ \A d, f \in ResettingWith(new)' : d = f
             /\ ResettingWith(new)' # {} => resets'[new].sets = 0
      BY <1>5, <2>4
  <2>. QED  BY <1>5, <2>2, <2>3, <2>5 DEF SingleUse
<1>7. OneGoodLink'
  <2>1. ASSUME NEW b \in AccountIds \ crossed'
        PROVE  /\ \A d, f \in ForgetfulOf(b)' : d = f
               /\ \A d \in ForgetfulOf(b)' : UnusedOf(b)' \subseteq accountCall'[d].ids
               /\ \A i, j \in UnusedOf(b)' : i = j
    <3>1. b \in AccountIds \ crossed
        BY <1>1
    <3>2. /\ \A d, f \in ForgetfulOf(b) : d = f
          /\ \A d \in ForgetfulOf(b) : UnusedOf(b) \subseteq accountCall[d].ids
          /\ \A i, j \in UnusedOf(b) : i = j
        BY <3>1 DEF LinksInv, OneGoodLink
    <3>3. \A d \in ForgetfulOf(b)' : d \in ForgetfulOf(b) /\ d # c /\ accountCall'[d] = accountCall[d]
        BY <1>2 DEF ForgetfulOf
    <3>4. ASSUME NEW i \in UnusedOf(b)', i # new PROVE i \in UnusedOf(b) /\ i \notin accountCall[c].ids
        BY <1>5, <3>4, SentLink DEF UnusedOf
    <3>5. CASE b = a
      <4>1. c \in ForgetfulOf(b)
          BY <1>1, <1>3, <3>5 DEF ForgetfulOf
      <4>2. UnusedOf(b)' \subseteq {new}
          BY <3>2, <3>4, <4>1
      <4>3. ForgetfulOf(b)' = {}
          BY <3>2, <3>3, <4>1
      <4>. QED  BY <4>2, <4>3
    <3>6. CASE b # a
      <4>1. UnusedOf(b)' \subseteq UnusedOf(b)
        <5>1. new \notin UnusedOf(b)'
            BY <1>5, <3>6 DEF UnusedOf
        <5>. QED  BY <3>4, <5>1
      <4>. QED  BY <3>2, <3>3, <4>1
    <3>. QED  BY <3>5, <3>6
  <2>. QED  BY <2>1 DEF OneGoodLink
<1>. QED  BY <1>6, <1>7 DEF LinksInv

\* Someone follows a link, and may find another there.
LEMMA FollowKeepsLinks ==
    ASSUME TypesInv, LinksInv, NEW c \in AccountCalls, NEW i \in ResetIds, FollowLink(c, i)
    PROVE  LinksInv'
<1>1. /\ i \in DOMAIN resets /\ ~resets[i].used /\ accountCall[c].pc = "idle" /\ crossed' = crossed
    BY Zenon DEF FollowLink, BeginAccountCall
<1>2. PICK r \in ResetRecords : r = resets[i]
    BY <1>1, RowTypes
<1>3. PICK b \in BOOLEAN : b = (r.overlapped \/ ResettingWith(i) # {})
    BY DEF ResetRecords
<1>4. PICK w : w = [r EXCEPT !.overlapped = b]
    OBVIOUS
<1>5. /\ w.account = r.account /\ w.used = r.used /\ w.sets = r.sets /\ w.overlapped = b
      /\ r.sets \in Nat
    BY <1>4 DEF ResetRecords
<1>6. resets' = [resets EXCEPT ![i] = w]
  <2>1. (\E d \in AccountCalls : AccountCallAt(d, "reset") /\ i \in accountCall[d].ids)
          = (ResettingWith(i) # {})
      BY DEF ResettingWith, AccountCallAt
  <2>. QED  BY <1>2, <1>3, <1>4, <2>1 DEF FollowLink
<1>7. PICK a : a = resets[i].account
    OBVIOUS
<1>8. PICK q : q = [NoAccountCall EXCEPT !.pc = "reset", !.ids = {i}, !.account = a]
    OBVIOUS
<1>9. q.pc = "reset" /\ q.ids = {i}
    BY <1>8 DEF NoAccountCall
<1>10. accountCall' = [accountCall EXCEPT ![c] = q]
    BY <1>7, <1>8 DEF FollowLink, BeginAccountCall
<1>11. accountCall'[c] = q /\ \A d \in AccountCalls \ {c} : accountCall'[d] = accountCall[d]
    BY <1>10, OneCallKept
<1>12. DOMAIN resets' = DOMAIN resets /\ resets'[i] = w
       /\ \A j \in DOMAIN resets \ {i} : resets'[j] = resets[j]
    BY <1>1, <1>6
<1>13. SingleUse'
  <2>1. ASSUME NEW d \in AccountCalls, accountCall'[d].pc = "reset"
        PROVE  accountCall'[d].ids \subseteq DOMAIN resets'
    <3>1. CASE d = c
        BY <1>1, <1>9, <1>11, <1>12, <3>1
    <3>2. CASE d # c
        BY <1>11, <1>12, <2>1, <3>2 DEF LinksInv, SingleUse
    <3>. QED  BY <3>1, <3>2
  <2>2. ResettingWith(i)' \subseteq ResettingWith(i) \cup {c}
      BY <1>11 DEF ResettingWith
  <2>3. \A j \in DOMAIN resets \ {i} : ResettingWith(j)' \subseteq ResettingWith(j)
      BY <1>9, <1>11 DEF ResettingWith
  <2>4. ASSUME NEW j \in DOMAIN resets
        PROVE  /\ resets'[j].sets > 0 => resets'[j].used
               /\ ~resets'[j].overlapped =>
                    /\ resets'[j].sets <= 1
                    /\ \A d, f \in ResettingWith(j)' : d = f
                    /\ ResettingWith(j)' # {} => resets'[j].sets = 0
    <3>1. CASE j = i
      <4>1. w.sets = 0
          BY <1>1, <1>2, <1>5 DEF LinksInv, SingleUse
      <4>2. ~w.overlapped => ResettingWith(i) = {}
          BY <1>3, <1>5
      <4>. QED  BY <1>12, <2>2, <3>1, <4>1, <4>2
    <3>2. CASE j # i
        BY <1>12, <2>3, <3>2 DEF LinksInv, SingleUse
    <3>. QED  BY <3>1, <3>2
  <2>. QED  BY <1>12, <2>1, <2>4 DEF SingleUse
<1>14. OneGoodLink'
  <2>1. \A e : ForgetfulOf(e)' \subseteq ForgetfulOf(e)
      BY <1>9, <1>11 DEF ForgetfulOf
  <2>2. \A e : UnusedOf(e)' \subseteq UnusedOf(e)
      BY <1>2, <1>5, <1>12 DEF UnusedOf
  <2>3. \A e : \A d \in ForgetfulOf(e)' : accountCall'[d] = accountCall[d]
      BY <1>9, <1>11 DEF ForgetfulOf
  <2>. QED  BY <1>1, <2>1, <2>2, <2>3 DEF LinksInv, OneGoodLink
<1>. QED  BY <1>13, <1>14 DEF LinksInv

\* The link sets a password, if the user is still there.
LEMMA SetKeepsLinks ==
    ASSUME TypesInv, LinksInv, NEW c \in AccountCalls, SetPassword(c)
    PROVE  LinksInv'
<1>1. accountCall' = [accountCall EXCEPT ![c] = NoAccountCall] /\ crossed' = crossed
      /\ accountCall[c].pc = "reset"
    BY DEF SetPassword, EndAccountCall, AccountCallAt
<1>2. /\ accountCall'[c].pc = "idle"
      /\ \A d \in AccountCalls \ {c} : accountCall'[d] = accountCall[d]
  <2>1. NoAccountCall.pc = "idle"
      BY DEF NoAccountCall
  <2>. QED  BY <1>1, <2>1, OneCallKept
<1>3. DOMAIN resets' = DOMAIN resets
    BY WrittenLinks
<1>4. ASSUME NEW i \in DOMAIN resets
      PROVE  \/ resets'[i] = resets[i]
             \/ /\ c \in ResettingWith(i) /\ resets[i].sets \in Nat
                /\ resets'[i].used /\ resets'[i].account = resets[i].account
                /\ resets'[i].overlapped = resets[i].overlapped
                /\ resets'[i].sets = resets[i].sets + 1
  <2>1. PICK r \in ResetRecords : r = resets[i]
      BY RowTypes
  <2>2. PICK m \in Nat : m = r.sets + 1
      BY DEF ResetRecords
  <2>3. PICK q : q = [r EXCEPT !.used = TRUE, !.sets = m]
      OBVIOUS
  <2>4. /\ q.used = TRUE /\ q.account = r.account /\ q.overlapped = r.overlapped
        /\ q.sets = m /\ r.sets \in Nat
      BY <2>3 DEF ResetRecords
  <2>5. resets'[i] = r \/ (resets'[i] = q /\ i \in accountCall[c].ids)
      BY <2>1, <2>2, <2>3 DEF SetPassword
  <2>. QED  BY <1>1, <2>1, <2>2, <2>4, <2>5 DEF ResettingWith
<1>5. SingleUse'
  <2>1. \A i : ResettingWith(i)' \subseteq ResettingWith(i) \ {c}
      BY <1>2 DEF ResettingWith
  <2>2. ASSUME NEW d \in AccountCalls, accountCall'[d].pc = "reset"
        PROVE  accountCall'[d].ids \subseteq DOMAIN resets'
      BY <1>2, <1>3, <2>2 DEF LinksInv, SingleUse
  <2>3. ASSUME NEW i \in DOMAIN resets
        PROVE  /\ resets'[i].sets > 0 => resets'[i].used
               /\ ~resets'[i].overlapped =>
                    /\ resets'[i].sets <= 1
                    /\ \A d, f \in ResettingWith(i)' : d = f
                    /\ ResettingWith(i)' # {} => resets'[i].sets = 0
    <3>1. CASE resets'[i] = resets[i]
        BY <2>1, <3>1 DEF LinksInv, SingleUse
    <3>2. CASE resets'[i] # resets[i]
      <4>1. /\ c \in ResettingWith(i) /\ resets'[i].used /\ resets[i].sets \in Nat
            /\ resets'[i].overlapped = resets[i].overlapped
            /\ resets'[i].sets = resets[i].sets + 1
          BY <1>4, <3>2
      <4>2. ~resets[i].overlapped => resets[i].sets = 0 /\ ResettingWith(i) = {c}
          BY <4>1 DEF LinksInv, SingleUse
      <4>. QED  BY <2>1, <4>1, <4>2
    <3>. QED  BY <3>1, <3>2
  <2>. QED  BY <1>3, <2>2, <2>3 DEF SingleUse
<1>6. OneGoodLink'
  <2>1. \A e : ForgetfulOf(e)' \subseteq ForgetfulOf(e)
      BY <1>2 DEF ForgetfulOf
  <2>2. \A e : UnusedOf(e)' \subseteq UnusedOf(e)
      BY <1>3, <1>4 DEF UnusedOf
  <2>3. \A e : \A d \in ForgetfulOf(e)' : accountCall'[d] = accountCall[d]
      BY <1>2 DEF ForgetfulOf
  <2>. QED  BY <1>1, <2>1, <2>2, <2>3 DEF LinksInv, OneGoodLink
<1>. QED  BY <1>5, <1>6 DEF LinksInv

\* Every step keeps the links in order.
LEMMA NextLinks == ASSUME TypesInv, LinksInv, AccountsNext PROVE LinksInv'
BY OthersKeepLinks, ExpiryKeepsLinks, ForgotKeepsLinks, SendKeepsLinks, FollowKeepsLinks,
   SetKeepsLinks DEF AccountsNext

----------------------------------------------------------------------------
(* Google tokens *)

\* Nobody has signed in at first.
LEMMA InitGrants == ASSUME AccountsInit PROVE GrantsInv
<1>1. /\ \A c \in AccountCalls : accountCall[c].pc = "idle"
      /\ \A a \in AccountIds : settled[a] = 0
  <2>1. NoAccountCall.pc = "idle"
      BY DEF NoAccountCall
  <2>. QED  BY <2>1 DEF AccountsInit
<1>. QED  BY <1>1 DEF GrantsInv, SignInCovers, SettledIsActive

\* Of an account that is settled one grant can be picked up.
LEMMA SettledIsUsed == ASSUME GrantsInv PROVE NewestGrantIsUsed
<1>1. ASSUME NEW a \in AccountIds, settled[a] # 0 PROVE Usable(a) = {settled[a]}
  <2>1. PICK n \in DOMAIN connections : ActiveOf(a) = {n} /\ connections[n].grant = settled[a]
      BY <1>1 DEF GrantsInv, SettledIsActive
  <2>. QED  BY <2>1 DEF Usable
<1>. QED  BY <1>1 DEF NewestGrantIsUsed

\* Whoever refreshes the tokens of a settled account holds its grant.
LEMMA RefreshHoldsGrant ==
    ASSUME GrantsInv, NEW a \in AccountIds, settled[a] # 0, NEW c \in AccountCalls,
           accountCall[c].pc = "refresh", accountCall[c].account = a
    PROVE  accountCall[c].grant = settled[a]
BY Zenon DEF GrantsInv, SettledIsActive
\* A refresh in hand of a settled account is of the settled grant.
LEMMA RefreshKept ==
    ASSUME GrantsInv, GrantCallsKept, NEW a \in AccountIds, settled[a] # 0
    PROVE  \A c \in AccountCalls :
             accountCall'[c].pc = "refresh" /\ accountCall'[c].account = a
               => accountCall'[c].grant = settled[a]
<1>. SUFFICES ASSUME NEW c \in AccountCalls,
                     accountCall'[c].pc = "refresh", accountCall'[c].account = a
              PROVE  accountCall'[c].grant = settled[a]
    OBVIOUS
<1>1. accountCall[c].pc = "refresh" /\ accountCall[c].account = a
      /\ accountCall'[c].grant = accountCall[c].grant
    BY DEF GrantCallsKept
<1>. QED  BY <1>1, RefreshHoldsGrant

\* The account of a request that is on a row is no deleted row's.
LEMMA CallsAccount ==
    ASSUME TypesInv, NEW c \in AccountCalls, accountCall[c].pc \in OnARow
    PROVE  accountCall[c].account \in AccountIds /\ accountCall[c].account # 0
<1>1. accountCall[c].account \in DOMAIN accounts
    BY CallFields DEF Sensible
<1>. QED  BY <1>1, RowTypes, Bounds DEF AccountIds

\* Steps that change neither a connection nor a request that writes tokens.
LEMMA GrantsFrame ==
    ASSUME GrantsInv, connections' = connections, settled' = settled, GrantCallsKept
    PROVE  GrantsInv'
<1>1. \A a : ActiveOf(a)' = ActiveOf(a)
    BY DEF ActiveOf
<1>2. SignInCovers'
    BY <1>1 DEF GrantsInv, SignInCovers, GrantCallsKept
<1>3. SettledIsActive'
  <2>1. ASSUME NEW a \in AccountIds, settled[a] # 0
        PROVE  \A c \in AccountCalls :
                 accountCall'[c].pc = "refresh" /\ accountCall'[c].account = a
                   => accountCall'[c].grant = settled[a]
      BY <2>1, RefreshKept
  <2>. QED  BY <1>1, <2>1 DEF GrantsInv, SettledIsActive
<1>. QED  BY <1>2, <1>3 DEF GrantsInv
\* Sign-up, sign-in, links and passwords leave the connections alone.
LEMMA OthersKeepGrants ==
    ASSUME TypesInv, GrantsInv,
           \/ \E c \in AccountCalls :
                \/ \E e \in Emails : Register(c, e) \/ SignInWithGoogle(c, e) \/ ForgotPassword(c, e)
                \/ CommitRegister(c) \/ SaveGoogleUser(c)
                \/ \E i \in ResetIds : FollowLink(c, i)
                \/ SendLink(c) \/ SetPassword(c)
                \/ FailAccountCall(c)
           \/ \E i \in ResetIds : LinkExpires(i)
    PROVE  GrantsInv'
<1>1. connections' = connections /\ settled' = settled
    BY DEF Register, SignInWithGoogle, ForgotPassword, CommitRegister, SaveGoogleUser,
           FollowLink, SendLink, SetPassword, FailAccountCall, LinkExpires
<1>2. GrantCallsKept
  <2>1. ASSUME NEW c \in AccountCalls, NEW e \in Emails, Register(c, e) PROVE GrantCallsKept
    <3>1. PICK q : q = [NoAccountCall EXCEPT !.pc = "register", !.email = Lower[e]]
        OBVIOUS
    <3>2. q.pc = "register"
        BY <3>1 DEF NoAccountCall
    <3>3. accountCall' = [accountCall EXCEPT ![c] = q]
        BY <2>1, <3>1 DEF Register, BeginAccountCall
    <3>. QED  BY <3>2, <3>3, OneCallKept
  <2>2. ASSUME NEW c \in AccountCalls, NEW e \in Emails, SignInWithGoogle(c, e)
        PROVE  GrantCallsKept
    <3>1. PICK q : q = [NoAccountCall EXCEPT !.pc = "google user", !.email = e,
                          !.account = Found(e), !.grant = grants + 1]
        OBVIOUS
    <3>2. q.pc = "google user"
        BY <3>1 DEF NoAccountCall
    <3>3. accountCall' = [accountCall EXCEPT ![c] = q]
        BY <2>2, <3>1 DEF SignInWithGoogle, BeginAccountCall
    <3>. QED  BY <3>2, <3>3, OneCallKept
  <2>3. ASSUME NEW c \in AccountCalls, NEW e \in Emails, ForgotPassword(c, e)
        PROVE  GrantCallsKept
    <3>0. PICK a : a = Found(Lower[e])
        OBVIOUS
    <3>1. PICK q : q = [NoAccountCall EXCEPT !.pc = "forgot", !.account = a, !.ids = UnusedOf(a)]
        OBVIOUS
    <3>2. q.pc = "forgot"
        BY <3>1 DEF NoAccountCall
    <3>3. accountCall' = [accountCall EXCEPT ![c] = q]
        BY <2>3, <3>0, <3>1 DEF ForgotPassword, BeginAccountCall
    <3>. QED  BY <3>2, <3>3, OneCallKept
  <2>4. ASSUME NEW c \in AccountCalls,
               CommitRegister(c) \/ FailAccountCall(c) \/ SendLink(c) \/ SetPassword(c)
        PROVE  GrantCallsKept
    <3>1. accountCall' = [accountCall EXCEPT ![c] = NoAccountCall]
        BY <2>4 DEF CommitRegister, FailAccountCall, SendLink, SetPassword, EndAccountCall
    <3>2. NoAccountCall.pc = "idle"
        BY DEF NoAccountCall
    <3>. QED  BY <3>1, <3>2, OneCallKept
  <2>5. ASSUME NEW c \in AccountCalls, NEW i \in ResetIds, FollowLink(c, i)
        PROVE  GrantCallsKept
    <3>0. PICK a : a = resets[i].account
        OBVIOUS
    <3>1. PICK q : q = [NoAccountCall EXCEPT !.pc = "reset", !.ids = {i}, !.account = a]
        OBVIOUS
    <3>2. q.pc = "reset"
        BY <3>1 DEF NoAccountCall
    <3>3. accountCall' = [accountCall EXCEPT ![c] = q]
        BY <2>5, <3>0, <3>1 DEF FollowLink, BeginAccountCall
    <3>. QED  BY <3>2, <3>3, OneCallKept
  <2>6. ASSUME NEW i \in ResetIds, LinkExpires(i) PROVE GrantCallsKept
      BY <2>6 DEF LinkExpires, GrantCallsKept
  <2>. QED  BY <2>1, <2>2, <2>3, <2>4, <2>5, <2>6, SaveGoogleUserCalls
<1>. QED  BY <1>1, <1>2, GrantsFrame

\* The UPDATE of a sign-in finds every active row of its account.
LEMMA DeactivateKeepsGrants ==
    ASSUME TypesInv, GrantsInv, NEW c \in AccountCalls, DeactivateConnections(c)
    PROVE  GrantsInv'
<1>1. PICK q : /\ accountCall' = [accountCall EXCEPT ![c] = q]
               /\ q.pc = "google insert" /\ q.account = accountCall[c].account
               /\ q.ids = {n \in DOMAIN connections :
                             connections[n].account = accountCall[c].account}
    BY DeactivateCalls
<1>2. accountCall'[c] = q /\ \A d \in AccountCalls \ {c} : accountCall'[d] = accountCall[d]
    BY <1>1, OneCallKept
<1>3. connections' = connections /\ settled' = settled
    BY DEF DeactivateConnections
<1>4. \A a : ActiveOf(a)' = ActiveOf(a)
    BY <1>3 DEF ActiveOf
<1>5. SignInCovers'
  <2>1. ASSUME NEW d \in AccountCalls, accountCall'[d].pc = "google insert"
        PROVE  /\ ~accountCall'[d].disturbed
                    => ActiveOf(accountCall'[d].account) \subseteq accountCall'[d].ids
               /\ \A n \in accountCall'[d].ids :
                    /\ n \in DOMAIN connections
                    /\ connections[n].account \in {accountCall'[d].account, 0}
    <3>1. CASE d = c
        BY <1>1, <1>2, <3>1 DEF ActiveOf
    <3>2. CASE d # c
        BY <1>2, <2>1, <3>2 DEF GrantsInv, SignInCovers
    <3>. QED  BY <3>1, <3>2
  <2>. QED  BY <1>3, <1>4, <2>1 DEF SignInCovers
<1>6. SettledIsActive'
  <2>1. ASSUME NEW a \in AccountIds, settled[a] # 0, NEW d \in AccountCalls,
               accountCall'[d].pc = "refresh", accountCall'[d].account = a
        PROVE  accountCall'[d].grant = settled[a]
    <3>1. accountCall'[d] = accountCall[d]
        BY <1>1, <1>2, <2>1
    <3>. QED  BY <2>1, <3>1, RefreshHoldsGrant
  <2>. QED  BY <1>3, <1>4, <2>1 DEF GrantsInv, SettledIsActive
<1>. QED  BY <1>5, <1>6 DEF GrantsInv

\* A refresh begins with what can be picked up.
LEMMA RefreshKeepsGrants ==
    ASSUME TypesInv, GrantsInv, NEW c \in AccountCalls, NEW a \in AccountIds, BeginRefresh(c, a)
    PROVE  GrantsInv'
<1>1. PICK g \in Usable(a) : BeginAccountCall(c, [NoAccountCall EXCEPT !.pc = "refresh",
                                                    !.account = a, !.grant = g])
    BY DEF BeginRefresh
<1>2. PICK q : q = [NoAccountCall EXCEPT !.pc = "refresh", !.account = a, !.grant = g]
    OBVIOUS
<1>3. q.pc = "refresh" /\ q.account = a /\ q.grant = g
    BY <1>2 DEF NoAccountCall
<1>4. accountCall' = [accountCall EXCEPT ![c] = q]
    BY <1>1, <1>2 DEF BeginAccountCall
<1>5. accountCall'[c] = q /\ \A d \in AccountCalls \ {c} : accountCall'[d] = accountCall[d]
    BY <1>4, OneCallKept
<1>6. connections' = connections /\ settled' = settled
    BY DEF BeginRefresh
<1>7. \A b : ActiveOf(b)' = ActiveOf(b)
    BY <1>6 DEF ActiveOf
<1>8. SignInCovers'
  <2>1. ASSUME NEW d \in AccountCalls, accountCall'[d].pc = "google insert"
        PROVE  accountCall'[d] = accountCall[d]
      BY <1>3, <1>5, <2>1
  <2>. QED  BY <1>6, <1>7, <2>1 DEF GrantsInv, SignInCovers
<1>9. SettledIsActive'
  <2>1. ASSUME NEW b \in AccountIds, settled[b] # 0, NEW d \in AccountCalls,
               accountCall'[d].pc = "refresh", accountCall'[d].account = b
        PROVE  accountCall'[d].grant = settled[b]
    <3>1. CASE d = c
      <4>1. Usable(b) = {settled[b]} /\ b = a
          BY <1>3, <1>5, <2>1, <3>1, SettledIsUsed DEF NewestGrantIsUsed
      <4>. QED  BY <1>3, <1>5, <3>1, <4>1
    <3>2. CASE d # c
        BY <1>5, <2>1, <3>2 DEF GrantsInv, SettledIsActive
    <3>. QED  BY <3>1, <3>2
  <2>. QED  BY <1>6, <1>7, <2>1 DEF GrantsInv, SettledIsActive
<1>. QED  BY <1>8, <1>9 DEF GrantsInv

\* What it got is written where it was read, or where nothing is settled.
LEMMA SaveKeepsGrants ==
    ASSUME TypesInv, GrantsInv, NEW c \in AccountCalls, SaveRefreshed(c)
    PROVE  GrantsInv'
<1>1. PICK a : a = accountCall[c].account
    OBVIOUS
<1>2. GrantCallsKept
  <2>1. PICK W : W = Writing(a)
      OBVIOUS
  <2>2. W \in SUBSET AccountCalls /\ {c} \in SUBSET AccountCalls /\ EndWrite(c)
      BY <2>1 DEF Writing, SaveRefreshed
  <2>. QED  BY <1>1, <2>1, <2>2, WriteEnds, DisturbedKept
<1>3. settled' = settled /\ accountCall[c].pc = "refresh"
    BY DEF SaveRefreshed, AccountCallAt
<1>4. DOMAIN connections' = DOMAIN connections
    BY SavedConnection
<1>5. \A n \in DOMAIN connections :
        /\ connections'[n].account = connections[n].account
        /\ connections'[n].active = connections[n].active
        /\ connections'[n].home = connections[n].home
        /\ \/ connections'[n].grant = connections[n].grant
           \/ n \in ActiveOf(a) /\ connections'[n].grant = accountCall[c].grant
    BY <1>1, SavedConnection
<1>6. \A b : ActiveOf(b)' = ActiveOf(b)
    BY <1>4, <1>5 DEF ActiveOf
<1>7. SignInCovers'
  <2>1. ASSUME NEW d \in AccountCalls, accountCall'[d].pc = "google insert"
        PROVE  /\ ~accountCall'[d].disturbed
                    => ActiveOf(accountCall'[d].account) \subseteq accountCall'[d].ids
               /\ \A n \in accountCall'[d].ids :
                    /\ n \in DOMAIN connections
                    /\ connections[n].account \in {accountCall'[d].account, 0}
      BY <1>2, <2>1 DEF GrantsInv, SignInCovers, GrantCallsKept
  <2>. QED  BY <1>4, <1>5, <1>6, <2>1 DEF SignInCovers
<1>8. SettledIsActive'
  <2>1. ASSUME NEW b \in AccountIds, settled[b] # 0
        PROVE  /\ \E n \in DOMAIN connections :
                    /\ ActiveOf(b) = {n}
                    /\ connections'[n].grant = settled[b]
                    /\ connections'[n].home = "personal"
               /\ \A d \in AccountCalls :
                    accountCall'[d].pc = "refresh" /\ accountCall'[d].account = b
                      => accountCall'[d].grant = settled[b]
    <3>1. PICK n \in DOMAIN connections :
                    /\ ActiveOf(b) = {n}
                    /\ connections[n].grant = settled[b]
                    /\ connections[n].home = "personal"
        BY <2>1 DEF GrantsInv, SettledIsActive
    <3>2. ASSUME n \in ActiveOf(a) PROVE accountCall[c].grant = settled[b]
      <4>1. a = b
          BY <3>1, <3>2 DEF ActiveOf
      <4>. QED  BY <1>1, <1>3, <2>1, <4>1 DEF GrantsInv, SettledIsActive
    <3>3. connections'[n].grant = settled[b] /\ connections'[n].home = "personal"
        BY <1>5, <3>1, <3>2
    <3>4. \A d \in AccountCalls :
             accountCall'[d].pc = "refresh" /\ accountCall'[d].account = b
               => accountCall'[d].grant = settled[b]
        BY <1>2, <2>1, RefreshKept
    <3>. QED  BY <3>1, <3>3, <3>4
  <2>. QED  BY <1>3, <1>4, <1>6, <2>1 DEF SettledIsActive
<1>. QED  BY <1>7, <1>8 DEF GrantsInv

\* Rows that go were none of a settled account's.
LEMMA RowsGoKeepGrants ==
    ASSUME TypesInv, GrantsInv,
           \/ \E n \in ConnectionIds : DisconnectInOrganization(n)
           \/ \E a \in AccountIds : DeleteAccount(a)
    PROVE  GrantsInv'
<1>1. /\ accountCall' = accountCall /\ DOMAIN connections' = DOMAIN connections
      /\ \A n \in DOMAIN connections : connections'[n] = connections[n] \/ connections'[n] = Gone
    BY RowsGoTypes
<1>2. \A a \in AccountIds : settled'[a] # 0 =>
         /\ settled'[a] = settled[a]
         /\ \A n \in DOMAIN connections :
              connections[n].account = a /\ connections[n].home = "personal"
                => connections'[n] = connections[n]
  <2>1. CASE \E n \in ConnectionIds : DisconnectInOrganization(n)
      BY <2>1 DEF DisconnectInOrganization, TypesInv, AccountTypes
  <2>2. CASE \E a \in AccountIds : DeleteAccount(a)
    <3>1. PICK a \in AccountIds : DeleteAccount(a)
        BY <2>2
    <3>2. /\ settled' = [settled EXCEPT ![a] = 0]
          /\ connections' = [n \in DOMAIN connections |->
                               IF connections[n].account = a THEN Gone ELSE connections[n]]
        BY <3>1 DEF DeleteAccount
    <3>. QED  BY <3>2 DEF TypesInv, AccountTypes
  <2>. QED  BY <2>1, <2>2
<1>3. Gone.account = 0 /\ ~Gone.active /\ \A a \in AccountIds : a # 0
    BY ConnectionTypes, Bounds DEF AccountIds
<1>4. ASSUME NEW a \in AccountIds PROVE ActiveOf(a)' \subseteq ActiveOf(a)
    BY <1>1, <1>3 DEF ActiveOf
<1>5. SignInCovers'
  <2>1. ASSUME NEW c \in AccountCalls, accountCall[c].pc = "google insert"
        PROVE  /\ ~accountCall[c].disturbed
                    => ActiveOf(accountCall[c].account)' \subseteq accountCall[c].ids
               /\ \A n \in accountCall[c].ids :
                    /\ n \in DOMAIN connections
                    /\ connections'[n].account \in {accountCall[c].account, 0}
    <3>1. PICK a \in AccountIds : a = accountCall[c].account
        BY <2>1, CallsAccount DEF OnARow
    <3>2. /\ ~accountCall[c].disturbed => ActiveOf(a) \subseteq accountCall[c].ids
          /\ \A n \in accountCall[c].ids :
               n \in DOMAIN connections /\ connections[n].account \in {a, 0}
        BY <2>1, <3>1 DEF GrantsInv, SignInCovers
    <3>3. \A n \in accountCall[c].ids : connections'[n].account \in {a, 0}
        BY <1>1, <1>3, <3>2
    <3>4. ActiveOf(a)' \subseteq ActiveOf(a)
        BY <1>4
    <3>5. ActiveOf(accountCall[c].account)' = ActiveOf(a)'
        BY <1>1, <3>1 DEF ActiveOf
    <3>. QED  BY <3>1, <3>2, <3>3, <3>4, <3>5
  <2>. QED  BY <1>1, <2>1 DEF SignInCovers
<1>6. SettledIsActive'
  <2>1. ASSUME NEW a \in AccountIds, settled'[a] # 0
        PROVE  \E n \in DOMAIN connections' :
                    /\ ActiveOf(a)' = {n}
                    /\ connections'[n].grant = settled'[a]
                    /\ connections'[n].home = "personal"
    <3>1. PICK n \in DOMAIN connections :
                    /\ ActiveOf(a) = {n}
                    /\ connections[n].grant = settled[a]
                    /\ connections[n].home = "personal"
        BY <1>2, <2>1 DEF GrantsInv, SettledIsActive
    <3>2. connections'[n] = connections[n] /\ settled'[a] = settled[a]
        BY <1>2, <2>1, <3>1 DEF ActiveOf
    <3>3. n \in ActiveOf(a)'
        BY <1>1, <3>1, <3>2 DEF ActiveOf
    <3>. QED  BY <1>1, <1>4, <3>1, <3>2, <3>3
  <2>2. ASSUME NEW a \in AccountIds, settled'[a] # 0
        PROVE  \A c \in AccountCalls :
                 accountCall'[c].pc = "refresh" /\ accountCall'[c].account = a
                   => accountCall'[c].grant = settled'[a]
    <3>1. settled'[a] = settled[a] /\ settled[a] # 0
        BY <1>2, <2>2
    <3>. QED  BY <1>1, <3>1, RefreshHoldsGrant
  <2>. QED  BY <2>1, <2>2 DEF SettledIsActive
<1>. QED  BY <1>5, <1>6 DEF GrantsInv

\* An organization's connection unsettles its account, disturbs who signs in to
\* it, and leaves the rows of other accounts.
LEMMA ConnectKeepsGrants ==
    ASSUME TypesInv, GrantsInv, NEW a \in AccountIds, ConnectInOrganization(a)
    PROVE  GrantsInv'
<1>1. /\ Writing(a) \in SUBSET AccountCalls
      /\ accountCall' = Disturbing(Writing(a))
      /\ GrantCallsKept
    BY ConnectCalls
<1>2. /\ DOMAIN connections \subseteq DOMAIN connections'
      /\ \A n \in DOMAIN connections :
           \/ connections'[n] = connections[n]
           \/ connections[n].account = a /\ connections'[n].account = a
      /\ \A n \in DOMAIN connections' :
           \/ n \in DOMAIN connections /\ connections'[n] = connections[n]
           \/ connections'[n].account = a
    BY OrganizationConnection
<1>3. settled' = [settled EXCEPT ![a] = 0] /\ settled \in [AccountIds -> 0..grants]
    BY DEF ConnectInOrganization, TypesInv, AccountTypes
<1>4. \A b : b # a => ActiveOf(b)' = ActiveOf(b)
    BY <1>2 DEF ActiveOf
<1>5. SignInCovers'
  <2>1. ASSUME NEW d \in AccountCalls, accountCall'[d].pc = "google insert"
        PROVE  /\ ~accountCall'[d].disturbed
                    => ActiveOf(accountCall[d].account)' \subseteq accountCall'[d].ids
               /\ \A n \in accountCall'[d].ids :
                    /\ n \in DOMAIN connections'
                    /\ connections'[n].account \in {accountCall'[d].account, 0}
    <3>1. /\ accountCall[d].pc = "google insert"
          /\ accountCall'[d].account = accountCall[d].account
          /\ accountCall'[d].ids = accountCall[d].ids
          /\ accountCall[d].disturbed => accountCall'[d].disturbed
        BY <1>1, <2>1 DEF GrantCallsKept
    <3>2. /\ ~accountCall[d].disturbed
                => ActiveOf(accountCall[d].account) \subseteq accountCall[d].ids
          /\ \A n \in accountCall[d].ids :
                /\ n \in DOMAIN connections
                /\ connections[n].account \in {accountCall[d].account, 0}
        BY <3>1 DEF GrantsInv, SignInCovers
    <3>3. accountCall[d].account # 0 /\ a # 0
      <4>1. accountCall[d].pc \in OnARow
          BY <3>1 DEF OnARow
      <4>. QED  BY <4>1, CallsAccount, Bounds DEF AccountIds
    <3>4. \A n \in accountCall'[d].ids :
             n \in DOMAIN connections' /\ connections'[n].account \in {accountCall'[d].account, 0}
        BY <1>2, <3>1, <3>2, <3>3
    <3>5. CASE accountCall[d].account = a
      <4>1. d \in Writing(a)
          BY <3>1, <3>5 DEF Writing, GoogleSteps
      <4>2. accountCall'[d].disturbed
          BY <1>1, <4>1, DisturbedCalls
      <4>. QED  BY <3>4, <4>2
    <3>6. CASE accountCall[d].account # a
      <4>1. PICK b : b = accountCall[d].account
          OBVIOUS
      <4>2. ActiveOf(accountCall[d].account)' = ActiveOf(b)
        <5>1. ActiveOf(accountCall[d].account)' = ActiveOf(b)'
            BY <3>1, <4>1 DEF ActiveOf
        <5>. QED  BY <1>4, <3>6, <4>1, <5>1
      <4>. QED  BY <3>1, <3>2, <3>4, <4>1, <4>2
    <3>. QED  BY <3>5, <3>6
  <2>. QED  BY <2>1 DEF SignInCovers
<1>6. SettledIsActive'
  <2>1. ASSUME NEW b \in AccountIds, settled'[b] # 0
        PROVE  \E n \in DOMAIN connections' :
                    /\ ActiveOf(b)' = {n}
                    /\ connections'[n].grant = settled'[b]
                    /\ connections'[n].home = "personal"
    <3>1. b # a /\ settled'[b] = settled[b]
        BY <1>3, <2>1
    <3>2. PICK n \in DOMAIN connections :
                    /\ ActiveOf(b) = {n}
                    /\ connections[n].grant = settled[b]
                    /\ connections[n].home = "personal"
        BY <2>1, <3>1 DEF GrantsInv, SettledIsActive
    <3>3. connections'[n] = connections[n] /\ n \in DOMAIN connections'
      <4>1. connections[n].account = b
          BY <3>2 DEF ActiveOf
      <4>. QED  BY <1>2, <3>1, <4>1
    <3>. QED  BY <1>4, <3>1, <3>2, <3>3
  <2>2. ASSUME NEW b \in AccountIds, settled'[b] # 0
        PROVE  \A c \in AccountCalls :
                 accountCall'[c].pc = "refresh" /\ accountCall'[c].account = b
                   => accountCall'[c].grant = settled'[b]
    <3>1. settled'[b] = settled[b] /\ settled[b] # 0
        BY <1>3, <2>2
    <3>. QED  BY <1>1, <3>1, RefreshKept
  <2>. QED  BY <2>1, <2>2 DEF SettledIsActive
<1>. QED  BY <1>5, <1>6 DEF GrantsInv

\* The sign-in's connection: alone and undisturbed, it is the only active one.
LEMMA AddKeepsGrants ==
    ASSUME TypesInv, GrantsInv, NEW c \in AccountCalls, AddConnection(c)
    PROVE  GrantsInv'
<1>1. PICK a \in AccountIds : a = accountCall[c].account
    BY AddedConnection
<1>2. PICK W : W = Writing(a)
    OBVIOUS
<1>3. /\ W \in SUBSET AccountCalls /\ {c} \in SUBSET AccountCalls
      /\ accountCall' = [d \in AccountCalls |-> IF d \in {c} THEN NoAccountCall ELSE Disturbing(W)[d]]
  <2>1. EndWrite(c)
      BY DEF AddConnection
  <2>. QED  BY <1>1, <1>2, <2>1, WriteEnds DEF Writing
<1>4. GrantCallsKept /\ accountCall'[c].pc = "idle"
  <2>1. NoAccountCall.pc = "idle"
      BY DEF NoAccountCall
  <2>. QED  BY <1>3, <2>1, DisturbedKept
<1>5. PICK new : new = Len(connections) + 1
    OBVIOUS
<1>6. /\ DOMAIN connections' = DOMAIN connections \cup {new} /\ new \notin DOMAIN connections
      /\ connections'[new] = Connection(a, "personal", accountCall[c].grant)
  <2>1. /\ Len(connections) \in Nat /\ DOMAIN connections = 1..Len(connections)
        /\ DOMAIN connections' = 1..(Len(connections) + 1)
        /\ connections'[new] = Connection(a, "personal", accountCall[c].grant)
      BY <1>1, <1>5, AddedConnection
  <2>2. new \notin 1..Len(connections)
        /\ 1..(Len(connections) + 1) = (1..Len(connections)) \cup {new}
      BY ONLY <1>5, <2>1
  <2>. QED  BY <2>1, <2>2
<1>7. /\ connections'[new].account = a /\ connections'[new].active
      /\ connections'[new].home = "personal" /\ connections'[new].grant = accountCall[c].grant
  <2>1. PICK g \in 0..MaxGrants : g = accountCall[c].grant
      BY CallFields
  <2>. QED  BY <1>6, <2>1, ConnectionTypes
<1>8. \A n \in DOMAIN connections :
        /\ connections'[n].account = connections[n].account
        /\ connections'[n].grant = connections[n].grant
        /\ connections'[n].home = connections[n].home
        /\ connections'[n].active = (connections[n].active /\ n \notin accountCall[c].ids)
    BY AddedConnection
<1>9. /\ ~accountCall[c].disturbed => ActiveOf(a) \subseteq accountCall[c].ids
      /\ \A n \in accountCall[c].ids : n \in DOMAIN connections /\ connections[n].account \in {a, 0}
  <2>1. accountCall[c].pc = "google insert"
      BY DEF AddConnection, AccountCallAt
  <2>. QED  BY <1>1, <2>1 DEF GrantsInv, SignInCovers
<1>10. \A b : b # a => ActiveOf(b)' \subseteq ActiveOf(b)
    BY <1>6, <1>7, <1>8 DEF ActiveOf
<1>11. ASSUME NEW b \in AccountIds, b # a PROVE ActiveOf(b)' = ActiveOf(b)
  <2>1. b # 0
      BY Bounds DEF AccountIds
  <2>2. ASSUME NEW n \in ActiveOf(b) PROVE n \in ActiveOf(b)'
    <3>1. n \in DOMAIN connections /\ connections[n].account = b /\ connections[n].active
        BY DEF ActiveOf
    <3>2. n \notin accountCall[c].ids
        BY <1>9, <1>11, <2>1, <3>1
    <3>3. connections'[n].account = b /\ connections'[n].active
        BY <1>8, <3>1, <3>2
    <3>. QED  BY <1>6, <3>1, <3>3 DEF ActiveOf
  <2>. QED  BY <1>10, <1>11, <2>2
<1>12. PICK alone \in BOOLEAN :
         /\ alone = (Writing(a) = {c} /\ ~accountCall[c].disturbed /\ Live(a))
         /\ settled' = [settled EXCEPT ![a] = IF alone THEN accountCall[c].grant ELSE 0]
    BY <1>1 DEF AddConnection, Settle
<1>13. settled \in [AccountIds -> 0..grants]
    BY DEF TypesInv, AccountTypes
<1>14. SignInCovers'
  <2>1. ASSUME NEW d \in AccountCalls, accountCall'[d].pc = "google insert"
        PROVE  /\ ~accountCall'[d].disturbed
                    => ActiveOf(accountCall[d].account)' \subseteq accountCall'[d].ids
               /\ \A n \in accountCall'[d].ids :
                    /\ n \in DOMAIN connections'
                    /\ connections'[n].account \in {accountCall'[d].account, 0}
    <3>1. /\ accountCall[d].pc = "google insert" /\ d # c
          /\ accountCall'[d].account = accountCall[d].account
          /\ accountCall'[d].ids = accountCall[d].ids
          /\ accountCall[d].disturbed => accountCall'[d].disturbed
        BY <1>4, <2>1 DEF GrantCallsKept
    <3>2. /\ ~accountCall[d].disturbed
                => ActiveOf(accountCall[d].account) \subseteq accountCall[d].ids
          /\ \A n \in accountCall[d].ids :
                /\ n \in DOMAIN connections
                /\ connections[n].account \in {accountCall[d].account, 0}
        BY <3>1 DEF GrantsInv, SignInCovers
    <3>3. \A n \in accountCall'[d].ids :
             n \in DOMAIN connections' /\ connections'[n].account \in {accountCall'[d].account, 0}
        BY <1>6, <1>8, <3>1, <3>2
    <3>4. CASE accountCall[d].account = a
      <4>1. d \in W
          BY <1>2, <3>1, <3>4 DEF Writing, GoogleSteps
      <4>2. accountCall'[d] = Disturbing(W)[d]
          BY <1>3, <3>1
      <4>3. accountCall'[d].disturbed
          BY <1>3, <4>1, <4>2, DisturbedCalls
      <4>. QED  BY <3>3, <4>3
    <3>5. CASE accountCall[d].account # a
      <4>1. PICK b : b = accountCall[d].account
          OBVIOUS
      <4>2. ActiveOf(accountCall[d].account)' = ActiveOf(b)'
          BY <3>1, <4>1 DEF ActiveOf
      <4>3. ActiveOf(b)' \subseteq ActiveOf(b)
          BY <1>10, <3>5, <4>1
      <4>. QED  BY <3>1, <3>2, <3>3, <4>1, <4>2, <4>3
    <3>. QED  BY <3>4, <3>5
  <2>. QED  BY <2>1 DEF SignInCovers
<1>15. SettledIsActive'
  <2>1. ASSUME NEW b \in AccountIds, settled'[b] # 0, b # a
        PROVE  /\ \E n \in DOMAIN connections' :
                    /\ ActiveOf(b)' = {n}
                    /\ connections'[n].grant = settled'[b]
                    /\ connections'[n].home = "personal"
               /\ \A d \in AccountCalls :
                    accountCall'[d].pc = "refresh" /\ accountCall'[d].account = b
                      => accountCall'[d].grant = settled'[b]
    <3>1. settled'[b] = settled[b] /\ settled[b] # 0
        BY <1>12, <1>13, <2>1
    <3>2. PICK n \in DOMAIN connections :
                    /\ ActiveOf(b) = {n}
                    /\ connections[n].grant = settled[b]
                    /\ connections[n].home = "personal"
        BY <3>1 DEF GrantsInv, SettledIsActive
    <3>3. connections'[n].grant = settled[b] /\ connections'[n].home = "personal"
        BY <1>8, <3>2
    <3>4. ActiveOf(b)' = {n} /\ n \in DOMAIN connections'
        BY <1>6, <1>11, <2>1, <3>2
    <3>5. \A d \in AccountCalls :
             accountCall'[d].pc = "refresh" /\ accountCall'[d].account = b
               => accountCall'[d].grant = settled[b]
        BY <1>4, <3>1, RefreshKept
    <3>. QED  BY <3>1, <3>3, <3>4, <3>5
  <2>2. ASSUME settled'[a] # 0
        PROVE  /\ \E n \in DOMAIN connections' :
                    /\ ActiveOf(a)' = {n}
                    /\ connections'[n].grant = settled'[a]
                    /\ connections'[n].home = "personal"
               /\ \A d \in AccountCalls :
                    accountCall'[d].pc = "refresh" /\ accountCall'[d].account = a
                      => accountCall'[d].grant = settled'[a]
    <3>1. alone /\ settled'[a] = accountCall[c].grant
        BY <1>12, <1>13, <2>2
    <3>2. Writing(a) = {c} /\ ~accountCall[c].disturbed
        BY <1>12, <3>1
    <3>3. ActiveOf(a)' = {new}
      <4>1. ASSUME NEW n \in ActiveOf(a)', n # new PROVE FALSE
        <5>1. n \in DOMAIN connections /\ n \notin accountCall[c].ids /\ n \in ActiveOf(a)
            BY <1>6, <1>8, <4>1 DEF ActiveOf
        <5>. QED  BY <1>9, <3>2, <5>1
      <4>2. new \in ActiveOf(a)'
          BY <1>6, <1>7 DEF ActiveOf
      <4>. QED  BY <4>1, <4>2
    <3>4. \A d \in AccountCalls :
             ~(accountCall'[d].pc = "refresh" /\ accountCall'[d].account = a)
      <4>1. ASSUME NEW d \in AccountCalls,
                   accountCall'[d].pc = "refresh", accountCall'[d].account = a
            PROVE  FALSE
        <5>1. accountCall[d].pc = "refresh" /\ accountCall[d].account = a /\ d # c
            BY <1>4, <4>1 DEF GrantCallsKept
        <5>2. d \in Writing(a)
            BY <5>1 DEF Writing
        <5>. QED  BY <3>2, <5>1, <5>2
      <4>. QED  BY <4>1
    <3>. QED  BY <1>6, <1>7, <3>1, <3>3, <3>4
  <2>. QED  BY <2>1, <2>2 DEF SettledIsActive
<1>. QED  BY <1>14, <1>15 DEF GrantsInv

\* Every step keeps the tokens in order.
LEMMA NextGrants == ASSUME TypesInv, GrantsInv, AccountsNext PROVE GrantsInv'
BY OthersKeepGrants, DeactivateKeepsGrants, RefreshKeepsGrants, SaveKeepsGrants,
   RowsGoKeepGrants, ConnectKeepsGrants, AddKeepsGrants DEF AccountsNext

----------------------------------------------------------------------------
(* Theorems *)

\* The invariant holds of every behaviour, for any addresses and any number of
\* requests, accounts, links and consent screens.
THEOREM AccountsInvAlways == AccountsSpec => []AccountsInv
<1>1. AccountsInit => AccountsInv
    BY InitTypes, InitLinks, InitGrants DEF AccountsInv
<1>2. AccountsInv /\ [AccountsNext]_accountVars => AccountsInv'
  <2>1. CASE AccountsNext
      BY <2>1, NextTypes, NextLinks, NextGrants DEF AccountsInv
  <2>2. CASE UNCHANGED accountVars
    <3>1. /\ accounts' = accounts /\ resets' = resets /\ connections' = connections
          /\ grants' = grants /\ accountCall' = accountCall
          /\ crossed' = crossed /\ settled' = settled
        BY <2>2 DEF accountVars
    <3>2. LinkCallsKept /\ GrantCallsKept
        BY <3>1 DEF LinkCallsKept, GrantCallsKept
    <3>. SUFFICES ASSUME AccountsInv PROVE AccountsInv'
        OBVIOUS
    <3>3. TypesInv'
        BY <3>1 DEF AccountsInv, TypesInv, AccountTypes, GrantsGiven, CallsMakeSense
    <3>4. LinksInv'
        BY <3>1, <3>2, LinksFrame DEF AccountsInv
    <3>5. GrantsInv'
        BY <3>1, <3>2, GrantsFrame DEF AccountsInv
    <3>. QED  BY <3>3, <3>4, <3>5 DEF AccountsInv
  <2>. QED  BY <2>1, <2>2
<1>. QED  BY <1>1, <1>2, PTL DEF AccountsSpec

\* users, password_reset_tokens and provider_connections hold rows of their types.
THEOREM TypesHold == AccountsSpec => []AccountsTypeOK
<1>1. AccountsInv => AccountsTypeOK
  <2>. SUFFICES ASSUME AccountsInv PROVE AccountsTypeOK
      OBVIOUS
  <2>1. TypesInv
      BY DEF AccountsInv
  <2>2. \A c \in AccountCalls : accountCall[c].pc \in AccountSteps
      BY <2>1, CallFields
  <2>. QED
      BY <2>1, <2>2, RowTypes
      DEF AccountsTypeOK, TypesInv, AccountTypes, AccountRecords, ResetRecords, ConnectionRecords
<1>. QED  BY <1>1, AccountsInvAlways, PTL

\* reset_password and forgot_password: a link sets one password and an account
\* has one good link, unless two requests overlapped.
THEOREM LinksWorkOnce == AccountsSpec => []ResetLinksWorkOnce
<1>1. AccountsInv => ResetLinksWorkOnce
  <2>. SUFFICES ASSUME AccountsInv PROVE ResetLinksWorkOnce
      OBVIOUS
  <2>1. TypesInv /\ LinksInv
      BY DEF AccountsInv
  <2>2. ASSUME NEW i \in DOMAIN resets, resets[i].sets > 1 PROVE resets[i].overlapped
    <3>1. resets[i].sets \in Nat
        BY <2>1, RowTypes DEF ResetRecords
    <3>2. ~resets[i].overlapped => resets[i].sets <= 1
        BY <2>1 DEF LinksInv, SingleUse
    <3>. QED  BY <2>2, <3>1, <3>2
  <2>3. ASSUME NEW a \in AccountIds, a \notin crossed PROVE ~(Cardinality(UnusedOf(a)) > 1)
    <3>1. \A i, j \in UnusedOf(a) : i = j
        BY <2>1, <2>3 DEF LinksInv, OneGoodLink
    <3>2. CASE UnusedOf(a) = {}
        BY <3>2, FS_EmptySet
    <3>3. CASE UnusedOf(a) # {}
      <4>1. PICK i : UnusedOf(a) = {i}
          BY <3>1, <3>3
      <4>2. Cardinality(UnusedOf(a)) = 1
          BY <4>1, FS_Singleton
      <4>. QED  BY <4>2
    <3>. QED  BY <3>2, <3>3
  <2>. QED  BY <2>2, <2>3 DEF ResetLinksWorkOnce
<1>. QED  BY <1>1, AccountsInvAlways, PTL

\* google_callback: after a sign-in that nothing overlapped the adapters pick up
\* the tokens of that sign-in.
THEOREM NewestIsUsed == AccountsSpec => []NewestGrantIsUsed
<1>1. AccountsInv => NewestGrantIsUsed
    BY SettledIsUsed DEF AccountsInv
<1>. QED  BY <1>1, AccountsInvAlways, PTL
===============================================================================
