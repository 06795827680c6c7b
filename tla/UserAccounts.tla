----------------------------- MODULE UserAccounts -----------------------------
(***************************************************************************)
(* The users table with what hangs on it: reset links (a row of            *)
(* password_reset_tokens each) and the Google tokens, which are kept in    *)
(* provider_connections and again in the row of the user.  A request reads *)
(* in one statement and commits in a later one; each commit is a step.     *)
(* Google's answers are numbered: the tokens of one consent screen, and    *)
(* everything refreshed from them, are one grant.                          *)
(***************************************************************************)
EXTENDS Naturals, Sequences, FiniteSets

CONSTANTS
    Emails,           \* addresses as people and Google spell them
    Lower,            \* the lower-case spelling of each
    AccountCalls,     \* slots for requests
    MaxAccounts,      \* bound: accounts
    MaxResets,        \* bound: reset links
    MaxGrants,        \* bound: consent screens completed
    MaxAccountCalls   \* bound: requests in all

ASSUME AccountBounds ==
    /\ {MaxAccounts, MaxResets, MaxGrants, MaxAccountCalls} \subseteq Nat
    /\ Lower \in [Emails -> Emails]

VARIABLES
    accounts,      \* users, in the order in which they were inserted
    resets,        \* password_reset_tokens, with the passwords each has set
    connections,   \* provider_connections with provider "google"
    grants,        \* how many consent screens have been completed
    accountCall,   \* the requests in hand
    begun,         \* how many requests have begun
    crossed,       \* history: accounts whose forgot-password requests overlapped
    settled        \* history: the grant of the last sign-in with Google, for the
                   \* accounts where nothing has come between since

accountVars ==
    <<accounts, resets, connections, grants, accountCall, begun, crossed, settled>>

----------------------------------------------------------------------------
(* Data *)

AccountIds == 1..MaxAccounts
ResetIds == 1..MaxResets
ConnectionIds == 1..(2 * MaxGrants)

Live(a) == a \in DOMAIN accounts /\ accounts[a].live
With(email) == {a \in AccountIds : Live(a) /\ accounts[a].email = email}
Found(email) == IF With(email) = {} THEN 0 ELSE CHOOSE a \in With(email) : TRUE

ActiveOf(a) ==
    {n \in DOMAIN connections : connections[n].account = a /\ connections[n].active}
UnusedOf(a) == {i \in DOMAIN resets : resets[i].account = a /\ ~resets[i].used}

NoAccountCall == [pc |-> "idle", account |-> 0, email |-> "", grant |-> 0, ids |-> {},
                  disturbed |-> FALSE]
GoogleSteps == {"google user", "google update", "google insert"}
AccountSteps == {"idle", "register", "refresh", "forgot", "reset"} \cup GoogleSteps

AccountsInit ==
    /\ accounts = << >>
    /\ resets = << >>
    /\ connections = << >>
    /\ grants = 0
    /\ accountCall = [c \in AccountCalls |-> NoAccountCall]
    /\ begun = 0
    /\ crossed = {}
    /\ settled = [a \in AccountIds |-> 0]

BeginAccountCall(c, record) ==
    /\ accountCall[c].pc = "idle"
    /\ begun < MaxAccountCalls
    /\ begun' = begun + 1
    /\ accountCall' = [accountCall EXCEPT ![c] = record]
AccountCallAt(c, pc) == accountCall[c].pc = pc
EndAccountCall(c) == accountCall' = [accountCall EXCEPT ![c] = NoAccountCall]

\* An error or a crash: what is committed stays, the rest is rolled back.
FailAccountCall(c) ==
    /\ ~AccountCallAt(c, "idle")
    /\ EndAccountCall(c)
    /\ UNCHANGED <<accounts, resets, connections, grants, begun, crossed, settled>>

----------------------------------------------------------------------------
(* register, and login that finds the row *)

Register(c, e) ==
    /\ Found(Lower[e]) = 0
    /\ BeginAccountCall(c, [NoAccountCall EXCEPT !.pc = "register", !.email = Lower[e]])
    /\ UNCHANGED <<accounts, resets, connections, grants, crossed, settled>>

AddAccount(e, hasPassword, grant) ==
    /\ Len(accounts) < MaxAccounts
    /\ accounts' = Append(accounts,
         [email |-> e, password |-> hasPassword, live |-> TRUE, grant |-> grant])

\* The unique index on users.email refuses the second of two.
CommitRegister(c) ==
    /\ AccountCallAt(c, "register")
    /\ IF Found(accountCall[c].email) # 0
         THEN UNCHANGED accounts
         ELSE AddAccount(accountCall[c].email, TRUE, 0)
    /\ EndAccountCall(c)
    /\ UNCHANGED <<resets, connections, grants, begun, crossed, settled>>

----------------------------------------------------------------------------
(* google_callback: get or create the user, then a connection *)

\* get_by_email takes the address as Google spells it.
SignInWithGoogle(c, e) ==
    /\ grants < MaxGrants
    /\ grants' = grants + 1
    /\ BeginAccountCall(c, [NoAccountCall EXCEPT !.pc = "google user", !.email = e,
                              !.account = Found(e), !.grant = grants + 1])
    /\ UNCHANGED <<accounts, resets, connections, crossed, settled>>

\* authenticate_google_oauth commits the user on its own.  An account that was
\* deleted meanwhile is not written, and the callback goes on.
SaveGoogleUser(c) ==
    LET a == accountCall[c].account  e == accountCall[c].email  g == accountCall[c].grant
    IN /\ AccountCallAt(c, "google user")
       /\ CASE a # 0 ->
                 /\ accounts' = [accounts EXCEPT ![a].grant = IF Live(a) THEN g ELSE @]
                 /\ accountCall' = [accountCall EXCEPT ![c].pc = "google update"]
            [] a = 0 /\ Found(e) # 0 ->
                 UNCHANGED accounts /\ EndAccountCall(c)
            [] OTHER ->
                 /\ AddAccount(e, FALSE, g)
                 /\ accountCall' = [accountCall EXCEPT ![c].pc = "google update",
                                                       ![c].account = Len(accounts) + 1]
       /\ UNCHANGED <<resets, connections, grants, begun, crossed, settled>>

\* UPDATE ... SET status = 'inactive': it reaches the rows that are there now.
DeactivateConnections(c) ==
    /\ AccountCallAt(c, "google update")
    /\ accountCall' = [accountCall EXCEPT ![c].pc = "google insert",
         ![c].ids = {n \in DOMAIN connections : connections[n].account = accountCall[c].account}]
    /\ UNCHANGED <<accounts, resets, connections, grants, begun, crossed, settled>>

Connection(a, home, grant) ==
    [account |-> a, home |-> home, active |-> TRUE, grant |-> grant]

\* History: whoever writes Google tokens of a disturbs the calls in hand that
\* will; a sign-in settles the account if nothing disturbed it and none is left.
Writing(a) ==
    {d \in AccountCalls : accountCall[d].account = a
                          /\ accountCall[d].pc \in GoogleSteps \cup {"refresh"}}
Disturbing(calls) ==
    [d \in AccountCalls |->
       IF d \in calls THEN [accountCall[d] EXCEPT !.disturbed = TRUE] ELSE accountCall[d]]
EndWrite(c) ==
    accountCall' =
      [Disturbing(Writing(accountCall[c].account)) EXCEPT ![c] = NoAccountCall]
Settle(c) ==
    LET a == accountCall[c].account
        alone == Writing(a) = {c} /\ ~accountCall[c].disturbed /\ Live(a)
    IN settled' = [settled EXCEPT ![a] = IF alone THEN accountCall[c].grant ELSE 0]

\* Faulty variant: the new connection is added and the old ones stay active.
KeepOldConnections(c) ==
    LET a == accountCall[c].account  g == accountCall[c].grant
    IN /\ AccountCallAt(c, "google insert")
       /\ connections' = Append(connections, Connection(a, "personal", g))
       /\ Settle(c)
       /\ EndWrite(c)
       /\ UNCHANGED <<accounts, resets, grants, begun, crossed>>

AddConnection(c) ==
    LET a == accountCall[c].account  g == accountCall[c].grant
    IN /\ AccountCallAt(c, "google insert")
       /\ connections' = Append(
            [n \in DOMAIN connections |->
               IF n \in accountCall[c].ids
                 THEN [connections[n] EXCEPT !.active = FALSE] ELSE connections[n]],
            Connection(a, "personal", g))
       /\ Settle(c)
       /\ EndWrite(c)
       /\ UNCHANGED <<accounts, resets, grants, begun, crossed>>

----------------------------------------------------------------------------
(* The same tokens elsewhere: an organization's connection, and refreshing *)

\* orgs/google-callback, of the one organization: the row is reused, whatever
\* its status; the connection of the sign-in stays active beside it.
ConnectInOrganization(a) ==
    LET old == {n \in DOMAIN connections :
                  connections[n].account = a /\ connections[n].home = "org"}
        new == Connection(a, "org", grants + 1)
    IN /\ Live(a)
       /\ grants < MaxGrants
       /\ grants' = grants + 1
       /\ connections' =
            IF old = {} THEN Append(connections, new)
            ELSE [n \in DOMAIN connections |-> IF n \in old THEN new ELSE connections[n]]
       /\ settled' = [settled EXCEPT ![a] = 0]
       /\ accountCall' = Disturbing(Writing(a))
       /\ UNCHANGED <<accounts, resets, begun, crossed>>

\* Disconnecting deletes the row.
Gone == [account |-> 0, home |-> "none", active |-> FALSE, grant |-> 0]
DisconnectInOrganization(n) ==
    /\ n \in DOMAIN connections /\ connections[n].home = "org"
    /\ connections' = [connections EXCEPT ![n] = Gone]
    /\ UNCHANGED <<accounts, resets, grants, accountCall, begun, crossed, settled>>

\* What the mail and calendar adapters can find: an active connection, whichever
\* comes first, or else the tokens in the row of the user.
Usable(a) ==
    IF ActiveOf(a) # {} THEN {connections[n].grant : n \in ActiveOf(a)}
    ELSE {accounts[a].grant} \ {0}

BeginRefresh(c, a) ==
    /\ Live(a)
    /\ \E g \in Usable(a) :
         BeginAccountCall(c, [NoAccountCall EXCEPT !.pc = "refresh", !.account = a, !.grant = g])
    /\ UNCHANGED <<accounts, resets, connections, grants, crossed, settled>>

\* _save_refreshed_tokens looks for an active connection again and writes what
\* Google returned for the one it read before, there and to the user.
SaveRefreshed(c) ==
    LET a == accountCall[c].account  g == accountCall[c].grant
    IN /\ AccountCallAt(c, "refresh")
       /\ IF ActiveOf(a) = {} THEN UNCHANGED connections
          ELSE \E n \in ActiveOf(a) : connections' = [connections EXCEPT ![n].grant = g]
       /\ accounts' = [accounts EXCEPT ![a].grant = IF Live(a) THEN g ELSE @]
       /\ EndWrite(c)
       /\ UNCHANGED <<resets, grants, begun, crossed, settled>>

----------------------------------------------------------------------------
(* forgot-password and reset-password *)

\* Only an account with a password has a link sent.  The UPDATE that uses up
\* the unused links reaches those that are there now.
ForgotPassword(c, e) ==
    LET a == Found(Lower[e])
    IN /\ a # 0 /\ accounts[a].password
       /\ BeginAccountCall(c, [NoAccountCall EXCEPT !.pc = "forgot", !.account = a,
                                                    !.ids = UnusedOf(a)])
       /\ crossed' = IF \E d \in AccountCalls : AccountCallAt(d, "forgot")
                                               /\ accountCall[d].account = a
                       THEN crossed \cup {a} ELSE crossed
       /\ UNCHANGED <<accounts, resets, connections, grants, settled>>

\* Faulty variant: older links stay good.
SendLinkKeepOld(c) ==
    /\ AccountCallAt(c, "forgot")
    /\ Len(resets) < MaxResets
    /\ resets' = Append(resets, [account |-> accountCall[c].account, used |-> FALSE,
                                 expired |-> FALSE, sets |-> 0, overlapped |-> FALSE])
    /\ EndAccountCall(c)
    /\ UNCHANGED <<accounts, connections, grants, begun, crossed, settled>>

SendLink(c) ==
    /\ AccountCallAt(c, "forgot")
    /\ Len(resets) < MaxResets
    /\ resets' = Append(
         [i \in DOMAIN resets |->
            [resets[i] EXCEPT !.used = @ \/ i \in accountCall[c].ids]],
         [account |-> accountCall[c].account, used |-> FALSE, expired |-> FALSE,
          sets |-> 0, overlapped |-> FALSE])
    /\ EndAccountCall(c)
    /\ UNCHANGED <<accounts, connections, grants, begun, crossed, settled>>

LinkExpires(i) ==
    /\ i \in DOMAIN resets /\ ~resets[i].expired
    /\ resets' = [resets EXCEPT ![i].expired = TRUE]
    /\ UNCHANGED <<accounts, connections, grants, accountCall, begun, crossed, settled>>

\* 410 for a used or expired link, 404 when the user is gone.
FollowLink(c, i) ==
    /\ i \in DOMAIN resets
    /\ ~resets[i].used /\ ~resets[i].expired /\ Live(resets[i].account)
    /\ BeginAccountCall(c, [NoAccountCall EXCEPT !.pc = "reset", !.ids = {i},
                                                 !.account = resets[i].account])
    /\ resets' = [resets EXCEPT ![i].overlapped =
         @ \/ \E d \in AccountCalls : AccountCallAt(d, "reset") /\ i \in accountCall[d].ids]
    /\ UNCHANGED <<accounts, connections, grants, crossed, settled>>

\* Both rows were loaded before; if the user is deleted by now its UPDATE finds
\* no row and the transaction fails.
SetPassword(c) ==
    /\ AccountCallAt(c, "reset")
    /\ IF Live(accountCall[c].account)
         THEN resets' = [i \in DOMAIN resets |->
                IF i \in accountCall[c].ids
                  THEN [resets[i] EXCEPT !.used = TRUE, !.sets = @ + 1] ELSE resets[i]]
         ELSE UNCHANGED resets
    /\ EndAccountCall(c)
    /\ UNCHANGED <<accounts, connections, grants, begun, crossed, settled>>

----------------------------------------------------------------------------
\* delete_account: conversations, usage and connections go with the row; reset
\* links, suggestions, events and memberships stay.
DeleteAccount(a) ==
    /\ Live(a)
    /\ accounts' = [accounts EXCEPT ![a].live = FALSE]
    /\ connections' = [n \in DOMAIN connections |->
         IF connections[n].account = a THEN Gone ELSE connections[n]]
    /\ settled' = [settled EXCEPT ![a] = 0]
    /\ UNCHANGED <<resets, grants, accountCall, begun, crossed>>

AccountsNext ==
    \/ \E c \in AccountCalls :
         \/ \E e \in Emails : Register(c, e) \/ SignInWithGoogle(c, e) \/ ForgotPassword(c, e)
         \/ CommitRegister(c) \/ SaveGoogleUser(c)
         \/ DeactivateConnections(c) \/ AddConnection(c)
         \/ \E a \in AccountIds : BeginRefresh(c, a)
         \/ SaveRefreshed(c)
         \/ \E i \in ResetIds : FollowLink(c, i)
         \/ SendLink(c) \/ SetPassword(c)
         \/ FailAccountCall(c)
    \/ \E i \in ResetIds : LinkExpires(i)
    \/ \E a \in AccountIds : ConnectInOrganization(a) \/ DeleteAccount(a)
    \/ \E n \in ConnectionIds : DisconnectInOrganization(n)

AccountsSpec == AccountsInit /\ [][AccountsNext]_accountVars

----------------------------------------------------------------------------
(* Properties *)

AccountsTypeOK ==
    /\ \A a \in DOMAIN accounts :
         accounts[a] \in [email : Emails, password : BOOLEAN, live : BOOLEAN, grant : 0..MaxGrants]
    /\ \A i \in DOMAIN resets :
         resets[i] \in [account : AccountIds, used : BOOLEAN, expired : BOOLEAN,
                        sets : Nat, overlapped : BOOLEAN]
    /\ \A n \in DOMAIN connections :
         connections[n] \in [account : AccountIds \cup {0}, home : {"personal", "org", "none"},
                             active : BOOLEAN, grant : 0..MaxGrants]
    /\ \A c \in AccountCalls : accountCall[c].pc \in AccountSteps
    /\ crossed \subseteq AccountIds
    /\ settled \in [AccountIds -> 0..grants]

\* "The token is single-use" (routes.py reset_password): a link sets one password
\* unless two requests with it overlapped; and a newer link takes the older ones
\* back: an account has one good link at most, unless two requests for one
\* overlapped.
ResetLinksWorkOnce ==
    /\ \A i \in DOMAIN resets : resets[i].sets > 1 => resets[i].overlapped
    /\ \A a \in AccountIds : Cardinality(UnusedOf(a)) > 1 => a \in crossed

\* "On reconnect we always want exactly one active connection with the freshest
\* token" (google_callback): after a sign-in that no other sign-in or refresh of
\* the account overlapped, and until an organization's connection adds a second
\* row, whatever the adapters pick up belongs to the grant of that sign-in.
NewestGrantIsUsed ==
    \A a \in AccountIds : settled[a] # 0 => Usable(a) = {settled[a]}
===============================================================================
