# Calendar Management Agent: a TLA+ model

This directory holds the formal model of the Calendar Management Agent, the
FastAPI application under `src/src`: TLA+ modules for the parts that keep
state, TLC configurations that check them on small instances, and proofs that
TLAPS checks for every instance. `PROJECT.json` maps every definition to the
lines it models and lists the runs, their faulty variants, the findings and the
hazards.

## 1. The system

One application process per replica, any number of replicas behind nginx, one
ARQ worker, one SQL database (PostgreSQL, or SQLite in development) and Redis.
Everything runs on asyncio: a handler runs undisturbed up to its next `await`,
where any other coroutine, and at any moment any other replica, may run. Almost
every database access opens a session of its own, so *check in one session,
write in another* is the pattern all of the difficulties below come from. A
session loads a row, lets the code assign its attributes and, on commit, updates
the columns that differ from what was loaded.

| Component | State | Operations | What makes it correct |
|---|---|---|---|
| Billing (`billing_routes`, `stripe_service`, `user_repository`) | `users.plan`, `stripe_subscription_id`, `stripe_customer_id`; `stripe_processed_events` | open a checkout, receive a Stripe event | an event is applied once and not lost; the plan follows the subscription; nothing else changes the plan |
| Clean-up job (`arq_email_scanner`) | rows it deletes | nightly deletes of old events and invites | it never deletes a row that is still needed |
| Organizations (`organization_service`, `org_routes`, `org_repository`) | organization, licence, membership rows, pending invites | create, invite, accept, revoke, remove, change role, transfer, set licence, delete | one owner; one membership per user; seats not exceeded; a link logs in once; deletion leaves nothing |
| Email intelligence (`email_intelligence_service`, classifier, draft composer, Gmail and Outlook adapters) | `scanned_emails`, `schedule_suggestions`, `email_drafts`, Gmail drafts | scan (scheduled, pushed, manual), approve, reject, send or discard a draft | one suggestion per mail; a recorded mail keeps its suggestion; no new mail is forgotten |
| Scan scheduler (`arq_email_scanner`) | Redis lock, ARQ queue | enqueue and run `scan_all_users_job` | every mailbox is scanned in the end |
| Calendar (`provider_aware_calendar`, `in_memory_calendar`, Google, Microsoft) | provider's events, `calendar_events`, tokens | list, create, update, delete, free slots; refresh tokens | one event per request, also with retries and the local fallback; one creation of each time |
| Scheduling links, booking pages (`scheduling_link_service`, `booking_routes`) | `scheduling_links`, the host's calendar | create, open, book, delete a link; show and confirm on the personal page | what is offered is free of all that the calendar told |
| Accounts (`routes`, `auth_service`, Gmail adapter) | users, `password_reset_tokens`, `provider_connections` | register, sign in with Google, connect, refresh Google's tokens, forgot and reset password, delete account | a link sets one password; the newest consent is the one in use |
| Tokens (`jwt_service`, `token_blocklist`, `dependencies`) | tokens, blocklist in Redis or memory | log in, refresh, present, log out, change password | a revoked token is refused |
| Chat and quota (`chat_service`, `usage_tracker`, agent) | monthly counter, answer cache, conversations | handle a message | no more answers than the plan allows; history keeps both sides |
| Rate limiter, caches | Redis sorted sets, in-process lists, cached listings | admit or refuse a request; get, set, delete | no more than the limit in a window; a cached listing is current |
| Onboarding, user guides | status row, two texts | run in the background; edit a guide | ends in a final status |
| Chat hooks, WhatsApp (`message_hook_service`, `whatsapp_intelligence_service`) | ids of processed messages | deliver, replay, post a message; create an event | one event per message |
| Settings, administration, audit, analytics | single rows, logs | read and write | no cross-component state |
| LLM adapters, notifications, encryption, configuration, web client | none of their own | I/O | out of scope |

How they interact: Stripe calls the webhook, which writes the user row the
checkout and the chat quota read; the clean-up job prunes the webhook's and the
invites' tables; scans write the suggestions that approvals turn into calendar
events; links, hooks, invite verification and the agent all call the calendar
adapter; an accepted invite issues the tokens of the account module; the Google
tokens a sign-in stores are those the mail and calendar adapters refresh. They
share the database and Redis and nothing else; the blocklist, the rate limiter,
the cached listings and the chat meet in Redis, on disjoint keys.

What is hard about this code: deliveries that overlap, repeat or die between two
commits (billing); check-then-write across sessions (organizations, email,
links, reset tokens, quota); copies of a row written back late (checkout); jobs
of two schedulers and two replicas on one mailbox; provider calls that fail
after they took effect, and times compared without their zones (calendar); a shared Redis with a private fallback in
each process (tokens, limits, quota, listings). `PROJECT.json` lists each at its line.

## 2. The modules

| Module | Models | Extends |
|---|---|---|
| `WebhookLedger` | what the webhook promises about an event: claimed once, then applied or lost for good | |
| `StripeBilling` | checkout, webhook and clean-up of events, with Stripe as the environment | instantiates `WebhookLedger` |
| `StripeBillingProofs` | theorems about `StripeBilling` | `StripeBilling` |
| `OrgMembership` | one organization with its members, licence and invites | |
| `OrgMembershipProofs` | theorems about `OrgMembership` | `OrgMembership` |
| `EmailIntelligence` | the scans of one mailbox | |
| `EmailIntelligenceProofs` | theorems about `EmailIntelligence` | `EmailIntelligence` |
| `Database` | the database an installation runs on: SQLite or PostgreSQL | |
| `CalendarEvents` | one user's events at Google, in `calendar_events` and in the process | `Database` |
| `CalendarEventsProofs` | theorems about `CalendarEvents` | `CalendarEvents` |
| `RedisStore` | the Redis server: outages, evictions, and which store a process reaches | |
| `AccessTokens` | pairs of tokens, the calls that present them, the blocklist | `RedisStore` |
| `RateLimiter` | the middleware with its buckets in Redis and in the process | `RedisStore` |
| `ListingCache` | the cached listings of one user's events | `RedisStore` |
| `ChatAssistant` | one conversation: quota, cache, agent, rows, counter | `RedisStore` |
| `ChatAssistantProofs` | theorems about `ChatAssistant` | `ChatAssistant` |
| `UserAccounts` | users, reset links, Google connections | |
| `UserAccountsProofs` | theorems about `UserAccounts` | `UserAccounts` |
| `SchedulingLinks` | a host's calendar, links, personal page and visitors | `Database` |
| `Onboarding` | one user's status, guides and background tasks | |
| `MessageHooks` | deliveries of messages and the events they make | `Database` |
| `MCSharedRedis` | the four clients of one Redis | the four, and through them `RedisStore` |
| `SharedRedisProofs` | theorems about `AccessTokens`, `ListingCache`, `RateLimiter` and the four clients together | `MCSharedRedis`, `ChatAssistantProofs` |
| `MCServices` | the four services around a user | the four |
| `ServicesProofs` | theorems about `SchedulingLinks`, `Onboarding`, `MessageHooks` and the four services together | `MCServices`, `UserAccountsProofs` |
| `MC...` (others) | the same for TLC (symmetry sets) | the module it is named after |

A definition named "Faulty variant" or "Variant" is a plausible bug and takes no
part in the specification; substituted for the definition after it, it must
break the property `PROJECT.json` pairs it with.

### StripeBilling

`account` is the user's row, `processed` the table of event ids, `worker[w]` a
webhook request and `checkout[r]` a checkout request in hand. A webhook request
goes `received -> recorded -> loaded -> idle`: insert and commit the event's id
(`RecordEvent`; `SkipDuplicate` when it exists), load the account in another
session (`LoadAccount`), apply the handler and commit (`CommitHandler`). It may
die at any of these points (`FailDelivery`). `Merge` is the session's commit:
only columns that differ from the loaded row are written, so two handlers that
overlap can each overwrite one column of the other. A checkout loads the user,
asks Stripe for a customer and writes the whole row back (`LoadForUpdate`,
`SaveUser`), then opens a session that Stripe may complete.

Stripe is modelled from how the code uses it: a subscription's changes emit
events; an event is delivered any number of times, in any order, until thirty
days after it was answered (`Expire`), which is when the clean-up job may prune
its row. `orderly`, chosen at the start, restricts Stripe to one delivery at a
time, in order, without failures: the case in which the account must match.

### OrgMembership

`rows` is the membership table (a removed member's row stays, inactive),
`invites` the pending invites, `request[q]` a request in hand. A request begins
with its checks (`Begin...`), and its writes are one action per commit.
`_create_pending_invite` commits before `add_member` does. Row lookups are by
`scalar_one_or_none`, which raises on two rows: hence `Cardinality(...) = 1` and
`RowsOf(...) = {r}` in the guards. Any request may fail between two commits
(`Abandon`). A deletion also deletes the organization's rows of
`provider_connections`, which are not in this module and on which no property
depends. `mode`, chosen at the start, says how requests may overlap:
`"serial"` one at a time, `"one transfer"` all but two transfers, `"free"` all.

### EmailIntelligence

One mailbox. Mails are numbered as they arrive. `scan[s]` is a scan in hand:
`BeginScan` lists the newest `max_emails` (30 for the scheduled job, 10 for a
push, up to 200 for the user; the model's `...Fetch`), less any that fall out of
the time window or fail to download; `FilterProcessed` drops those with a
`scanned_emails` row; then for each mail, newest first, `Analyze`,
`ComposeDraft` (only the user's scan), `CheckSuggestion` and `InsertSuggestion`,
`LoadScanned` and `SaveScanned`. The verdict of the LLM and the regular
expressions is a choice, and may differ from one scan to the next. `FailEmail`
is the exception that makes a scan go on with the next mail, `Die` the one, or
the crash, that ends it.

`ReplyText` is what the composer makes of the adapters' answers. Both adapters
return the provider's body, which the composer and the classifier take for
text: the classifier falls back to its heuristic (so the user's scan knows only
two verdicts, `VerdictsOf`), and the composer creates no draft. `_save_draft`
(which names columns `email_drafts` does not have) and the routes that send or
discard a draft are therefore never reached and not modelled.

### CalendarEvents

One user's calendar. An event has a number for its row's UUID, its entry in the
dictionary `_events` and its provider id: `GoogleId(n)`, or `MemId(n)` for the
"mem-..." the local adapter gives. `google`, `rows` and `memory` are the three
copies. A title with its start, as it is written, is a key. `Utc` of a key is the
same time in UTC, which is what the conflict check compares (`_utc`), and `Digits`
the key with its zone cut off (`replace(tzinfo=None)`), which is what the local
listing and the look-up for a duplicate ask for. `Kept` is what the row gives back:
the digits on SQLite, the time in UTC on PostgreSQL. Two keys of different times
never overlap. `times` is the key of each entry of the dictionary, which keeps its
zone. `RowsFound` says that the look-up finds the row of each event there is: on
SQLite it always does, on PostgreSQL unless a time was given with a zone.

`request[r]` is a request in hand. A creation goes `BeginCreate`, `ListGoogle`
and `ListLocal` (the conflict check), then the adapter's `create_event`, which
approvals (`BeginApprove`) and syncs (`BeginSync`, `SyncNext`) enter as well:
`GetTokens`, `InsertAtGoogle` with `InsertRefused`, `Refresh` and one retry, or
`InsertLost`, then the local `SearchLocal` and `Store`. `RepoCreate`,
`FinishApprove` and `Relink` end the three. `DeleteAtGoogle` and `DeleteLocal`
are a deletion. A listing that is refused, refreshed and repeated is one step
that answers or fails. Of a connection the model keeps whether it has usable
tokens; `overlapped` and `torn` record whether requests overlapped and whether a
session failed, a request died or the answer to a call that took effect was
lost. A change of an existing event (`update_event`) and the cache of listings
are the subject of `ListingCache`.

### RedisStore and its clients

`redisUp` says whether Redis answers; `RedisFails` and `RedisReturns` are an
outage, which loses no keys (append-only file), and `RedisEvicts` is a key taken
by `allkeys-lru`, which each client ties to a key of its own. `adapter` is what
`Container.cache()` has built: Redis, or in development a dictionary in each
process. Each client has its own answer to Redis being away:

- `AccessTokens`: the blocklist falls back to `localList`, one per process, and
  asks one of the two, never both. A call goes `Arrive` (decode, blocklist),
  `Admit` (the user row), and then `Logout`, `ChangePassword` with
  `RevokeAfterChange`, `RemoveAccount`, or `Leave`; a message over the WebSocket
  (`ChatByWebSocket`) passes the decoding and the user row only. `GrowOlder` is time: a pair
  of tokens passes five ages, two of which are the last seconds in which a token
  is accepted and yet not put on the blocklist any more.
- `RateLimiter`: a request takes its timestamp on entering (`EnterLimiter`),
  is counted in Redis (`CheckRedis`, which counts refused requests too) or in
  the process (`CheckLocal`, which does not), and passes two buckets if it is an
  invite link. `passed` records what each place has let through, `unsure` the
  places that lost a bucket or were asked late.
- `ListingCache`: a listing is `ListMiss`, `ReadCalendar`, `StoreListing`, or
  `ListHit`; a change is `Change` and then `Invalidate`. `ChangeElsewhere` stands
  for every writer that never empties the cache.
- `ChatAssistant`: a message is `CheckQuota`, `LoadConversation`,
  `AnswerFromCache` or `MissCache`, `Reason` and `RunTools` in turns,
  `UpdateConversation`, `RecordRequest`, `CacheAnswer`, `CommitChat`.
  `UpdateConversation` adds what is past the number of rows there are now
  (`RowsToAdd`), which is not always what is new.

### UserAccounts

A request reads in one statement and commits in a later one; both are actions.
`Register` and `CommitRegister` meet the unique index on the address, which
Google sign-in (`SignInWithGoogle`, `SaveGoogleUser`, `DeactivateConnections`,
`AddConnection`) asks for as Google spells it and the others in lower case.
Google's answers are numbered: a `grant` is one consent and everything refreshed
from it. `Usable` is what an adapter may pick up: any active connection, or else
the user row. `BeginRefresh` and `SaveRefreshed` are a refresh, which looks the
connection up again before it writes. `ForgotPassword` and `SendLink`,
`FollowLink` and `SetPassword` are the two ends of a reset link.

### SchedulingLinks

Time stands still at `Now` and is counted in quarters of an hour, in UTC. The
host's `agenda` holds meetings that are at Google, in a row or both, soon or years
ahead. `Within` is the reach of a listing, from now for the days that are shown;
`Listed` is what `list_events` of the adapter returns of it, a page of each;
`Comparable` says whether
its times compare with `now` (an all-day event of Google and the rows of SQLite
have no zone, and the `TypeError` leaves the page empty). `FreeSlots` is
`_compute_free_slots`, its loop a recursive function of the time it has come to
and the slots it may still add; `Gaps` is the adapter's `find_free_slots` without
its loop: the cursor before an event stands at the latest end of the events
`Earlier` than it, by start and, where two start together, in the order in which
they were made (the code takes them as the listings happen to give them). A visitor
opens a
link or the page, and books later: `BookByLink` is refused every time. `Confirm`
makes an event of any start and any duration, backward ones too, whoever has or has
not opened the page, and without a look at the calendar: the server takes whatever
time it is sent, and only the web page keeps to the windows it shows. What is booked
therefore has no property, and what is offered must bear with it.

### Onboarding and MessageHooks

`task[r]` is an onboarding under way (`LoadStatus` and `SaveStatus` of
"in_progress", `Gather`, `Generate` or `BreakOff`, `LoadGuides` and
`SaveGuides`, and the final status) or an edit of a guide, which is the middle
part alone. `delivery[d]` is a request with the messages still to do; each goes
`CheckDuplicate`, `ResolveOwner`, `ReadMessage`, `CreateFromMessage`,
`MarkProcessed`, and one posted to the hook only the third and fourth.
`Readings` are what the model makes of a message: certain enough to create, not so,
or an answer that raises (its JSON is no object, or its confidence no number), upon
which the message is given up and not marked. On PostgreSQL `MarkProcessed` never
commits: the INSERT puts numbers into Boolean columns, each time. `excused` records
the messages whose check or mark failed on SQLite, or which overlapped.

## 3. What the runs show

| Run | Bounds | States | Shows |
|---|---|---|---|
| `billing` | 2 subscriptions, 2 webhook workers, 1 checkout, 5 events (3 when deliveries overlap), 1 failure | 1.8M | no event is applied twice; none is answered and lost unless a delivery died; the plan matches Stripe after orderly deliveries; only events change the plan; the endpoint implements `WebhookLedger` |
| `billing_live` | 1 subscription, 3 events | 160k | every event is applied in the end if no delivery dies |
| `billing_exactly_once` | 1 subscription, 1 failure | | *violated*: a delivery that dies after its first commit loses the event |
| `org` | 2 users, 2 requests, 3 rows, 2 invites | 1.2M | one owner unless transfers overlap; one login per link; and, for requests that do not overlap, one active row per user, seats kept, nothing left of a deleted organization |
| `org_two_owners` | 3 users, 2 requests | | *violated*: two overlapping transfers leave two owners |
| `email` | 2 mails, a scheduled scan (limit 1) and another (limit 2 or 1), 1 failure | 0.5M | recorded mails keep their suggestion; no duplicates and no dead links from scans that do not overlap; new mail is recorded in the end |
| `email_drafts` | as `email` | | *violated*: no reply the LLM writes becomes a draft |
| `calendar` | 1 suggestion, 3 keys (two names of one time, and the digits they share with another), 2 requests, 3 events (2 once requests overlap or a session fails, or times differ), 1 deletion, 1 failure, SQLite and PostgreSQL | 2.6M | an approved suggestion names an event that exists, whatever overlaps; and, for requests that do not overlap and sessions that do not fail, one event per suggestion at Google and one locally, one created row per time among those given in UTC, one copy per sync, one row per event |
| `calendar_deleted` | 2 events, 1 request | | *violated*: a deleted event is listed again |
| `calendar_zones` | 3 keys, 2 events, 1 request, no failure | | *violated*: a time with a zone is created a second time |
| `shared_redis` | 2 processes, 1 outage, 1 eviction; 1 account, 2 pairs of tokens, 2 calls; limits 1 and 2 in a window of 2, clock to 3, 3 requests; 3 changes, 2 listings; plan of 1, 3 messages, 2 agent turns | 0.9M | a revoked token is refused by every process that can know; no window holds more than the limit for a place that counted it all; a cached listing knows every change that emptied the cache; the quota is exceeded by what is under way at once and no more; a message answered alone is stored once |
| `services` | 2 spellings, 2 accounts, 2 reset links, 2 consents, 4 requests; Friday 16:15 over a weekend, 4 meetings (one all day, one past the last moment listed) of which 2 are made, 1 link, 2 visitors, 2 bookings of 3 times (one in a window, one over a meeting, one backward); 3 tasks and edits; 2 messages, 3 deliveries; SQLite and PostgreSQL | 0.5M | a reset link sets one password and a newer one takes it back; the newest consent is in use; offered slots are apart and free of what the listing told; an onboarding ends; on SQLite a message makes one event |

Why these bounds are enough for the cases that matter. Two workers are needed
for a race and no action involves three requests. Five orderly events contain a
subscription's creation (two events), a change, a failed payment and a
cancellation, or the end of one subscription and the start of the next. Two rows
of one user arise from one removal and one more invitation, with the owner that
makes three. With three events a row can be stored, synced under a second
number and approved again under a third. The three keys are 04:30 and 10:00 in UTC
and 10:00+05:30, the first and the last of which are one time and the last two one
row of digits: the fewest with which a look-up can miss what is there and meet what
is not. Requests that overlap or fail, and the third event, are explored with one of
them (`Explored`). With two mails, a scan limited to one, and one limited to two, a
mail can be pushed out of a scan's reach, and a scan has a next mail to go on
with after a failure. One failure is enough to separate any two commits, and all
counters without a bound in the code (`MaxEvents`, `MaxFailures`, `MaxRows`,
`MaxInvites`, `MaxEmails`) only stop the environment, never a handler.

`shared_redis` and `services` each compose four modules. None of the four reads
or writes what another keeps (of Redis only the server's own state is shared,
which no client changes except by the eviction of a key of its own), so the
behaviours of the composition are interleavings of behaviours of each, and a
property of one of them fails in an interleaving exactly when it fails in the
part. The runs therefore choose a `focus` and let that one run; every one gets
its turn. The tokens and the limiter do not look at `adapter`, and one value of
it is enough for them. Three constraints bound what is explored,
not what a handler may do: `TokensExplored` (with a second pair of tokens, one
call at a time), `LimiterExplored` (a behaviour ends where a place can no longer
vouch for its count, as the property then says nothing of it) and
`LinksExplored` (events, links and visitors at the screen together at most one
more than the meetings). One page of one event (50 in the code) makes a listing
that has more than a page; a link of an hour with eight slots (30) reaches the
last moment on the following Monday, and the meeting that begins after it. Two
bookings by two visitors, or two by one whose first answer was lost, are the races of
the page.

Deadlock is checked in `calendar`, `calendar_deleted` and `calendar_zones` only: in the other systems everything may be
done, with no event, request, message or mail left.

Properties whose name ends in `WhenSerial` or `WhenOrderly`, and those that name
a history variable (`crossed`, `settled`, `unsure`, `missed`, `uncounted`,
`spoiled`, `excused`), hold under that condition and fail without it. That is what the
code gives: no lock and no constraint backs its checks. A hazard that such a
condition leaves out (an overlap, a late delivery, a second rescan) has in
`PROJECT.json` no property but a note that says so. The calendar's condition is
`Orderly`, that is `Undisturbed` and `RowsFound`; `CreatedOncePerTime` is about times
given in UTC, since `calendar_zones` shows that more does not hold, and `WhatsAppOnce`
about SQLite, since on PostgreSQL no message is ever marked. The condition is a part
of the formula, and the runs also explore the behaviours outside it, for the other
properties.

## 4. Fairness

`billing_live`: weak fairness of a webhook request that is being served (the
event loop resumes it), and strong fairness of the delivery of each event that
has had no 2xx answer (Stripe retries for days; strong, because repeats of other
events may occupy the workers between two attempts). `EveryEventApplied` assumes
that no delivery dies, since a retry does not bring a lost event back.

`email`: weak fairness of the steps of a running scan, and strong fairness of a
scheduled scan that lists all the mails it asks for: cron starts the job every
fifteen minutes, whatever other scans are doing, and the provider does not fail
for ever. Without the second, runs that list only part of the inbox could occupy
the job's slot each time. `NewMailIsScanned` gives up a mail that newer mail has
pushed below the limit: such a mail is indeed never looked at.

`services`: weak fairness of the steps of an onboarding task. The event loop
runs every task that can go on (`_fire` keeps a reference, so that it is not
collected), and the calls it awaits answer, fail or time out; which of these is
not assumed, and a task may die. `OnboardingEnds` gives up a status whose task
died or whose last save failed: nothing corrects it then.

Nothing is assumed of users, Stripe's subscriptions, failures or arriving mail.

## 5. What is proved

Every theorem holds for all values of the constants that satisfy the
assumptions their modules name: bounds are natural numbers, limits and caps are
positive, tiers, prices and modes are known ones, NULL is none of the ids, no
process is called "redis" (`ReplicaNames`), and requests and chat calls are
finite in number where they are counted (`CapsAssumption`, `ChatAssumption`), a
link's meetings have a length and times are numbers (`LinkAssumption`, which says
nothing of when a meeting is or whether it ends after it begins), and a key
converted to UTC, or cut off its zone, is a key of UTC (`ZonesAssumption`).
Each module states the inductive invariant, shows that it holds at the start
and that each action keeps it, action by action, and draws the properties of
the runs from it. What an action leaves alone is dealt with once, in a frame
lemma per part of the invariant (`...Frame`, `...Same`, `...Untouched`).

### Billing: `StripeBillingProofs`

- `ClaimInvHolds`: `Spec => []ClaimInv`. `AppliedAtMostOnce` is not inductive:
  from a state in which an unapplied event has two holders, or none and no row,
  one step breaks it. `ClaimInv` adds what excludes those: a row outlives every
  delivery of its event (`ClaimCounts`), a delivery past the insert holds an
  unspent claim on a live event (`ClaimHeld`), and no two hold the same
  (`OneHolder`). The interesting steps are `RecordEvent` (the row is absent, the
  event live, so nobody has claimed it) and `CleanupStripeEvents` (only rows of
  expired events go). `TypesHold` and `AppliedOnce` follow.
- `EndpointImplementsLedger`: under `ledgerBar` every step is a step of
  `WebhookLedger` or a stutter: `RecordEvent` claims, `CommitHandler` and
  `LogPaymentFailed` apply, `FailDelivery` past the insert loses.
- `AnsweredIsApplied`: `AnswerInv` adds to `ClaimInv` that an event in the table
  or answered with a 2xx has been claimed (`AnsweredIsClaimed`), and that without
  a death nothing is lost (`NothingLost`).
- `PlanChangesByEvents`: `CheckoutInv` says that an account without a customer is
  on the free plan, that Stripe knows nobody then (`CustomerKnown`), and that a
  checkout which is saving a customer holds a copy equal to the row
  (`SavesWhatItRead`). It assumes `OneCheckout`, which is what the run has too:
  with two the property is false, which TLC shows when `Requests` in `Billing.cfg`
  has two members (see Findings).
- `AccountStaysInSync`: `OrderlyInv` ties three parties together. The last change
  among the emitted events shows the one live subscription (`StripeFollows`);
  what has been applied is what was answered, a prefix of the events, and the
  delivery in hand has read the row as it is (`OneAtATime`); the last answered
  change is what the account shows (`AccountFollows`). Assumed, as in the run:
  one checkout, and one subscription alive at a time. With two alive the one
  column of the account cannot show both.

### Organizations: `OrgMembershipProofs`

- `OrgInvAlways`: `OrgInv` holds in every mode. `ClaimedOnce`: a link is with one
  request at its login at most, has logged nobody in while it is, and is no
  longer usable once it has. `OwnerIsTransferring`: unless mode is "free", one
  transfer is in hand at most and its actor is the one owner, which the property
  alone does not say and a commit of the transfer needs. `NothingBefore` is the
  state before the organization exists. `TypesHold`, `LoginsOnce` and `OneOwner`
  follow.
- `SerialInv` says of mode "serial" what the one request in hand has read and may
  rely on (`Alone`): no active row of the invited user, a seat that is still
  free, an organization that, once deleted, nobody works on. `MemberOnce`,
  `NothingLeft` and the action property `SeatsKept` follow. Counting seats takes
  lemmas on the cardinality of a set that gains one row.

### Email intelligence: `EmailIntelligenceProofs`

- `EmailInvAlways`: `Spec => []EmailInv`. Each safety property also needs what a
  scan half way through a mail knows. `SuggestionFirst` says that a scan at the
  row of a mail worth one has its suggestion stored, which gives
  `ActionableRowsHaveSuggestion` without any assumption on overlaps.
  `OneScanWhenSerial` and `ChecksHoldWhenSerial` say that, until two scans
  overlap, what the one scan has read (no suggestion yet, a row or none) still
  holds when it inserts. `TypesHold` (with the bound on what a scan lists),
  `ActionableRowsAlwaysHaveSuggestion`, `RecordedOnceWhileSerial` and
  `OnceWhileSerial` follow.
- `OrderlyInvAlways` and `LinksResolve`: without overlaps, failures and rescans
  every row agrees with the suggestions of its mail (`RowsAgree`), a suggestion
  without a row is in the hands of the scan that made it (`PendingIsInHand`), and
  the scan's own notes agree with both (`KnowsItsMail`). The scan works on the
  newest mail left; that the set has one comes from the well-foundedness of `<`
  (`SmallestOf`, `LargestOf`).

### Calendar: `CalendarEventsProofs`

- `BaseInvAlways`: `BaseInv` says at each step of each kind of request what it
  has in hand (`ShapesInv`), which suggestion or row an event was made from
  (`EventsInv`) and which names its copies may bear (`StoresInv`): a row is named
  "mem-..." after its own event only, whereas a sync may give it another's name at
  Google. `TypesHold` follows.
- `NamesInvAlways`: whatever overlaps or fails. A name at Google, in a suggestion
  or in a request, is of an event that was inserted there and is there still
  unless somebody asked to delete it (`GoogleNamesInv`); a local name stands for
  a stored row, if no session failed and no sync has renamed a row
  (`LocalNamesInv`). `SuggestionsName` follows.
- `OrderlyInvAlways`: for requests that come one at a time and sessions that do
  not fail, with times in any zone on SQLite, and in UTC on PostgreSQL (`Orderly`).
  `RowsApart` says which rows may share a time and a name: two that are only local
  no digits, two created ones no time that was given in UTC; `Relies`
  what the one request has found and still counts on (that no row of the time is
  there, that the row to be synced is still local, that the suggestion is as it
  was read), and `SentOnce` that an event sent for a row or a suggestion is
  either known by name there or in hand to become so. `OneEventOfSuggestion`,
  `CreatedOnce`, `SentToGoogleOnce` and `RowsDiffer` follow. None of the four
  could be kept alone: a sync that is repeated is harmless because the first has
  renamed the row, which is a fact about rows.

### The clients of Redis: `SharedRedisProofs`, `ChatAssistantProofs`

These are theorems about the specification of each client (`TokensSpec`,
`ListingSpec`, `LimiterSpec`, `ChatSpec`) against a Redis that goes away, returns
and evicts as it likes, and then about the four on one server; the properties are
those the run checks.

- `RevokedStaysOut`: a token that was revoked in a store is in it until it
  expires, is evicted or the process that kept it ends (`RevokedIsHeld`).
- `FreshUnlessMissed`: no change ends before it is in the calendar, and a change
  about to empty the cache is in it already (`CalendarIsAhead`); so a listing
  that a store keeps is current or was missed.
- `NoWindowOverTheLimit`: `WindowLimit` speaks of the past and a bucket forgets.
  `InRedis`: each request let through has a timestamp in the sorted set that is
  as old or shares no window with it. `InProcess`: each one no longer in the list
  is a window older than a timestamp in the list, or at least as many as the
  limit are younger than it. From both, a request that is let in leaves every
  window of any start within the limit (`LimitAt`).
- `PlanIsKept`: an answer is in the counter or with a call that has yet to count
  it, and counter and calls under way stay below the plan plus the slots, less
  one (`Counts`). `ConversationIsKept`: stored entries are distinct, and a call
  that nothing crossed has loaded all of them (`History`), so that what
  `RowsToAdd` adds past the rows is what is new.

- `ChatsTyped`: the types, and that a counter counts no more than was answered
  and no more is answered than was asked. That order is not inductive either. With
  each counter go the answers it has not heard of and the calls that still wait
  for one (`Tally`): a step moves a call from the one class to the other and never
  counts it twice, and an eviction or an outage only takes from the count.
- `SharedRedisTyped`: `Spec => []TypeOK`, and `ClientsKeepPromises`: `Spec` of
  `MCSharedRedis` implies the promises of each client. Both rest on
  `EachClientRuns`: a step of the composition is, for each client, a step of its
  own or none, and for the server one of its three steps or none.
  `ClientTypesTogether` needs no `focus`: it holds of any behaviour that is one of
  the server's and of each client, with their steps interleaved at will.

### Accounts: `UserAccountsProofs`

- `LinksWorkOnce`: who is at the password of a link is the only one, and the link
  has set none yet, unless another took it too (`SingleUse`); an account has one
  good link, and who is about to send the next has listed it (`OneGoodLink`).
- `NewestIsUsed`: a sign-in about to insert has listed all active connections
  (`SignInCovers`), and after a sign-in that nothing crossed its connection is
  the one active, and a refresh under way began from its grant
  (`SettledIsActive`).

### Links, onboarding, hooks: `ServicesProofs`

- `OfferedTimeIsFree`: a page's windows are free of what its listing had to know, a
  link's slots of what of it is within the listing's reach, for every agenda, also
  with events past the last moment or backward, and every horizon, duration, page
  size and limit of slots; slots are apart, and a page's windows while no event ends
  before it begins. Two parts. *What the algorithms compute.* `_compute_free_slots` is a loop, and that
  its recursive function exists at all has to be shown: `FreeSlots` is defined by
  a `CHOOSE` among the functions that satisfy the loop's equation (`Loops`), and
  one does because each turn moves the time on (`LoopEnds`). What its slots
  satisfy (`Offered`), that they are apart, begin in office hours, overlap no
  meeting and are no more than may still be added, is then an induction on the
  rounds that are left (`LoopOffers`). The library's induction theorems take an operator as an argument
  and cannot be used; `AllNumbers` replaces them: a set that holds zero and, with a
  number, the next one holds them all, from the well-foundedness of `<`.
  For `find_free_slots` the latest end among finitely many events exists by the
  same means, and its gaps end where an event begins or at the last moment, so that
  no later event can be in one (`GapsInReach`). *What a page of a listing holds.* `AllFitsPage`: if no more than a
  page match, the page is all of them; so each event in `Known` was listed and is
  among the busy times. `SchedulingInv` carries this from the listing to every
  later state, in which events are only added.
- `OnboardingInGoodHands` is the safety half of `OnboardingEnds`: unless a task
  died, a last save failed or two saves of guides overlapped, a status of
  "in_progress" is with a task that will replace it by a final one (`WillEnd`).
  What remains for TLC is that this task gets there.
- `OneEventPerMessage`: on SQLite a message that nothing excuses is with one delivery at
  most, and has made an event only if it is marked, or that delivery is at its
  mark (`OnceSoFar`).
- `ServicesTyped`, `TypesTogether` and `ServicesKeepPromises` say of the four
  services what `SharedRedisTyped`, `ClientTypesTogether` and
  `ClientsKeepPromises` say of the clients of Redis, from `EachServiceRuns`.

### What the proofs taught about the models

`Handle` of `StripeBilling` was a `CASE` with overlapping guards, whose value TLC
and the prover choose differently; it is the chain of conditions of the code now.
`RedisStore` allowed a process the name of the server, and `SchedulingLinks` a
visitor the name of the host, whose meetings are no bookings. Neither had a case
in the runs.

`find_free_slots` was a fold over the sorted events. What its loop keeps at each
event is the latest end of the events before it, and written so, the gaps can be
reasoned about event by event. Events that start together must be taken one after
the other: behind one that ends before it begins the next one leaves a gap of its
own, which a formulation over the set of their times had lost. That gaps are apart was proved from an assumption
that events end after they begin, until bookings were modelled as the server takes
them: a negative duration is one it accepts, and two gaps may overlap then.

The calendar's keys once were times, compared as such. With the zones that the
look-ups strip, `RowsApart` no longer holds of times but of digits, and what remains
of `CreatedOncePerTime` is what the code gives for times in UTC.

Some types said more than the code keeps, or less. The guides' rows, the events of
a message and the counters of the chat were typed by the bound on what a run
explores; they are natural numbers now. Of the counters the bound had stood for
what is meant, and `ChatTypeOK` says it: counted, answered, asked, in this order.

`AccountStaysInSync` cannot do without its bound on live subscriptions. With two
alive the property is false of the code: the end of one sets the plan to free
while the other goes on, since the account has one column for both.

### Only model-checked

The liveness properties `EveryEventApplied`, `NewMailIsScanned` and
`OnboardingEnds`: the prover has neither fairness nor `ENABLED`. The five runs that
show a violation are counterexamples and need no proof. Every other property of
every run, type invariants, safety invariants, action properties and the
refinement of `WebhookLedger`, is a theorem.

No module has a RECURSIVE operator, so that theorems can be added anywhere.

## 6. Findings

1. *Events can be lost* (`billing_exactly_once`). The webhook commits the
   event's id before, and apart from, the handler; a delivery that dies in
   between, or a handler that fails, is not made good by Stripe's retry, which is
   answered as a duplicate. The comments promise exactly once.
2. *Two owners* (`org_two_owners`). `transfer_ownership` checks and writes
   without a lock; two transfers by one owner leave two.
3. *No drafts* (`email_drafts`). The composer takes the LLM adapter's answer,
   a dictionary, for text; the exception is swallowed, and no reply becomes a
   draft.
4. *Deleted events come back* (`calendar_deleted`). The local adapter removes an
   event from its dictionary, or, for a UUID, from the table, never from both;
   the web client sends the provider id, so the row stays and is listed.
5. *A time in another zone is created twice* (`calendar_zones`). The local look-ups
   cut the zone off a time, and SQLite gives times back without it, which the conflict
   check takes for UTC: a second creation at 10:00+05:30 finds the row of the first,
   reads it as 10:00 UTC and sees no conflict.

Three more follow from the models and have no run of their own. *A checkout can undo a
subscription*: saving the customer id writes every column of a copy of the user row
(`user_repository.py:50-64`). Of two checkouts that began before the id was known,
the first stores it, its subscription is created and the webhook sets the plan; the
second, late in its call to Stripe, writes the free plan back. With two members in
`Requests`, `Billing.cfg` shows `PlanChangesOnlyByEvent` violated. *Slots past five*:
a slot may end at any time up to 17:59 (`scheduling_link_service.py:296`), although
line 274 promises slots "during business hours (9am-5pm, Mon-Fri)"; a link of 45
minutes offers 16:30 to 17:15. *No deduplication on PostgreSQL*: the statement that
marks a WhatsApp message as processed (`whatsapp_intelligence_service.py:126`) writes
0 and 1 into Boolean columns, which PostgreSQL refuses each time; the error is
swallowed, and a message that is delivered again makes a second event. `WhatsAppOnce`
without its condition on the database fails there.

Seen on the way and not the subject of a property:

Billing and organizations: with the prices unset in `os.environ`, both keys of
the webhook's price map are the empty string and an event without items selects
the business plan; an admin may remove or demote the owner, after which no one
can transfer ownership.

Calendar: on PostgreSQL a row whose time was given with a zone is not found by the
look-up for a duplicate; a sync renames the row and not the suggestion, which goes on naming a
"mem-" id, so that approving it again makes a second event at Google; approvals
that overlap both insert; under the Redis adapter a cached listing with events
comes back as strings and the route answers 500; approvals, bookings, hooks and
syncs never empty the cached listings.

Accounts and tokens: `change_password` says that all existing tokens are revoked
and revokes the one it was called with; `/refresh` does not ask the blocklist, so
logging out with one token leaves the other good; the WebSocket asks neither the
blocklist nor `is_active`; Google's spelling of an address may make a second
account beside the one registered in lower case, and a profile without an address
shares one account with every other such profile; an organization's connection is
active beside the personal one; `microsoft_oauth.py` does not parse (line 96), so
signing in with Microsoft fails.

Links: booking through a link hands the calendar adapter an object of another
class and fails each time, and the link is never marked as used; on SQLite no
link opens, and a single row, or one all-day event at Google, empties the booking
page; a slot may begin up to an hour ago, and end past the last moment that was
listed, on a meeting; a confirmation takes any start and any duration, also a negative
one or a time the page showed as busy, and does not look at the calendar, so two
visitors may take one gap, and it reports success for an event that is only stored
locally. No document promises more of it, so no property does.

Chat: a cached answer is neither stored in the conversation nor counted; the
agent may return the user's own text or a tool's output as its answer; a refused
request is counted by the limiter in Redis and not in the process.

Onboarding and hooks: two onboardings may overlap, and one overwrites a guide
the user has edited; a crash leaves the status at "in_progress"; with the real
adapters every guide is empty and the backfill makes no event; a message is marked as
processed when the call of the model fails or its answer is no JSON, and given up
unmarked when the JSON is no object; WhatsApp is answered 200 whatever
happens, so that a failure is not delivered again; the id of a replayed message
holds a memory address, which may come again; the reply that asks for "confirm"
has no handler.

## 7. What is not modelled, and why

Text: regular expressions, prompts, parsing of dates, formatting, the intent
router, the mock answers of the chat. The properties see a verdict or a choice.
Single-row settings, audit log, analytics, encryption, notifications: no state
that another component decides on; a setting that is hot-reloaded replaces an
object of one process. `booking_page_service` (Calendly, Cal.com) and the
Microsoft adapters are HTTP clients; the provider-aware calendar does not use the
latter, and Microsoft sign-in does not parse. `invite_verification_service` is
run by its tests only. What the WebSocket does with a message once it is let in
repeats the chat route's steps. `PATCH /me`
writes two columns nothing else decides on. The web client and the deployment
files. The Redis lock around the enqueueing of the scan job: ARQ's own cron
starts the same job without it and the lock does not cover the job, so scans
overlap whatever it does.

Abstracted in what is modelled: the clock of `SchedulingLinks` stands still, so a
page or a link never shows the past of a later hour; its times are in UTC, zones being
the subject of `CalendarEvents`; an organization's rows of `provider_connections` are not in
`OrgMembership`; of a connection only the
grant is kept, not the expiry; one range of dates stands for all in
`ListingCache`; a conversation exists when a message comes; rows in the calendar
of `SchedulingLinks` are those of the database, as entries a process alone
remembers belong to `CalendarEvents`.

## 8. State of the plan

The modules of the plan are written, and every safety property of the passing runs
is proved. What could follow:

1. Of the components that are modelled in part: the cached entries of
   `ListingCache` by range of dates, and the events of `SchedulingLinks` with the
   clock moving.
2. Hazards without a property: those where no doc or comment says what should hold
   (the price map with unset prices, an organization whose owner was removed, bookings
   of any time), and the overlaps and late calls that the code does not guard against,
   each with a note in `PROJECT.json`.
3. The liveness properties, when a prover for them is at hand; their safety halves
   (`NothingLost`, `PendingIsInHand`, `OnboardingInGoodHands`) are there.
