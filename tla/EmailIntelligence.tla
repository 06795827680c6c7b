-------------------------- MODULE EmailIntelligence --------------------------
(***************************************************************************)
(* The email pipeline of one connected mailbox                             *)
(* (application/services/email_intelligence_service.py): scans started by  *)
(* the ARQ job, by a Gmail push notification and by the user list the      *)
(* newest mails, drop those already scanned, analyse the others one by one *)
(* and leave a suggestion and a scanned_emails row for each.  Every        *)
(* database access is a session of its own and neither table has a         *)
(* uniqueness constraint, so scans of one mailbox that run at once         *)
(* interleave between any two of these steps.                              *)
(*                                                                         *)
(* Mails are numbered in the order they arrive; the inbox holds those the  *)
(* provider's search query matches.                                        *)
(***************************************************************************)
EXTENDS Naturals, Sequences, FiniteSets, FiniteSetsExt

CONSTANTS
    Cron,            \* slots for runs of the scheduled job
    Requests,        \* slots for scans by push notification and by the user
    ScheduledFetch,  \* max_emails of a scheduled scan (30 in the code)
    WebhookFetch,    \* max_emails of a pushed scan (10 in the code)
    ManualFetch,     \* the largest max_emails a user may ask for (200)
    Provider,        \* settings.llm_provider
    MaxEmails,       \* bound: mails that arrive
    MaxFailures      \* bound: mails and scans that fail

Scans   == Cron \cup Requests
Emails  == 1..MaxEmails
Sources == {"scheduled", "webhook", "manual"}

FetchLimit ==
    [scheduled |-> ScheduledFetch, webhook |-> WebhookFetch, manual |-> ManualFetch]

ASSUME BoundsAssumption ==
    /\ MaxEmails \in Nat /\ MaxFailures \in Nat
    /\ FetchLimit \in [Sources -> Nat \ {0}]
ASSUME SlotsAssumption == Cron \cap Requests = {}
ASSUME ProviderAssumption == Provider \in {"anthropic", "openai"}

VARIABLES
    inbox,        \* how many mails have arrived
    suggestions,  \* schedule_suggestions: number of rows per mail
    scanned,      \* scanned_emails: the rows of each mail, oldest first
    drafts,       \* mails with a draft reply in Gmail
    scan,         \* the scans that are running
    failures,     \* how many mails and scans have failed
    overlapped,   \* history: two scans have run at once
    rescanned     \* history: a user has asked for a rescan

tables  == <<suggestions, scanned, drafts>>
history == <<overlapped, rescanned>>
vars    == <<inbox, tables, scan, failures, history>>

\* "dangling" is the id of a suggestion that was never stored.
Links      == {"none", "stored", "dangling"}
\* "replied": a draft was wanted and the LLM has written it.
Verdicts   == {"skip", "suggest", "draft", "replied"}
RowRecords == [actionable : BOOLEAN, link : Links]

Running == {"filter", "analyze", "draft", "suggest", "insert", "load", "save"}
ScanRecords ==
    [pc : Running \cup {"idle"}, source : Sources, todo : SUBSET Emails,
     verdict : Verdicts, link : Links, found : BOOLEAN]

Idle == [pc |-> "idle", source |-> "scheduled", todo |-> {}, verdict |-> "skip", link |-> "none", found |-> FALSE]

----------------------------------------------------------------------------
\* Variants: one mail more; the oldest mails.
NewestOneMore(n) == {e \in Emails : e <= inbox /\ e + n >= inbox}
NewestIsOldest(n) == {e \in Emails : e <= inbox /\ e <= n}

\* The n newest mails: the provider lists them before any filter is applied.
Newest(n) == {e \in Emails : e <= inbox /\ e + n > inbox}

\* The mail a scan is at: newest first, as the provider lists them.
Current(s) == Max(scan[s].todo)

\* The scan r once it is done with a mail.
AfterMail(r, rest) ==
    IF rest = {} THEN Idle
    ELSE [Idle EXCEPT !.pc = "analyze", !.source = r.source, !.todo = rest]

NextMail(s) ==
    scan' = [scan EXCEPT ![s] = AfterMail(@, @.todo \ {Current(s)})]

\* Only the user's scan has the classifier (email_routes.py:222).  It reads
\* the LLM's answer as text and takes the heuristic when that fails, which
\* knows two verdicts.  The other scans use the regular expressions and the
\* LLM, and never draft.
VerdictsOf(source) ==
    IF source = "manual" THEN {"skip", "draft"} ELSE {"skip", "suggest"}

\* What the composer makes of response.get("content", ""): Anthropic's
\* adapter returns the API's body, where it is a list of blocks, and
\* list has no startswith; OpenAI's body has no such key, and the empty
\* string is no JSON.
ReplyText(provider) == IF provider = "anthropic" THEN "exception" ELSE "empty"

----------------------------------------------------------------------------
Init ==
    /\ inbox = 0
    /\ suggestions = [e \in Emails |-> 0]
    /\ scanned = [e \in Emails |-> << >>]
    /\ drafts = {}
    /\ scan = [s \in Scans |-> Idle]
    /\ failures = 0
    /\ overlapped = FALSE /\ rescanned = FALSE

ReceiveEmail ==
    /\ inbox < MaxEmails
    /\ inbox' = inbox + 1
    /\ UNCHANGED <<tables, scan, failures, history>>

\* list_recent_emails.  listed: the newest max_emails, less those outside the
\* time window and those the provider fails to return.
BeginScan(s, source, rescan, listed) ==
    /\ scan[s].pc = "idle"
    /\ (source = "scheduled") <=> (s \in Cron)
    /\ rescan => source = "manual"
    /\ listed # {}
    /\ scan' = [scan EXCEPT ![s] =
           [Idle EXCEPT !.pc = IF rescan THEN "analyze" ELSE "filter",
                        !.source = source, !.todo = listed]]
    /\ overlapped' = (overlapped \/ \E t \in Scans : scan[t].pc # "idle")
    /\ rescanned' = (rescanned \/ rescan)
    /\ UNCHANGED <<inbox, tables, failures>>

\* Variant: the mails are processed whether or not they have a row.
FilterProcessedKeepsAll(s) ==
    /\ scan[s].pc = "filter"
    /\ scan' = [scan EXCEPT ![s] = AfterMail(@, @.todo)]
    /\ UNCHANGED <<inbox, tables, failures, history>>

\* _filter_processed: the mails without a scanned_emails row.
FilterProcessed(s) ==
    /\ scan[s].pc = "filter"
    /\ scan' = [scan EXCEPT ![s] = AfterMail(@, {e \in @.todo : scanned[e] = << >>})]
    /\ UNCHANGED <<inbox, tables, failures, history>>

Analyze(s) ==
    /\ scan[s].pc = "analyze"
    /\ \E verdict \in VerdictsOf(scan[s].source) :
           scan' = [scan EXCEPT ![s].verdict = verdict,
                        ![s].pc = CASE verdict = "skip"    -> "load"
                                    [] verdict = "suggest" -> "suggest"
                                    [] verdict = "draft"   -> "draft"]
    /\ UNCHANGED <<inbox, tables, failures, history>>

\* compose_and_create_draft, whose failures are swallowed.  The LLM writes a
\* reply or answers that there is nothing to reply to.
ComposeDraft(s) ==
    /\ scan[s].pc = "draft"
    /\ \E written \in BOOLEAN :
           /\ drafts' = IF written /\ ReplyText(Provider) = "json"
                        THEN drafts \cup {Current(s)} ELSE drafts
           /\ scan' = [scan EXCEPT ![s].pc = "suggest",
                                   ![s].verdict = IF written THEN "replied" ELSE @]
    /\ UNCHANGED <<inbox, suggestions, scanned, failures, history>>

\* Variant: no search for a suggestion of the same mail.
CheckSuggestionNever(s) ==
    /\ scan[s].pc = "suggest"
    /\ scan' = [scan EXCEPT ![s].pc = "insert"]
    /\ UNCHANGED <<inbox, tables, failures, history>>

\* _save_suggestion, the search.  When a suggestion exists, whatever its
\* status, nothing is stored, and the caller keeps the id of the new one.
CheckSuggestion(s) ==
    /\ scan[s].pc = "suggest"
    /\ scan' = IF suggestions[Current(s)] > 0
               THEN [scan EXCEPT ![s].pc = "load", ![s].link = "dangling"]
               ELSE [scan EXCEPT ![s].pc = "insert"]
    /\ UNCHANGED <<inbox, tables, failures, history>>

InsertSuggestion(s) ==
    /\ scan[s].pc = "insert"
    /\ suggestions' = [suggestions EXCEPT ![Current(s)] = @ + 1]
    /\ scan' = [scan EXCEPT ![s].pc = "load", ![s].link = "stored"]
    /\ UNCHANGED <<inbox, scanned, drafts, failures, history>>

\* Variant: always a new row.
LoadScannedAlwaysNew(s) ==
    /\ scan[s].pc = "load"
    /\ scan' = [scan EXCEPT ![s].pc = "save"]
    /\ UNCHANGED <<inbox, tables, failures, history>>

\* _save_scanned_email, the search: scalar_one_or_none raises on two rows, and
\* the exception is swallowed.
LoadScanned(s) ==
    /\ scan[s].pc = "load"
    /\ IF Len(scanned[Current(s)]) > 1
       THEN NextMail(s)
       ELSE scan' = [scan EXCEPT ![s].pc = "save",
                                 ![s].found = scanned[Current(s)] # << >>]
    /\ UNCHANGED <<inbox, tables, failures, history>>

\* The rows of a mail once r has saved it: the row it has found, or a new one.
\* An absent id leaves the stored one.
RowsSavedBy(r, old) ==
    LET actionable == r.verdict # "skip"
    IN  IF r.found
        THEN [old EXCEPT ![1] = [actionable |-> actionable,
                                 link |-> IF r.link = "none" THEN old[1].link ELSE r.link]]
        ELSE Append(old, [actionable |-> actionable, link |-> r.link])

\* _save_scanned_email, the write.
SaveScanned(s) ==
    /\ scan[s].pc = "save"
    /\ scanned' = [scanned EXCEPT ![Current(s)] = RowsSavedBy(scan[s], @)]
    /\ NextMail(s)
    /\ UNCHANGED <<inbox, suggestions, drafts, failures, history>>

\* Variant: a mail whose processing failed is saved as actionable all the same.
FailEmailButSave(s) ==
    /\ scan[s].pc \in {"analyze", "suggest", "insert", "load", "save"}
    /\ failures < MaxFailures
    /\ failures' = failures + 1
    /\ scanned' = [scanned EXCEPT ![Current(s)] =
           Append(@, [actionable |-> scan[s].verdict # "skip", link |-> "none"])]
    /\ NextMail(s)
    /\ UNCHANGED <<inbox, suggestions, drafts, history>>

\* An exception while a mail is processed: the scan goes on with the next one.
FailEmail(s) ==
    /\ scan[s].pc \in {"analyze", "suggest", "insert", "load", "save"}
    /\ failures < MaxFailures
    /\ failures' = failures + 1
    /\ NextMail(s)
    /\ UNCHANGED <<inbox, tables, history>>

\* The process dies, or the filter's query raises and the scan is given up.
Die(s) ==
    /\ scan[s].pc # "idle"
    /\ failures < MaxFailures
    /\ failures' = failures + 1
    /\ scan' = [scan EXCEPT ![s] = Idle]
    /\ UNCHANGED <<inbox, tables, history>>

----------------------------------------------------------------------------
\* A step of a running scan.
Step(s) ==
    \/ FilterProcessed(s)
    \/ Analyze(s)
    \/ ComposeDraft(s)
    \/ CheckSuggestion(s)
    \/ InsertSuggestion(s)
    \/ LoadScanned(s)
    \/ SaveScanned(s)

Next ==
    \/ ReceiveEmail
    \/ \E s \in Scans, source \in Sources, rescan \in BOOLEAN :
           \E listed \in SUBSET Newest(FetchLimit[source]) :
               BeginScan(s, source, rescan, listed)
    \/ \E s \in Scans : FilterProcessed(s)
    \/ \E s \in Scans : Analyze(s)
    \/ \E s \in Scans : ComposeDraft(s)
    \/ \E s \in Scans : CheckSuggestion(s)
    \/ \E s \in Scans : InsertSuggestion(s)
    \/ \E s \in Scans : LoadScanned(s)
    \/ \E s \in Scans : SaveScanned(s)
    \/ \E s \in Scans : FailEmail(s)
    \/ \E s \in Scans : Die(s)

Spec == Init /\ [][Next]_vars

\* A run of the scheduled job that lists all the mails it asks for.
ScheduledScan(s) ==
    BeginScan(s, "scheduled", FALSE, Newest(FetchLimit["scheduled"]))

\* The event loop resumes every coroutine, and cron starts the job every
\* fifteen minutes.
Fairness ==
    /\ \A s \in Scans : WF_vars(Step(s))
    /\ \A s \in Cron : SF_vars(ScheduledScan(s))

FairSpec == Spec /\ Fairness

----------------------------------------------------------------------------
\* A scan is over when it has no mail left, has no more mails than its source
\* may ask for, and no mail that has not arrived.
ScanOK(r) ==
    /\ r \in ScanRecords
    /\ (r.pc = "idle") <=> (r.todo = {})
    /\ Cardinality(r.todo) <= FetchLimit[r.source]
    /\ \A e \in r.todo : e <= inbox

\* Types; a scan never holds more mails than its source may ask for.
TypeOK ==
    /\ inbox \in 0..MaxEmails
    /\ suggestions \in [Emails -> Nat]
    /\ scanned \in [Emails -> Seq(RowRecords)]
    /\ drafts \in SUBSET Emails
    /\ scan \in [Scans -> ScanRecords]
    /\ \A s \in Scans : ScanOK(scan[s])
    /\ failures \in 0..MaxFailures
    /\ overlapped \in BOOLEAN /\ rescanned \in BOOLEAN

\* A mail recorded as actionable has a suggestion to act on, whatever fails
\* half way and however scans overlap: the row, which keeps the mail from ever
\* being looked at again, is written last.
ActionableRowsHaveSuggestion ==
    \A e \in Emails : \A i \in DOMAIN scanned[e] :
        scanned[e][i].actionable => suggestions[e] > 0

\* As long as scans do not overlap, a mail has one suggestion at most, also
\* when a scan died after storing it and when the user asks for a rescan
\* (_save_suggestion: "prevent duplicate suggestions").
SuggestedOnceWhenSerial ==
    ~overlapped => \A e \in Emails : suggestions[e] <= 1

\* As long as scans do not overlap, a mail has one row at most
\* (_save_scanned_email: "preventing duplicate entries").
OneRowWhenSerial ==
    ~overlapped => \A e \in Emails : Len(scanned[e]) <= 1

\* A scan that has found its mail worth a row that says so has a suggestion
\* for it stored before it comes to the row.
SuggestionFirst ==
    \A s \in Scans : \A e \in Emails :
        (/\ scan[s].pc \in {"load", "save"} /\ scan[s].verdict # "skip"
         /\ e = Current(s))
            => suggestions[e] > 0

\* Without overlaps at most one scan is running,
OneScanWhenSerial ==
    ~overlapped =>
        \A s, t \in Scans : (scan[s].pc # "idle" /\ scan[t].pc # "idle") => s = t

\* and what it has read of its mail still holds when it writes.
ChecksHoldWhenSerial ==
    ~overlapped =>
        \A s \in Scans : \A e \in Emails :
            /\ (scan[s].pc = "insert" /\ e = Current(s)) => suggestions[e] = 0
            /\ (scan[s].pc = "save" /\ e = Current(s)) =>
                   (scan[s].found <=> scanned[e] # << >>)

\* The inductive invariant: why rows have suggestions, and why the checks
\* before the two inserts are enough as long as scans do not overlap.
EmailInv ==
    /\ TypeOK
    /\ ActionableRowsHaveSuggestion
    /\ SuggestedOnceWhenSerial
    /\ OneRowWhenSerial
    /\ SuggestionFirst
    /\ OneScanWhenSerial
    /\ ChecksHoldWhenSerial

\* Without overlaps, failures and rescans a row and the suggestion agree: the
\* row of an actionable mail links to the stored suggestion, and a mail that
\* was recorded as not actionable has none.
LinksResolveWhenOrderly ==
    (~overlapped /\ ~rescanned /\ failures = 0) =>
        \A e \in Emails : \A i \in DOMAIN scanned[e] :
            LET row == scanned[e][i]
            IN  /\ row.actionable <=> (row.link = "stored")
                /\ row.actionable <=> (suggestions[e] > 0)

\* A mail that stays among those a scheduled scan lists is recorded in the
\* end, although scans fail and other scans of the mailbox run at any time.
NewMailIsScanned ==
    \A e \in Emails :
        (e <= inbox) ~> (scanned[e] # << >> \/ e + ScheduledFetch <= inbox)

\* compose_and_create_draft: "compose a draft reply and create it in Gmail".
\* A reply the LLM has written is in Gmail when the scan goes on.
RepliesAreDrafted ==
    \A s \in Scans : scan[s].verdict = "replied" => Current(s) \in drafts
==============================================================================
