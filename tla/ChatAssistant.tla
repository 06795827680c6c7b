----------------------------- MODULE ChatAssistant -----------------------------
(***************************************************************************)
(* ChatService.handle_message for one user and one conversation: the       *)
(* monthly quota, the cached answer, the agent with its tools, the rows of *)
(* the conversation, the counter and the cache, in this order and with an  *)
(* await between each.  The session of the request commits at the very end. *)
(* The language model is the environment: it may ask for tools, answer or  *)
(* fail.  A message without a conversation id starts one that nobody else  *)
(* writes to before its answer, and is left out.                           *)
(***************************************************************************)
EXTENDS RedisStore, Sequences, FiniteSets

CONSTANTS
    Texts,           \* what users write
    ChatCalls,       \* slots for messages in hand
    PlanLimit,       \* the requests a month of the user's plan
    MaxIterations,   \* max_iterations of the agent
    MaxChats         \* bound: messages

ASSUME ChatAssumption ==
    /\ {PlanLimit, MaxIterations} \subseteq Nat \ {0}
    /\ MaxChats \in Nat
    /\ IsFiniteSet(ChatCalls)

VARIABLES
    usage,        \* usage:<user>:<month>:requests, in Redis and in each process
    chatCache,    \* the texts with a cached answer, by the process that hashed them
    talk,         \* the messages of the conversation
    chatCall,     \* the messages in hand
    chats,        \* how many messages there have been
    served,       \* history: answers that were computed, by the counter in charge
    uncounted,    \* history: counters that missed an answer or lost their count
    recorded      \* history: messages that were committed, and whether they overlapped

chatVars ==
    <<usage, chatCache, talk, chatCall, chats, served, uncounted, recorded>>

ChatIds == 1..MaxChats
ChatSteps == {"idle", "quota", "loaded", "reason", "tools", "answered", "flushed",
              "counted", "cached"}
NoChatCall == [pc |-> "idle", n |-> 0, text |-> "none", replica |-> "none", loaded |-> 0,
               adds |-> << >>, turns |-> 0, overlapped |-> FALSE]

ChatInit ==
    /\ usage = [s \in Stores |-> 0]
    /\ chatCache = [r \in Replicas |-> {}]
    /\ talk = << >>
    /\ chatCall = [c \in ChatCalls |-> NoChatCall]
    /\ chats = 0
    /\ served = [s \in Stores |-> 0]
    /\ uncounted = {}
    /\ recorded = {}

ChatAt(c, pc) == chatCall[c].pc = pc
Goto(c, pc) == chatCall' = [chatCall EXCEPT ![c].pc = pc]
EndChat(c) == chatCall' = [chatCall EXCEPT ![c] = NoChatCall]
CounterOf(c) == StoreOf(chatCall[c].replica)

----------------------------------------------------------------------------
(* Quota, conversation, cache *)

\* Faulty variant: the request that reaches the limit is let in again.
WithinQuotaOrAt(s) == CacheAnswers => usage[s] <= PlanLimit

\* A counter that cannot be read counts as zero.
WithinQuota(s) == CacheAnswers => usage[s] < PlanLimit

CheckQuota(c, r, text) ==
    /\ ChatAt(c, "idle")
    /\ chats < MaxChats
    /\ chats' = chats + 1
    /\ IF WithinQuota(StoreOf(r))
         THEN chatCall' = [chatCall EXCEPT ![c] =
                [NoChatCall EXCEPT !.pc = "quota", !.n = chats + 1, !.text = text, !.replica = r]]
         ELSE UNCHANGED chatCall
    /\ uncounted' = IF CacheAnswers THEN uncounted ELSE uncounted \cup {StoreOf(r)}
    /\ UNCHANGED <<usage, chatCache, talk, served, recorded>>

\* get_by_id; overlapped: another message is between its load and its commit.
LoadConversation(c) ==
    LET others == {d \in ChatCalls \ {c} : chatCall[d].pc \notin {"idle", "quota"}}
    IN /\ ChatAt(c, "quota")
       /\ chatCall' = [d \in ChatCalls |->
            IF d = c THEN [chatCall[c] EXCEPT !.pc = "loaded", !.loaded = Len(talk),
                                              !.overlapped = others # {}]
            ELSE IF d \in others THEN [chatCall[d] EXCEPT !.overlapped = TRUE]
            ELSE chatCall[d]]
       /\ UNCHANGED <<usage, chatCache, talk, chats, served, uncounted, recorded>>

\* The cached answer goes out; the question is not stored, nothing is counted.
AnswerFromCache(c) ==
    /\ ChatAt(c, "loaded")
    /\ CacheAnswers /\ chatCall[c].text \in chatCache[chatCall[c].replica]
    /\ EndChat(c)
    /\ UNCHANGED <<usage, chatCache, talk, chats, served, uncounted, recorded>>

\* An answer has been computed, and the counter has to hear of it.
Answered(c) ==
    /\ Goto(c, "answered")
    /\ served' = [served EXCEPT ![CounterOf(c)] = @ + 1]

MissCache(c) ==
    /\ ChatAt(c, "loaded")
    /\ ~(CacheAnswers /\ chatCall[c].text \in chatCache[chatCall[c].replica])
    /\ \/ Goto(c, "reason") /\ UNCHANGED served
       \/ Answered(c)      \* deterministic: read from the calendar
    /\ UNCHANGED <<usage, chatCache, talk, chats, uncounted, recorded>>

----------------------------------------------------------------------------
(* The agent: reason, tools, reason ... *)

\* The model asks for tools, which it gets below max_iterations, or has done.  At
\* the bound the calls it still asks for are dropped.
Reason(c) ==
    /\ ChatAt(c, "reason")
    /\ \/ /\ chatCall[c].turns + 1 < MaxIterations
          /\ chatCall' = [chatCall EXCEPT ![c].pc = "tools", ![c].turns = @ + 1]
          /\ UNCHANGED served
       \/ Answered(c)
    /\ UNCHANGED <<usage, chatCache, talk, chats, uncounted, recorded>>

\* A tool reads or changes the calendar at once, outside the request's session.
RunTools(c) ==
    /\ ChatAt(c, "tools")
    /\ Goto(c, "reason")
    /\ UNCHANGED <<usage, chatCache, talk, chats, served, uncounted, recorded>>

----------------------------------------------------------------------------
(* Conversation, counter, cache, commit *)

Entries(n) == <<<<n, "user">>, <<n, "assistant">>>>

\* Faulty variant: everything that was loaded is added again.
RowsToAddTwice(c) ==
    [i \in 1..chatCall[c].loaded |-> talk[i]] \o Entries(chatCall[c].n)

\* update() adds messages[existing_count:]: what is past the number of rows there
\* are now, of the loaded messages and the two new ones.
RowsToAdd(c) ==
    LET known == [i \in 1..chatCall[c].loaded |-> talk[i]] \o Entries(chatCall[c].n)
    IN SubSeq(known, Len(talk) + 1, Len(known))

UpdateConversation(c) ==
    /\ ChatAt(c, "answered")
    /\ chatCall' = [chatCall EXCEPT ![c].pc = "flushed", ![c].adds = RowsToAdd(c)]
    /\ UNCHANGED <<usage, chatCache, talk, chats, served, uncounted, recorded>>

\* Faulty variant: the request is counted twice.
RecordRequestTwice(c) ==
    /\ ChatAt(c, "flushed")
    /\ Goto(c, "counted")
    /\ usage' = IF CacheAnswers THEN [usage EXCEPT ![CounterOf(c)] = @ + 2] ELSE usage
    /\ uncounted' = IF CacheAnswers THEN uncounted ELSE uncounted \cup {CounterOf(c)}
    /\ UNCHANGED <<chatCache, talk, chats, served, recorded>>

\* record_request; an increment that Redis does not take is skipped.
RecordRequest(c) ==
    /\ ChatAt(c, "flushed")
    /\ Goto(c, "counted")
    /\ usage' = IF CacheAnswers THEN [usage EXCEPT ![CounterOf(c)] = @ + 1] ELSE usage
    /\ uncounted' = IF CacheAnswers THEN uncounted ELSE uncounted \cup {CounterOf(c)}
    /\ UNCHANGED <<chatCache, talk, chats, served, recorded>>

\* hash() of a string differs between processes, so each has keys of its own.
CacheAnswer(c) ==
    /\ ChatAt(c, "counted")
    /\ Goto(c, "cached")
    /\ chatCache' = IF CacheAnswers
                      THEN [chatCache EXCEPT ![chatCall[c].replica] = @ \cup {chatCall[c].text}]
                      ELSE chatCache
    /\ UNCHANGED <<usage, talk, chats, served, uncounted, recorded>>

CommitChat(c) ==
    /\ ChatAt(c, "cached")
    /\ talk' = talk \o chatCall[c].adds
    /\ recorded' = recorded \cup {[n |-> chatCall[c].n, overlapped |-> chatCall[c].overlapped]}
    /\ EndChat(c)
    /\ UNCHANGED <<usage, chatCache, chats, served, uncounted>>

\* The model, the database or the process fails: nothing is stored, and what the
\* tools have done stays.
FailChat(c) ==
    /\ ~ChatAt(c, "idle")
    /\ uncounted' = IF chatCall[c].pc \in {"answered", "flushed"}
                      THEN uncounted \cup {CounterOf(c)} ELSE uncounted
    /\ EndChat(c)
    /\ UNCHANGED <<usage, chatCache, talk, chats, served, recorded>>

----------------------------------------------------------------------------
\* Five minutes are over, or Redis evicts the answer.
ForgetAnswer(r) ==
    /\ chatCache[r] # {}
    /\ \E t \in chatCache[r] : chatCache' = [chatCache EXCEPT ![r] = @ \ {t}]
    /\ UNCHANGED <<usage, talk, chatCall, chats, served, uncounted, recorded>>

\* Redis evicts the counter, which has no expiry, or a process with its own
\* dictionary starts again.
ResetUsage(s) ==
    /\ usage' = [usage EXCEPT ![s] = 0]
    /\ uncounted' = uncounted \cup {s}
    /\ UNCHANGED <<chatCache, talk, chatCall, chats, served, recorded>>

EvictUsage ==
    /\ RedisEvicts
    /\ usage["redis"] > 0
    /\ ResetUsage("redis")

RestartCounter(r) ==
    /\ adapter = "memory"
    /\ usage[r] > 0
    /\ ResetUsage(r)

ChatNext ==
    \/ UNCHANGED redisVars /\
         \/ \E c \in ChatCalls :
              \/ \E r \in Replicas, t \in Texts : CheckQuota(c, r, t)
              \/ LoadConversation(c) \/ AnswerFromCache(c) \/ MissCache(c)
              \/ Reason(c) \/ RunTools(c)
              \/ UpdateConversation(c) \/ RecordRequest(c) \/ CacheAnswer(c)
              \/ CommitChat(c) \/ FailChat(c)
         \/ \E r \in Replicas : ForgetAnswer(r) \/ RestartCounter(r)
    \/ (RedisFails \/ RedisReturns) /\ UNCHANGED chatVars
    \/ EvictUsage

ChatSpec == ChatInit /\ [][ChatNext]_<<adapter, chatVars>>

----------------------------------------------------------------------------
(* Properties *)

ChatTypeOK ==
    /\ usage \in [Stores -> Nat] /\ served \in [Stores -> Nat]
    /\ \A s \in Stores : usage[s] <= served[s] /\ served[s] <= chats
    /\ chatCache \in [Replicas -> SUBSET Texts]
    /\ \A i \in DOMAIN talk : talk[i] \in ChatIds \X {"user", "assistant"}
    /\ \A c \in ChatCalls : chatCall[c].pc \in ChatSteps
    /\ chats \in 0..MaxChats
    /\ uncounted \subseteq Stores
    /\ recorded \subseteq [n : ChatIds, overlapped : BOOLEAN]

\* "Check quota" (chat_service.py:66): the answers that are computed in a month
\* exceed the plan by what can be under way at once, and no more, for a counter
\* that was always in reach, never lost and told of every answer.  In memory mode
\* each process has a counter of its own.
QuotaHolds ==
    \A s \in Stores \ uncounted : served[s] <= PlanLimit + Cardinality(ChatCalls) - 1

\* A message that was answered and committed is in the conversation, question
\* and answer, exactly once; it may be missing only if another message of the
\* conversation was in hand between its load and its commit (update() counts the
\* rows of both and takes its own two for stored).
HistoryIsKept ==
    \A n \in ChatIds, who \in {"user", "assistant"} :
      LET times == Cardinality({i \in DOMAIN talk : talk[i] = <<n, who>>})
      IN /\ times <= 1
         /\ [n |-> n, overlapped |-> FALSE] \in recorded => times = 1
===============================================================================
