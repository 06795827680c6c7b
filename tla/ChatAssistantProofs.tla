------------------------- MODULE ChatAssistantProofs -------------------------
(***************************************************************************)
(* For every number of processes and messages in hand: the answers of a    *)
(* month stay within the plan and what can be under way at once, and the   *)
(* conversation keeps what was committed, once.                            *)
(***************************************************************************)
EXTENDS ChatAssistant, SequenceTheorems, FiniteSetTheorems, TLAPS

-----------------------------------------------------------------------------
(* The inductive invariant *)

Rows == ChatIds \X {"user", "assistant"}

\* The ways in which update() finds the rows of the conversation: as they were
\* loaded, one more, or at least two more.
RowsOf(n) == {Entries(n), <<<<n, "assistant">>>>, << >>}

ChatRecords ==
    [pc : ChatSteps, n : ChatIds \cup {0}, text : Texts \cup {"none"},
     replica : Replicas \cup {"none"}, loaded : Nat, adds : Seq(Rows), turns : Nat,
     overlapped : BOOLEAN]

\* A call is in hand; it has loaded the conversation; it has its rows.
InHand(c) == chatCall[c].pc # "idle"
Loaded(c) == chatCall[c].pc \notin {"idle", "quota"}
HasRows(c) == chatCall[c].pc \in {"flushed", "counted", "cached"}

ChatTypes ==
    /\ usage \in [Stores -> Nat] /\ served \in [Stores -> Nat]
    /\ talk \in Seq(Rows)
    /\ chatCall \in [ChatCalls -> ChatRecords]
    /\ \A c \in ChatCalls : InHand(c) =>
         chatCall[c].replica \in Replicas /\ chatCall[c].n \in 1..chats
    /\ chats \in 0..MaxChats
    /\ recorded \subseteq [n : 1..chats, overlapped : BOOLEAN]

\* The calls at counter s that have an answer it has not heard of, and these with
\* the ones that may still have one.
Uncalled(s) ==
    {c \in ChatCalls : chatCall[c].pc \in {"answered", "flushed"} /\ CounterOf(c) = s}
UnderWay(s) ==
    {c \in ChatCalls : /\ chatCall[c].pc \in {"quota", "loaded", "reason", "tools",
                                              "answered", "flushed"}
                       /\ CounterOf(c) = s}

Counts(s) ==
    s \notin uncounted =>
      /\ served[s] = usage[s] + Cardinality(Uncalled(s))
      /\ usage[s] + Cardinality(UnderWay(s)) <= PlanLimit + Cardinality(ChatCalls) - 1

\* Numbers are given once; a message is in the conversation when it is recorded,
\* once, and in full if no other was in hand between its load and its commit.
Numbered ==
    /\ \A c, d \in ChatCalls : InHand(c) /\ InHand(d) /\ chatCall[c].n = chatCall[d].n => c = d
    /\ \A c \in ChatCalls, x \in recorded : InHand(c) => x.n # chatCall[c].n
    /\ \A i \in DOMAIN talk : \E x \in recorded : talk[i][1] = x.n

TalkIsKept ==
    /\ \A i, j \in DOMAIN talk : talk[i] = talk[j] => i = j
    /\ \A n \in ChatIds, who \in {"user", "assistant"} :
         [n |-> n, overlapped |-> FALSE] \in recorded =>
           \E i \in DOMAIN talk : talk[i] = <<n, who>>

CallsAreApart ==
    \A c \in ChatCalls :
      /\ Loaded(c) => chatCall[c].loaded <= Len(talk)
      /\ HasRows(c) => chatCall[c].adds \in RowsOf(chatCall[c].n)
      /\ Loaded(c) /\ ~chatCall[c].overlapped =>
           /\ chatCall[c].loaded = Len(talk)
           /\ \A d \in ChatCalls : Loaded(d) => d = c
           /\ HasRows(c) => chatCall[c].adds = Entries(chatCall[c].n)

History == Numbered /\ TalkIsKept /\ CallsAreApart
ChatInv == ChatTypes /\ (\A s \in Stores : Counts(s)) /\ History

-----------------------------------------------------------------------------
(* Rows of the conversation *)

\* The rows of a message are its question and its answer.
LEMMA EntriesOf ==
    ASSUME NEW n \in ChatIds
    PROVE  /\ Entries(n) \in Seq(Rows) /\ Len(Entries(n)) = 2
           /\ Entries(n)[1] = <<n, "user">> /\ Entries(n)[2] = <<n, "assistant">>
           /\ <<<<n, "assistant">>>> \in Seq(Rows) /\ << >> \in Seq(Rows)
BY DEF Entries, Rows

\* What update() adds depends on how many rows there are by now.
LEMMA RowsAdded ==
    ASSUME ChatTypes, NEW c \in ChatCalls, chatCall[c].n \in ChatIds,
           chatCall[c].loaded <= Len(talk)
    PROVE  /\ RowsToAdd(c) \in Seq(Rows) /\ RowsToAdd(c) \in RowsOf(chatCall[c].n)
           /\ chatCall[c].loaded = Len(talk) => RowsToAdd(c) = Entries(chatCall[c].n)
<1> DEFINE n == chatCall[c].n
           k == chatCall[c].loaded
           start == [i \in 1..k |-> talk[i]]
           known == start \o Entries(n)
           l == Len(talk)
<1>1. k \in Nat /\ l \in Nat /\ k <= l /\ n \in ChatIds /\ talk \in Seq(Rows)
  BY LenProperties DEF ChatTypes, ChatRecords
<1>2. start \in Seq(Rows) /\ Len(start) = k
  <2>1. \A i \in 1..k : talk[i] \in Rows
    BY <1>1, ElementOfSeq
  <2> HIDE DEF k
  <2> QED
    BY <1>1, <2>1
<1> DEFINE new == Entries(n)
<1>2a. new \in Seq(Rows) /\ Len(new) = 2 /\ new[1] = <<n, "user">> /\ new[2] = <<n, "assistant">>
  BY <1>1, EntriesOf
<1> HIDE DEF n, k, start, new
<1>2b. known = start \o new
  BY DEF new
<1>3. known \in Seq(Rows) /\ Len(known) = k + 2
  <2>0. start \in Seq(Rows) /\ new \in Seq(Rows)
    BY <1>2, <1>2a
  <2>1. /\ start \o new \in Seq(Rows)
        /\ Len(start \o new) = Len(start) + Len(new)
    BY ONLY <2>0, ConcatProperties
  <2> HIDE DEF known
  <2> QED
    BY <1>1, <1>2, <1>2a, <1>2b, <2>1
<1>4. known[k + 1] = <<n, "user">> /\ known[k + 2] = <<n, "assistant">>
  <2>1. \A i \in 1..(k + 2) : known[i] = IF i <= k THEN start[i] ELSE new[i - k]
    BY <1>1, <1>2, <1>2a, <1>2b, ConcatProperties
  <2>2. /\ k + 1 \in 1..(k + 2) /\ k + 2 \in 1..(k + 2) /\ (k + 1) - k = 1 /\ (k + 2) - k = 2
        /\ ~(k + 1 <= k) /\ ~(k + 2 <= k)
    BY <1>1
  <2> HIDE DEF known
  <2>3. known[k + 1] = new[1] /\ known[k + 2] = new[2]
    BY <2>1, <2>2
  <2> QED
    BY <1>2a, <2>3
<1>5. RowsToAdd(c) = SubSeq(known, l + 1, k + 2)
  BY <1>3 DEF RowsToAdd, n, k, start
<1> HIDE DEF known, l
<1>6. \A i \in (l + 1)..(k + 2) : known[i] \in Rows
  <2>1. \A i \in (l + 1)..(k + 2) : i \in 1..Len(known)
    BY <1>1, <1>3
  <2> QED
    BY <1>3, <2>1, ElementOfSeq
<1> DEFINE sub == SubSeq(known, l + 1, k + 2)
<1>7. /\ sub \in Seq(Rows)
      /\ Len(sub) = IF l + 1 <= k + 2 THEN (k + 2) - (l + 1) + 1 ELSE 0
      /\ \A i \in 1..((k + 2) - (l + 1) + 1) : sub[i] = known[(l + 1) + i - 1]
  <2>1. l + 1 \in Int /\ k + 2 \in Int
    BY <1>1
  <2> QED
    BY <1>6, <2>1, SubSeqProperties
<1> HIDE DEF sub
<1>8. CASE k = l
  <2>1. Len(sub) = 2 /\ sub[1] = <<n, "user">> /\ sub[2] = <<n, "assistant">>
    BY <1>1, <1>4, <1>7, <1>8
  <2>2. \A i \in 1..2 : sub[i] = new[i]
    <3>1. \A i \in 1..2 : i = 1 \/ i = 2
      OBVIOUS
    <3> QED
      BY <1>2a, <2>1, <3>1
  <2>3. sub = new
    BY <1>2a, <1>7, <2>1, <2>2, SeqEqual
  <2> QED
    BY <1>5, <1>7, <2>3 DEF sub, new, RowsOf, n, k, l
<1>9. CASE k + 1 = l
  <2>1. Len(sub) = 1 /\ sub[1] = <<n, "assistant">>
    BY <1>1, <1>4, <1>7, <1>9
  <2>2. sub = <<<<n, "assistant">>>>
    <3> DEFINE one == <<<<n, "assistant">>>>
    <3>1. one \in Seq(Rows) /\ Len(one) = 1 /\ one[1] = <<n, "assistant">>
      BY <1>1, EntriesOf
    <3> HIDE DEF one
    <3>2. \A i \in 1..Len(sub) : sub[i] = one[i]
      BY <2>1, <3>1
    <3>3. sub = one
      BY <1>7, <2>1, <3>1, <3>2, SeqEqual
    <3> QED
      BY <3>3 DEF one
  <2>3. k # l
    BY <1>1, <1>9
  <2> QED
    BY <1>5, <1>7, <2>2, <2>3 DEF sub, RowsOf, n, k, l
<1>10. CASE k + 1 < l
  <2>1. Len(sub) = 0 /\ k # l
    BY <1>1, <1>7, <1>10
  <2>2. sub = << >>
    BY <1>7, <2>1
  <2> QED
    BY <1>5, <1>7, <2>1, <2>2 DEF sub, RowsOf, n, k, l
<1> QED
  BY <1>1, <1>8, <1>9, <1>10

-----------------------------------------------------------------------------
(* Counting the calls of a counter *)

\* A set of calls gains or loses one call.
LEMMA OneCall ==
    ASSUME NEW S, NEW T, NEW c, IsFiniteSet(S), T \ {c} = S \ {c}
    PROVE  /\ IsFiniteSet(T) /\ Cardinality(S) \in Nat /\ Cardinality(T) \in Nat
           /\ (c \in S <=> c \in T) => Cardinality(T) = Cardinality(S)
           /\ c \notin S /\ c \in T => Cardinality(T) = Cardinality(S) + 1
           /\ c \in S /\ c \notin T => Cardinality(S) = Cardinality(T) + 1
<1>1. IsFiniteSet(T)
  <2>1. T = S \/ T = S \cup {c} \/ T = S \ {c}
    OBVIOUS
  <2> QED
    BY <2>1, FS_AddElement, FS_RemoveElement
<1>2. Cardinality(S) \in Nat /\ Cardinality(T) \in Nat
  BY <1>1, FS_CardinalityType
<1>3. CASE c \in S <=> c \in T
  <2>1. S = T
    BY <1>3
  <2> QED
    BY <1>1, <1>2, <2>1
<1>4. CASE c \notin S /\ c \in T
  <2>1. T = S \cup {c}
    BY <1>4
  <2>2. Cardinality(T) = Cardinality(S) + 1
    BY <1>4, <2>1, FS_AddElement
  <2> QED
    BY <1>1, <1>2, <1>4, <2>2
<1>5. CASE c \in S /\ c \notin T
  <2>1. S = T \cup {c}
    BY <1>5
  <2>2. Cardinality(S) = Cardinality(T) + 1
    BY <1>1, <1>5, <2>1, FS_AddElement
  <2> QED
    BY <1>1, <1>2, <1>5, <2>2
<1> QED
  BY <1>3, <1>4, <1>5

\* Calls under way are finitely many, and fewer than the slots while one is not.
LEMMA FewCalls ==
    ASSUME NEW s
    PROVE  /\ IsFiniteSet(Uncalled(s)) /\ IsFiniteSet(UnderWay(s))
           /\ Cardinality(Uncalled(s)) \in Nat /\ Cardinality(UnderWay(s)) \in Nat
           /\ Cardinality(ChatCalls) \in Nat
           /\ Cardinality(Uncalled(s)) <= Cardinality(UnderWay(s))
           /\ \A c \in ChatCalls \ UnderWay(s) :
                Cardinality(UnderWay(s)) + 1 <= Cardinality(ChatCalls)
<1>1. UnderWay(s) \in SUBSET ChatCalls /\ Uncalled(s) \in SUBSET UnderWay(s)
  BY DEF UnderWay, Uncalled
<1>2. IsFiniteSet(UnderWay(s)) /\ IsFiniteSet(ChatCalls)
  BY <1>1, ChatAssumption, FS_Subset
<1>3. IsFiniteSet(Uncalled(s)) /\ Cardinality(Uncalled(s)) <= Cardinality(UnderWay(s))
  BY <1>1, <1>2, FS_Subset
<1>4. ASSUME NEW c \in ChatCalls \ UnderWay(s)
      PROVE  Cardinality(UnderWay(s)) + 1 <= Cardinality(ChatCalls)
  <2>1. UnderWay(s) \cup {c} \in SUBSET ChatCalls
    BY <1>1
  <2>2. Cardinality(UnderWay(s) \cup {c}) = Cardinality(UnderWay(s)) + 1
    BY <1>2, <1>4, FS_AddElement
  <2>3. Cardinality(UnderWay(s) \cup {c}) <= Cardinality(ChatCalls)
    BY <1>2, <2>1, FS_Subset
  <2> QED
    BY <2>2, <2>3
<1> QED
  BY <1>2, <1>3, <1>4, FS_CardinalityType

\* The counts after a step of one call.
LEMMA Moves ==
    ASSUME ChatTypes, NEW c \in ChatCalls, NEW r,
           chatCall' = [chatCall EXCEPT ![c] = r], adapter' = adapter, NEW s
    PROVE  /\ Uncalled(s)' \ {c} = Uncalled(s) \ {c} /\ UnderWay(s)' \ {c} = UnderWay(s) \ {c}
           /\ c \in Uncalled(s)' <=> r.pc \in {"answered", "flushed"} /\ StoreOf(r.replica) = s
           /\ c \in UnderWay(s)' <=>
                /\ r.pc \in {"quota", "loaded", "reason", "tools", "answered", "flushed"}
                /\ StoreOf(r.replica) = s
<1>1. chatCall'[c] = r /\ \A d \in ChatCalls \ {c} : chatCall'[d] = chatCall[d]
  BY DEF ChatTypes
<1>2. StoreOf(chatCall[c].replica)' = StoreOf(r.replica)
  BY <1>1 DEF StoreOf
<1>3. \A d \in ChatCalls \ {c} : CounterOf(d)' = CounterOf(d)
  BY <1>1 DEF StoreOf, CounterOf
<1>4. CounterOf(c)' = StoreOf(r.replica)
  BY <1>1 DEF StoreOf, CounterOf
<1> QED
  BY <1>1, <1>3, <1>4 DEF Uncalled, UnderWay

-----------------------------------------------------------------------------
(* Frames of a step *)

LEMMA NoCall ==
    /\ NoChatCall \in ChatRecords /\ NoChatCall.pc = "idle" /\ NoChatCall.replica = "none"
    /\ \A pc \in ChatSteps : pc # "idle" => NoChatCall.pc # pc
<1>1. << >> \in Seq(Rows)
  OBVIOUS
<1> QED
  BY <1>1 DEF NoChatCall, ChatRecords, ChatSteps

\* A step of one call that leaves a typed record keeps the types.
LEMMA KeepsChatTypes ==
    ASSUME ChatTypes, NEW c \in ChatCalls, NEW r \in ChatRecords,
           chatCall' = [chatCall EXCEPT ![c] = r],
           r.pc # "idle" => r.replica \in Replicas /\ r.n \in 1..chats',
           chats' \in 0..MaxChats, chats <= chats',
           usage' \in [Stores -> Nat], served' \in [Stores -> Nat], talk' \in Seq(Rows),
           recorded' \subseteq [n : 1..chats', overlapped : BOOLEAN]
    PROVE  ChatTypes'
<1>1. chats \in Nat /\ chats' \in Nat
  BY ChatAssumption DEF ChatTypes
<1>2. chatCall' \in [ChatCalls -> ChatRecords]
  BY DEF ChatTypes
<1>3. \A d \in ChatCalls : InHand(d)' =>
        chatCall'[d].replica \in Replicas /\ chatCall'[d].n \in 1..chats'
  BY <1>1 DEF ChatTypes, InHand
<1> QED
  BY <1>2, <1>3 DEF ChatTypes

\* The history, when a call goes on with what it has loaded.
LEMMA HistoryGoesOn ==
    ASSUME ChatTypes, History, NEW c \in ChatCalls, NEW r,
           chatCall' = [chatCall EXCEPT ![c] = r], UNCHANGED <<talk, recorded>>,
           Loaded(c), r.pc \notin {"idle", "quota"}, r.n = chatCall[c].n,
           r.loaded = chatCall[c].loaded, r.overlapped = chatCall[c].overlapped,
           r.pc \in {"flushed", "counted", "cached"} =>
             /\ r.adds \in RowsOf(r.n)
             /\ ~r.overlapped => r.adds = Entries(r.n)
    PROVE  History'
<1>1. chatCall'[c] = r /\ \A d \in ChatCalls \ {c} : chatCall'[d] = chatCall[d]
  BY DEF ChatTypes
<1>2. \A d \in ChatCalls :
        /\ InHand(d)' <=> InHand(d)
        /\ Loaded(d)' <=> Loaded(d)
        /\ chatCall'[d].n = chatCall[d].n /\ chatCall'[d].loaded = chatCall[d].loaded
        /\ chatCall'[d].overlapped = chatCall[d].overlapped
        /\ d # c => (HasRows(d)' <=> HasRows(d)) /\ chatCall'[d].adds = chatCall[d].adds
  BY <1>1 DEF InHand, Loaded, HasRows
<1>3. HasRows(c)' => /\ chatCall'[c].adds \in RowsOf(chatCall[c].n)
                     /\ ~chatCall[c].overlapped => chatCall'[c].adds = Entries(chatCall[c].n)
  BY <1>1 DEF HasRows
<1>4. Numbered'
  BY <1>2 DEF History, Numbered
<1>5. TalkIsKept'
  BY DEF History, TalkIsKept
<1>6. CallsAreApart'
  BY <1>2, <1>3 DEF History, CallsAreApart
<1> QED
  BY <1>4, <1>5, <1>6 DEF History

\* The history, when a call ends without a commit.
LEMMA HistoryEnds ==
    ASSUME ChatTypes, History, NEW c \in ChatCalls, EndChat(c), UNCHANGED <<talk, recorded>>
    PROVE  History'
<1>1. chatCall'[c] = NoChatCall /\ \A d \in ChatCalls \ {c} : chatCall'[d] = chatCall[d]
  BY DEF ChatTypes, EndChat
<1>2. /\ ~InHand(c)' /\ ~Loaded(c)' /\ ~HasRows(c)'
      /\ \A d \in ChatCalls \ {c} :
           (InHand(d)' <=> InHand(d)) /\ (Loaded(d)' <=> Loaded(d)) /\ (HasRows(d)' <=> HasRows(d))
  BY <1>1, NoCall DEF InHand, Loaded, HasRows
<1>3. Numbered'
  BY <1>1, <1>2 DEF History, Numbered
<1>4. TalkIsKept'
  BY DEF History, TalkIsKept
<1>5. CallsAreApart'
  BY <1>1, <1>2 DEF History, CallsAreApart
<1> QED
  BY <1>3, <1>4, <1>5 DEF History

\* The counters, when the class of the call does not change and no counter does.
LEMMA CountsStay ==
    ASSUME ChatTypes, NEW c \in ChatCalls, NEW r,
           chatCall' = [chatCall EXCEPT ![c] = r], adapter' = adapter,
           UNCHANGED <<usage, served, uncounted>>,
           r.pc \in {"answered", "flushed"} <=> chatCall[c].pc \in {"answered", "flushed"},
           LET under == {"quota", "loaded", "reason", "tools"}
           IN  r.pc \in under <=> chatCall[c].pc \in under,
           r.replica = chatCall[c].replica \/ r.pc \in {"idle", "counted", "cached"},
           NEW s \in Stores, Counts(s)
    PROVE  Counts(s)'
<1>1. Uncalled(s)' = Uncalled(s) /\ UnderWay(s)' = UnderWay(s)
  <2>1. /\ Uncalled(s)' \ {c} = Uncalled(s) \ {c} /\ UnderWay(s)' \ {c} = UnderWay(s) \ {c}
        /\ c \in Uncalled(s)' <=> r.pc \in {"answered", "flushed"} /\ StoreOf(r.replica) = s
        /\ c \in UnderWay(s)' <=>
             /\ r.pc \in {"quota", "loaded", "reason", "tools", "answered", "flushed"}
             /\ StoreOf(r.replica) = s
    BY Moves
  <2>2. /\ c \in Uncalled(s)' <=> c \in Uncalled(s)
        /\ c \in UnderWay(s)' <=> c \in UnderWay(s)
    BY <2>1 DEF Uncalled, UnderWay, CounterOf
  <2> QED
    BY <2>1, <2>2
<1> QED
  BY <1>1 DEF Counts

-----------------------------------------------------------------------------
(* Each step keeps the invariant *)

\* A message is let in below the limit: with it, there is still one call fewer under
\* way than the bound allows.
LEMMA QuotaKeeps ==
    ASSUME ChatInv, adapter' = adapter, NEW c \in ChatCalls, NEW p \in Replicas,
           NEW text \in Texts, CheckQuota(c, p, text)
    PROVE  ChatInv'
<1> DEFINE new == [NoChatCall EXCEPT !.pc = "quota", !.n = chats + 1, !.text = text,
                                     !.replica = p]
<1>1. /\ ChatTypes /\ History /\ ~InHand(c) /\ chats' = chats + 1
      /\ chats' \in 1..MaxChats /\ chats \in Nat /\ chats' \in ChatIds
      /\ UNCHANGED <<usage, served, talk, recorded>>
      /\ p \in Replicas /\ StoreOf(p) \in Stores
  BY ChatAssumption DEF ChatInv, CheckQuota, ChatTypes, ChatAt, InHand, ChatIds, StoreOf, Stores
<1>2. recorded' \subseteq [n : 1..chats', overlapped : BOOLEAN]
  BY <1>1 DEF ChatTypes
<1>3. CASE ~WithinQuota(StoreOf(p))
  <2>1. chatCall' = chatCall /\ uncounted \subseteq uncounted'
    BY <1>3 DEF CheckQuota
  <2>2. ChatTypes'
    BY <1>1, <1>2, <2>1 DEF ChatTypes, InHand
  <2>3. \A s \in Stores : Uncalled(s)' = Uncalled(s) /\ UnderWay(s)' = UnderWay(s)
    BY <2>1 DEF Uncalled, UnderWay, CounterOf, StoreOf
  <2>4. \A s \in Stores : Counts(s)'
    BY <1>1, <2>1, <2>3 DEF ChatInv, Counts
  <2>5. History'
    BY <1>1, <2>1 DEF History, Numbered, TalkIsKept, CallsAreApart, InHand, Loaded, HasRows
  <2> QED
    BY <2>2, <2>4, <2>5 DEF ChatInv
<1>4. CASE WithinQuota(StoreOf(p))
  <2>1. /\ new \in ChatRecords /\ new.pc = "quota" /\ new.n = chats' /\ new.replica = p
        /\ chatCall' = [chatCall EXCEPT ![c] = new]
    <3>1. << >> \in Seq(Rows)
      OBVIOUS
    <3> QED
      BY <1>1, <1>4, <3>1 DEF NoChatCall, ChatRecords, ChatSteps, CheckQuota
  <2> HIDE DEF new
  <2>2. ChatTypes'
    <3>1. chats' \in 0..MaxChats /\ chats <= chats' /\ chats' \in 1..chats'
      BY <1>1
    <3>2. /\ usage' \in [Stores -> Nat] /\ served' \in [Stores -> Nat] /\ talk' \in Seq(Rows)
      BY <1>1 DEF ChatTypes
    <3> QED
      BY <1>1, <1>2, <2>1, <3>1, <3>2, KeepsChatTypes
  <2>3. chatCall'[c] = new /\ \A d \in ChatCalls \ {c} : chatCall'[d] = chatCall[d]
    BY <1>1, <2>1 DEF ChatTypes
  <2>4. \A d \in ChatCalls \ {c} :
          (InHand(d)' <=> InHand(d)) /\ (Loaded(d)' <=> Loaded(d)) /\ (HasRows(d)' <=> HasRows(d))
    BY <2>3 DEF InHand, Loaded, HasRows
  <2>5. /\ ~Loaded(c)' /\ ~HasRows(c)'
        /\ \A d \in ChatCalls : InHand(d) => chatCall[d].n # chats'
        /\ \A x \in recorded : x.n # chats'
    BY <1>1, <2>1, <2>3 DEF ChatTypes, Loaded, HasRows
  <2>6. Numbered'
    BY <1>1, <2>1, <2>3, <2>4, <2>5 DEF History, Numbered
  <2>7. TalkIsKept' /\ CallsAreApart'
    BY <1>1, <2>3, <2>4, <2>5 DEF History, TalkIsKept, CallsAreApart
  <2>8. ASSUME NEW s \in Stores, s \notin uncounted' PROVE Counts(s)'
    <3>1. s \notin uncounted /\ Counts(s) /\ (s = StoreOf(p) => usage[s] < PlanLimit)
      BY <1>4, <2>8 DEF ChatInv, CheckQuota, WithinQuota
    <3>2. /\ Uncalled(s)' \ {c} = Uncalled(s) \ {c} /\ UnderWay(s)' \ {c} = UnderWay(s) \ {c}
          /\ c \notin Uncalled(s)' /\ (c \in UnderWay(s)' <=> StoreOf(p) = s)
      BY <1>1, <2>1, Moves
    <3>3. c \notin Uncalled(s) /\ c \notin UnderWay(s)
      BY <1>1 DEF Uncalled, UnderWay, InHand
    <3>4. Uncalled(s)' = Uncalled(s)
      BY <3>2, <3>3
    <3>5. /\ Cardinality(UnderWay(s)) \in Nat /\ Cardinality(ChatCalls) \in Nat
          /\ Cardinality(UnderWay(s)) + 1 <= Cardinality(ChatCalls)
          /\ usage[s] \in Nat /\ PlanLimit \in Nat
      BY <1>1, <3>3, FewCalls, ChatAssumption DEF ChatTypes
    <3>6. Cardinality(UnderWay(s)') = IF StoreOf(p) = s THEN Cardinality(UnderWay(s)) + 1
                                      ELSE Cardinality(UnderWay(s))
      BY <3>2, <3>3, FewCalls, OneCall
    <3>7. usage[s] + Cardinality(UnderWay(s)') <= PlanLimit + Cardinality(ChatCalls) - 1
      BY <3>1, <3>5, <3>6, <2>8 DEF Counts
    <3> QED
      BY <1>1, <3>1, <3>4, <3>7 DEF Counts
  <2> QED
    BY <2>2, <2>6, <2>7, <2>8 DEF ChatInv, History, Counts
<1> QED
  BY <1>3, <1>4

\* A message loads the conversation: it and whoever is past its load overlap.
LEMMA LoadKeeps ==
    ASSUME ChatInv, adapter' = adapter, NEW c \in ChatCalls, LoadConversation(c)
    PROVE  ChatInv'
<1> DEFINE others == {d \in ChatCalls \ {c} : Loaded(d)}
           new(d) == IF d = c THEN [chatCall[c] EXCEPT !.pc = "loaded", !.loaded = Len(talk),
                                                       !.overlapped = others # {}]
                     ELSE IF d \in others THEN [chatCall[d] EXCEPT !.overlapped = TRUE]
                     ELSE chatCall[d]
<1>1. /\ ChatTypes /\ History /\ chatCall[c].pc = "quota" /\ Len(talk) \in Nat
      /\ UNCHANGED <<usage, chatCache, talk, chats, served, uncounted, recorded>>
  BY LenProperties DEF ChatInv, LoadConversation, ChatAt, ChatTypes
<1>2. chatCall' = [d \in ChatCalls |-> new(d)]
  BY DEF LoadConversation, Loaded
<1>3. ASSUME NEW d \in ChatCalls
      PROVE  /\ new(d) \in ChatRecords /\ new(d).n = chatCall[d].n
             /\ new(d).replica = chatCall[d].replica /\ new(d).adds = chatCall[d].adds
             /\ new(d).pc = IF d = c THEN "loaded" ELSE chatCall[d].pc
             /\ new(d).loaded = IF d = c THEN Len(talk) ELSE chatCall[d].loaded
             /\ new(d).overlapped = IF d = c THEN others # {}
                                    ELSE (d \in others \/ chatCall[d].overlapped)
  <2>1. chatCall[d] \in ChatRecords /\ "loaded" \in ChatSteps
    BY <1>1 DEF ChatTypes, ChatSteps
  <2> HIDE DEF others
  <2> QED
    BY <1>1, <2>1 DEF ChatRecords
<1> HIDE DEF new
<1>4. \A d \in ChatCalls :
        /\ chatCall'[d] = new(d)
        /\ InHand(d)' <=> InHand(d)
        /\ Loaded(d)' <=> Loaded(d) \/ d = c
        /\ HasRows(d)' <=> HasRows(d)
        /\ ~HasRows(c) /\ ~Loaded(c)
  BY <1>1, <1>2, <1>3 DEF InHand, Loaded, HasRows
<1>5. ChatTypes'
  BY <1>1, <1>2, <1>3, <1>4 DEF ChatTypes
<1>6. ASSUME NEW s \in Stores PROVE Counts(s)'
  <2>1. \A d \in ChatCalls : CounterOf(d)' = CounterOf(d)
    BY <1>3, <1>4 DEF CounterOf, StoreOf
  <2>2. Uncalled(s)' = Uncalled(s) /\ UnderWay(s)' = UnderWay(s)
    BY <1>1, <1>3, <1>4, <2>1 DEF Uncalled, UnderWay
  <2> QED
    BY <1>1, <2>2 DEF ChatInv, Counts
<1>7. Numbered'
  BY <1>1, <1>3, <1>4 DEF History, Numbered
<1>8. TalkIsKept'
  BY <1>1 DEF History, TalkIsKept
<1>9. CallsAreApart'
  <2> SUFFICES ASSUME NEW d \in ChatCalls
               PROVE  /\ Loaded(d)' => chatCall'[d].loaded <= Len(talk)
                      /\ HasRows(d)' => chatCall'[d].adds \in RowsOf(chatCall'[d].n)
                      /\ Loaded(d)' /\ ~chatCall'[d].overlapped =>
                           /\ chatCall'[d].loaded = Len(talk)
                           /\ \A e \in ChatCalls : Loaded(e)' => e = d
                           /\ HasRows(d)' => chatCall'[d].adds = Entries(chatCall'[d].n)
    BY <1>1 DEF CallsAreApart
  <2>1. CASE d = c
    <3>1. ~HasRows(d)' /\ chatCall'[d].loaded = Len(talk)
      BY <1>3, <1>4, <2>1
    <3>2. ~chatCall'[d].overlapped => \A e \in ChatCalls : Loaded(e)' => e = d
      BY <1>3, <1>4, <2>1
    <3> QED
      BY <1>1, <3>1, <3>2
  <2>2. CASE d # c
    <3>1. Loaded(d)' => chatCall'[d].overlapped
      BY <1>3, <1>4, <2>2
    <3>2. /\ chatCall'[d].loaded = chatCall[d].loaded /\ chatCall'[d].n = chatCall[d].n
          /\ chatCall'[d].adds = chatCall[d].adds
          /\ (Loaded(d)' <=> Loaded(d)) /\ (HasRows(d)' <=> HasRows(d))
      BY <1>3, <1>4, <2>2
    <3> QED
      BY <1>1, <3>1, <3>2 DEF History, CallsAreApart
  <2> QED
    BY <2>1, <2>2
<1> QED
  BY <1>5, <1>6, <1>7, <1>8, <1>9 DEF ChatInv, History

\* A message goes on and has no answer yet, or none that is new.
LEMMA GoingKeeps ==
    ASSUME ChatInv, adapter' = adapter, NEW c \in ChatCalls, NEW r \in ChatRecords,
           chatCall' = [chatCall EXCEPT ![c] = r],
           UNCHANGED <<usage, talk, chats, served, uncounted, recorded>>,
           Loaded(c), r.pc \notin {"idle", "quota"}, r.n = chatCall[c].n,
           r.loaded = chatCall[c].loaded, r.overlapped = chatCall[c].overlapped,
           r.replica = chatCall[c].replica,
           r.pc \in {"flushed", "counted", "cached"} =>
             /\ r.adds \in RowsOf(r.n)
             /\ ~r.overlapped => r.adds = Entries(r.n),
           r.pc \in {"answered", "flushed"} <=> chatCall[c].pc \in {"answered", "flushed"},
           r.pc \in {"quota", "loaded", "reason", "tools"}
             <=> chatCall[c].pc \in {"quota", "loaded", "reason", "tools"}
    PROVE  ChatInv'
<1>1. ChatTypes /\ History /\ InHand(c)
  BY DEF ChatInv, InHand, Loaded
<1>2. ChatTypes'
  <2>1. r.replica \in Replicas /\ r.n \in 1..chats' /\ chats' \in 0..MaxChats /\ chats <= chats'
    BY <1>1 DEF ChatTypes
  <2>2. /\ usage' \in [Stores -> Nat] /\ served' \in [Stores -> Nat] /\ talk' \in Seq(Rows)
        /\ recorded' \subseteq [n : 1..chats', overlapped : BOOLEAN]
    BY <1>1 DEF ChatTypes
  <2> QED
    BY <1>1, <2>1, <2>2, KeepsChatTypes
<1>3. \A s \in Stores : Counts(s)'
  BY <1>1, CountsStay DEF ChatInv
<1>4. History'
  BY <1>1, HistoryGoesOn
<1> QED
  BY <1>2, <1>3, <1>4 DEF ChatInv

\* An answer is computed: it is uncalled, and was under way.
LEMMA AnsweredKeeps ==
    ASSUME ChatInv, adapter' = adapter, NEW c \in ChatCalls,
           chatCall[c].pc \in {"loaded", "reason"}, Answered(c),
           UNCHANGED <<usage, talk, chats, uncounted, recorded>>
    PROVE  ChatInv'
<1> DEFINE r == [chatCall[c] EXCEPT !.pc = "answered"]
           q == CounterOf(c)
<1>1. ChatTypes /\ History /\ InHand(c) /\ Loaded(c)
  BY DEF ChatInv, InHand, Loaded
<1>2. /\ r \in ChatRecords /\ r.pc = "answered" /\ r.n = chatCall[c].n
      /\ r.loaded = chatCall[c].loaded /\ r.overlapped = chatCall[c].overlapped
      /\ r.replica = chatCall[c].replica /\ chatCall' = [chatCall EXCEPT ![c] = r]
  BY <1>1 DEF ChatTypes, ChatRecords, ChatSteps, Answered, Goto
<1> HIDE DEF r
<1>3. q \in Stores /\ served' = [served EXCEPT ![q] = served[q] + 1] /\ served[q] + 1 \in Nat
  BY <1>1 DEF ChatTypes, InHand, CounterOf, StoreOf, Stores, Answered
<1>4. served' \in [Stores -> Nat] /\ \A s \in Stores :
        served'[s] = IF s = q THEN served[s] + 1 ELSE served[s]
  <2> HIDE DEF q
  <2>1. served' = [s \in Stores |-> IF s = q THEN served[q] + 1 ELSE served[s]]
    BY <1>1, <1>3 DEF ChatTypes
  <2> QED
    BY <1>1, <1>3, <2>1 DEF ChatTypes
<1>5. ChatTypes'
  <2>1. r.replica \in Replicas /\ r.n \in 1..chats' /\ chats' \in 0..MaxChats /\ chats <= chats'
    BY <1>1, <1>2 DEF ChatTypes
  <2>2. /\ usage' \in [Stores -> Nat] /\ talk' \in Seq(Rows)
        /\ recorded' \subseteq [n : 1..chats', overlapped : BOOLEAN]
    BY <1>1 DEF ChatTypes
  <2> QED
    BY <1>1, <1>2, <1>4, <2>1, <2>2, KeepsChatTypes
<1>6. ASSUME NEW s \in Stores, s \notin uncounted' PROVE Counts(s)'
  <2>1. s \notin uncounted /\ Counts(s)
    BY <1>6 DEF ChatInv
  <2>2. /\ Uncalled(s)' \ {c} = Uncalled(s) \ {c} /\ UnderWay(s)' \ {c} = UnderWay(s) \ {c}
        /\ (c \in Uncalled(s)' <=> q = s) /\ (c \in UnderWay(s)' <=> q = s)
    BY <1>1, <1>2, Moves DEF CounterOf
  <2>3. c \notin Uncalled(s) /\ (c \in UnderWay(s) <=> q = s)
    BY DEF Uncalled, UnderWay
  <2>4. UnderWay(s)' = UnderWay(s)
    BY <2>2, <2>3
  <2>5. /\ Cardinality(Uncalled(s)) \in Nat /\ served[s] \in Nat /\ usage[s] \in Nat
        /\ Cardinality(Uncalled(s)') = IF q = s THEN Cardinality(Uncalled(s)) + 1
                                       ELSE Cardinality(Uncalled(s))
    BY <1>1, <2>2, <2>3, FewCalls, OneCall DEF ChatTypes
  <2>6. served'[s] = usage[s] + Cardinality(Uncalled(s)')
    BY <1>4, <2>1, <2>5, <1>6 DEF Counts
  <2> QED
    BY <2>1, <2>4, <2>6 DEF Counts
<1>7. History'
  BY <1>1, <1>2, HistoryGoesOn
<1> QED
  BY <1>5, <1>6, <1>7 DEF ChatInv, Counts

LEMMA MissKeeps ==
    ASSUME ChatInv, adapter' = adapter, NEW c \in ChatCalls, MissCache(c)
    PROVE  ChatInv'
<1>1. chatCall[c] \in ChatRecords /\ chatCall[c].pc = "loaded" /\ Loaded(c)
  BY DEF ChatInv, ChatTypes, MissCache, ChatAt, Loaded
<1>2. CASE Answered(c)
  BY <1>1, <1>2, AnsweredKeeps DEF MissCache
<1>3. CASE Goto(c, "reason") /\ UNCHANGED served
  <2> DEFINE r == [chatCall[c] EXCEPT !.pc = "reason"]
  <2>1. /\ r \in ChatRecords /\ r.pc = "reason" /\ r.n = chatCall[c].n
        /\ r.loaded = chatCall[c].loaded /\ r.overlapped = chatCall[c].overlapped
        /\ r.replica = chatCall[c].replica /\ chatCall' = [chatCall EXCEPT ![c] = r]
    BY <1>1, <1>3 DEF ChatRecords, ChatSteps, Goto, ChatInv, ChatTypes
  <2> HIDE DEF r
  <2> QED
    BY <1>1, <1>3, <2>1, GoingKeeps DEF MissCache
<1> QED
  BY <1>2, <1>3 DEF MissCache

LEMMA ReasonKeeps ==
    ASSUME ChatInv, adapter' = adapter, NEW c \in ChatCalls, Reason(c) \/ RunTools(c)
    PROVE  ChatInv'
<1>1. chatCall[c] \in ChatRecords /\ chatCall[c].pc \in {"reason", "tools"} /\ Loaded(c)
  BY DEF ChatInv, ChatTypes, Reason, RunTools, ChatAt, Loaded
<1>2. CASE chatCall[c].pc = "reason" /\ Answered(c)
           /\ UNCHANGED <<usage, talk, chats, uncounted, recorded>>
  BY <1>1, <1>2, AnsweredKeeps
<1>3. ASSUME NEW r \in ChatRecords, r.pc \in {"reason", "tools"}, r.n = chatCall[c].n,
             r.loaded = chatCall[c].loaded, r.overlapped = chatCall[c].overlapped,
             r.replica = chatCall[c].replica, chatCall' = [chatCall EXCEPT ![c] = r],
             UNCHANGED <<usage, talk, chats, served, uncounted, recorded>>
      PROVE  ChatInv'
  BY <1>1, <1>3, GoingKeeps
<1>4. CASE RunTools(c)
  <2> DEFINE r == [chatCall[c] EXCEPT !.pc = "reason"]
  <2>1. /\ r \in ChatRecords /\ r.pc = "reason" /\ r.n = chatCall[c].n
        /\ r.loaded = chatCall[c].loaded /\ r.overlapped = chatCall[c].overlapped
        /\ r.replica = chatCall[c].replica /\ chatCall' = [chatCall EXCEPT ![c] = r]
    BY <1>1, <1>4 DEF ChatRecords, ChatSteps, Goto, RunTools, ChatInv, ChatTypes
  <2> HIDE DEF r
  <2> QED
    BY <1>3, <1>4, <2>1 DEF RunTools
<1>5. CASE Reason(c) /\ ~Answered(c)
  <2> DEFINE r == [chatCall[c] EXCEPT !.pc = "tools", !.turns = @ + 1]
  <2>1. /\ r \in ChatRecords /\ r.pc = "tools" /\ r.n = chatCall[c].n
        /\ r.loaded = chatCall[c].loaded /\ r.overlapped = chatCall[c].overlapped
        /\ r.replica = chatCall[c].replica
    <3> DEFINE more == chatCall[c].turns + 1
    <3>1. more \in Nat /\ "tools" \in ChatSteps
      BY <1>1 DEF ChatRecords, ChatSteps
    <3>2. r = [chatCall[c] EXCEPT !.pc = "tools", !.turns = more]
      OBVIOUS
    <3> HIDE DEF more, r
    <3> QED
      BY <1>1, <3>1, <3>2 DEF ChatRecords
  <2>2. chatCall' = [chatCall EXCEPT ![c] = r]
    BY <1>5 DEF Reason
  <2> HIDE DEF r
  <2> QED
    BY <1>3, <1>5, <2>1, <2>2 DEF Reason
<1> QED
  BY <1>2, <1>4, <1>5 DEF Reason, ChatAt

LEMMA UpdateKeeps ==
    ASSUME ChatInv, adapter' = adapter, NEW c \in ChatCalls, UpdateConversation(c)
    PROVE  ChatInv'
<1> DEFINE rows == RowsToAdd(c)
           r == [chatCall[c] EXCEPT !.pc = "flushed", !.adds = rows]
<1>1. /\ ChatTypes /\ chatCall[c] \in ChatRecords /\ chatCall[c].pc = "answered" /\ Loaded(c)
      /\ chatCall[c].n \in ChatIds
  BY ChatAssumption
     DEF ChatInv, ChatTypes, UpdateConversation, ChatAt, Loaded, InHand, ChatIds
<1>2. /\ chatCall[c].loaded <= Len(talk)
      /\ ~chatCall[c].overlapped => chatCall[c].loaded = Len(talk)
  BY <1>1 DEF ChatInv, History, CallsAreApart
<1>3. /\ rows \in Seq(Rows) /\ rows \in RowsOf(chatCall[c].n)
      /\ ~chatCall[c].overlapped => rows = Entries(chatCall[c].n)
  BY <1>1, <1>2, RowsAdded
<1>4. chatCall' = [chatCall EXCEPT ![c] = r]
  BY DEF UpdateConversation
<1> HIDE DEF rows
<1>5. /\ r \in ChatRecords /\ r.pc = "flushed" /\ r.n = chatCall[c].n
      /\ r.loaded = chatCall[c].loaded /\ r.overlapped = chatCall[c].overlapped
      /\ r.replica = chatCall[c].replica /\ r.adds = rows
  <2>1. "flushed" \in ChatSteps
    BY DEF ChatSteps
  <2> QED
    BY <1>1, <1>3, <2>1 DEF ChatRecords
<1> HIDE DEF r
<1> QED
  BY <1>1, <1>3, <1>4, <1>5, GoingKeeps DEF UpdateConversation

\* The counter hears of the answer, or is in doubt from now on.
LEMMA RecordKeeps ==
    ASSUME ChatInv, adapter' = adapter, NEW c \in ChatCalls, RecordRequest(c)
    PROVE  ChatInv'
<1> DEFINE r == [chatCall[c] EXCEPT !.pc = "counted"]
           q == CounterOf(c)
<1>1. /\ ChatTypes /\ History /\ InHand(c) /\ Loaded(c) /\ HasRows(c)
      /\ chatCall[c].pc = "flushed" /\ UNCHANGED <<talk, chats, served, recorded>>
  BY DEF ChatInv, InHand, Loaded, HasRows, RecordRequest, ChatAt
<1>2. /\ r \in ChatRecords /\ r.pc = "counted" /\ r.n = chatCall[c].n
      /\ r.loaded = chatCall[c].loaded /\ r.overlapped = chatCall[c].overlapped
      /\ r.replica = chatCall[c].replica /\ r.adds = chatCall[c].adds
      /\ chatCall' = [chatCall EXCEPT ![c] = r]
  BY <1>1 DEF ChatTypes, ChatRecords, ChatSteps, RecordRequest, Goto
<1> HIDE DEF r
<1>3. q \in Stores /\ usage[q] + 1 \in Nat
  BY <1>1 DEF ChatTypes, InHand, CounterOf, StoreOf, Stores
<1>4. /\ usage' \in [Stores -> Nat]
      /\ \A s \in Stores : s \notin uncounted' =>
           s \notin uncounted /\ usage'[s] = IF s = q THEN usage[s] + 1 ELSE usage[s]
  <2>1. IF CacheAnswers THEN usage' = [usage EXCEPT ![q] = usage[q] + 1] /\ uncounted' = uncounted
        ELSE usage' = usage /\ uncounted' = uncounted \cup {q}
    BY DEF RecordRequest
  <2> HIDE DEF q
  <2>2. [usage EXCEPT ![q] = usage[q] + 1] =
          [s \in Stores |-> IF s = q THEN usage[q] + 1 ELSE usage[s]]
    BY <1>1, <1>3 DEF ChatTypes
  <2> QED
    BY <1>1, <1>3, <2>1, <2>2 DEF ChatTypes
<1>5. ChatTypes'
  <2>1. r.replica \in Replicas /\ r.n \in 1..chats' /\ chats' \in 0..MaxChats /\ chats <= chats'
    BY <1>1, <1>2 DEF ChatTypes
  <2>2. /\ served' \in [Stores -> Nat] /\ talk' \in Seq(Rows)
        /\ recorded' \subseteq [n : 1..chats', overlapped : BOOLEAN]
    BY <1>1 DEF ChatTypes
  <2> QED
    BY <1>1, <1>2, <1>4, <2>1, <2>2, KeepsChatTypes
<1>6. ASSUME NEW s \in Stores, s \notin uncounted' PROVE Counts(s)'
  <2>1. s \notin uncounted /\ Counts(s)
    BY <1>4, <1>6 DEF ChatInv
  <2>2. /\ Uncalled(s)' \ {c} = Uncalled(s) \ {c} /\ UnderWay(s)' \ {c} = UnderWay(s) \ {c}
        /\ c \notin Uncalled(s)' /\ c \notin UnderWay(s)'
    BY <1>1, <1>2, Moves
  <2>3. (c \in Uncalled(s) <=> q = s) /\ (c \in UnderWay(s) <=> q = s)
    BY <1>1 DEF Uncalled, UnderWay
  <2>4. /\ Cardinality(Uncalled(s)) \in Nat /\ Cardinality(Uncalled(s)') \in Nat
        /\ Cardinality(Uncalled(s)) = IF q = s THEN Cardinality(Uncalled(s)') + 1
                                      ELSE Cardinality(Uncalled(s)')
    BY <2>2, <2>3, FewCalls, OneCall
  <2>5. /\ Cardinality(UnderWay(s)) \in Nat /\ Cardinality(UnderWay(s)') \in Nat
        /\ Cardinality(UnderWay(s)) = IF q = s THEN Cardinality(UnderWay(s)') + 1
                                      ELSE Cardinality(UnderWay(s)')
    BY <2>2, <2>3, FewCalls, OneCall
  <2>6. served[s] \in Nat /\ usage[s] \in Nat /\ served' = served
    BY <1>1 DEF ChatTypes
  <2>7. served'[s] = usage'[s] + Cardinality(Uncalled(s)')
    BY <1>4, <1>6, <2>1, <2>4, <2>6 DEF Counts
  <2>8. usage'[s] + Cardinality(UnderWay(s)') = usage[s] + Cardinality(UnderWay(s))
    BY <1>4, <1>6, <2>5, <2>6
  <2> QED
    BY <2>1, <2>7, <2>8 DEF Counts
<1>7. History'
  <2>1. r.adds \in RowsOf(r.n) /\ (~r.overlapped => r.adds = Entries(r.n))
    BY <1>1, <1>2 DEF History, CallsAreApart
  <2> QED
    BY <1>1, <1>2, <2>1, HistoryGoesOn
<1> QED
  BY <1>5, <1>6, <1>7 DEF ChatInv, Counts

LEMMA CachingKeeps ==
    ASSUME ChatInv, adapter' = adapter, NEW c \in ChatCalls, CacheAnswer(c)
    PROVE  ChatInv'
<1> DEFINE r == [chatCall[c] EXCEPT !.pc = "cached"]
<1>1. /\ ChatTypes /\ History /\ Loaded(c) /\ HasRows(c) /\ chatCall[c].pc = "counted"
  BY DEF ChatInv, Loaded, HasRows, CacheAnswer, ChatAt
<1>2. /\ r \in ChatRecords /\ r.pc = "cached" /\ r.n = chatCall[c].n
      /\ r.loaded = chatCall[c].loaded /\ r.overlapped = chatCall[c].overlapped
      /\ r.replica = chatCall[c].replica /\ r.adds = chatCall[c].adds
      /\ chatCall' = [chatCall EXCEPT ![c] = r]
  BY <1>1 DEF ChatTypes, ChatRecords, ChatSteps, CacheAnswer, Goto
<1> HIDE DEF r
<1>3. r.adds \in RowsOf(r.n) /\ (~r.overlapped => r.adds = Entries(r.n))
  BY <1>1, <1>2 DEF History, CallsAreApart
<1> QED
  BY <1>1, <1>2, <1>3, GoingKeeps DEF CacheAnswer

\* A call ends: what it had under way is under way no more, and an answer that the
\* counter has not heard of leaves the counter in doubt.
LEMMA EndingKeeps ==
    ASSUME ChatInv, adapter' = adapter, NEW c \in ChatCalls, EndChat(c),
           UNCHANGED <<usage, talk, chats, served, recorded>>,
           uncounted' = IF chatCall[c].pc \in {"answered", "flushed"}
                          THEN uncounted \cup {CounterOf(c)} ELSE uncounted
    PROVE  ChatInv'
<1>1. ChatTypes /\ History /\ chatCall' = [chatCall EXCEPT ![c] = NoChatCall]
  BY DEF ChatInv, EndChat
<1>2. ChatTypes'
  <2>1. /\ usage' \in [Stores -> Nat] /\ served' \in [Stores -> Nat] /\ talk' \in Seq(Rows)
        /\ chats' \in 0..MaxChats /\ chats <= chats'
        /\ recorded' \subseteq [n : 1..chats', overlapped : BOOLEAN]
    BY <1>1 DEF ChatTypes
  <2> QED
    BY <1>1, <2>1, NoCall, KeepsChatTypes
<1>3. ASSUME NEW s \in Stores, s \notin uncounted' PROVE Counts(s)'
  <2>1. s \notin uncounted /\ Counts(s) /\ c \notin Uncalled(s)
    BY <1>3 DEF ChatInv, Uncalled
  <2>2. /\ Uncalled(s)' \ {c} = Uncalled(s) \ {c} /\ UnderWay(s)' \ {c} = UnderWay(s) \ {c}
        /\ c \notin Uncalled(s)' /\ c \notin UnderWay(s)'
    BY <1>1, NoCall, Moves
  <2>3. Uncalled(s)' = Uncalled(s)
    BY <2>1, <2>2
  <2>4. UnderWay(s)' \in SUBSET UnderWay(s)
    BY <2>2
  <2>5. /\ Cardinality(UnderWay(s)') <= Cardinality(UnderWay(s))
        /\ Cardinality(UnderWay(s)') \in Nat /\ Cardinality(UnderWay(s)) \in Nat
    BY <2>2, <2>4, FewCalls, OneCall, FS_Subset
  <2>6. usage[s] \in Nat /\ PlanLimit \in Nat /\ Cardinality(ChatCalls) \in Nat
    BY <1>1, FewCalls, ChatAssumption DEF ChatTypes
  <2>7. usage[s] + Cardinality(UnderWay(s)') <= PlanLimit + Cardinality(ChatCalls) - 1
    BY <2>1, <2>5, <2>6 DEF Counts
  <2> QED
    BY <2>1, <2>3, <2>7 DEF Counts
<1>4. History'
  BY <1>1, HistoryEnds
<1> QED
  BY <1>2, <1>3, <1>4 DEF ChatInv, Counts

\* The rows a message adds are its own, in order and different.
LEMMA AddedRows ==
    ASSUME NEW n \in ChatIds, NEW a \in RowsOf(n)
    PROVE  /\ a \in Seq(Rows) /\ Len(a) \in 0..2
           /\ \A i \in 1..Len(a) : a[i][1] = n
           /\ \A i, j \in 1..Len(a) : a[i] = a[j] => i = j
<1>1. CASE a = Entries(n)
  <2>1. \A i \in 1..2 : i = 1 \/ i = 2
    OBVIOUS
  <2>2. <<n, "user">> # <<n, "assistant">> /\ <<n, "user">>[1] = n /\ <<n, "assistant">>[1] = n
    OBVIOUS
  <2>3. a \in Seq(Rows) /\ Len(a) = 2 /\ a[1] = <<n, "user">> /\ a[2] = <<n, "assistant">>
    BY <1>1, EntriesOf
  <2>4. a[1][1] = n /\ a[2][1] = n /\ a[1] # a[2]
    BY <2>2, <2>3
  <2> QED
    BY <2>1, <2>3, <2>4
<1>2. CASE a = <<<<n, "assistant">>>>
  <2> DEFINE row == <<n, "assistant">>
  <2>1. row \in Rows /\ row[1] = n
    BY DEF Rows
  <2> HIDE DEF row
  <2>2. <<row>> \in Seq(Rows) /\ Len(<<row>>) = 1 /\ <<row>>[1] = row
    BY <2>1
  <2>3. a = <<row>>
    BY <1>2 DEF row
  <2>4. \A i \in 1..1 : i = 1
    OBVIOUS
  <2> QED
    BY <2>1, <2>2, <2>3, <2>4
<1>3. CASE a = << >>
  <2>1. << >> \in Seq(Rows) /\ Len(<< >>) = 0
    OBVIOUS
  <2> QED
    BY <1>3, <2>1
<1> QED
  BY <1>1, <1>2, <1>3 DEF RowsOf

\* A message is committed: its rows are new, and all of them if it was alone.
LEMMA CommitKeeps ==
    ASSUME ChatInv, adapter' = adapter, NEW c \in ChatCalls, CommitChat(c)
    PROVE  ChatInv'
<1> DEFINE n == chatCall[c].n
           a == chatCall[c].adds
           l == Len(talk)
           rec == [n |-> n, overlapped |-> chatCall[c].overlapped]
<1>1. /\ ChatTypes /\ History /\ InHand(c) /\ Loaded(c) /\ HasRows(c)
      /\ chatCall[c].pc = "cached" /\ chatCall[c] \in ChatRecords
      /\ UNCHANGED <<usage, chats, served, uncounted>>
  BY DEF ChatInv, ChatTypes, CommitChat, ChatAt, InHand, Loaded, HasRows
<1>2. /\ n \in 1..chats /\ n \in ChatIds /\ chats \in Nat /\ chats \in 0..MaxChats
      /\ rec \in [n : 1..chats, overlapped : BOOLEAN]
      /\ talk \in Seq(Rows) /\ l \in Nat /\ DOMAIN talk = 1..l
  BY <1>1, ChatAssumption, LenProperties DEF ChatTypes, ChatIds, ChatRecords
<1>3. talk' = talk \o a /\ recorded' = recorded \cup {rec} /\ EndChat(c)
  BY DEF CommitChat
<1>4. /\ a \in Seq(Rows) /\ Len(a) \in 0..2
      /\ \A i \in 1..Len(a) : a[i][1] = n
      /\ \A i, j \in 1..Len(a) : a[i] = a[j] => i = j
      /\ ~chatCall[c].overlapped => a = Entries(n)
  <2>1. a \in RowsOf(n) /\ (~chatCall[c].overlapped => a = Entries(n))
    BY <1>1 DEF History, CallsAreApart
  <2> HIDE DEF a, n
  <2> QED
    BY <1>2, <2>1, AddedRows
<1> HIDE DEF n, a, l
<1>5. /\ talk' \in Seq(Rows) /\ Len(talk') = l + Len(a) /\ DOMAIN talk' = 1..(l + Len(a))
      /\ \A i \in 1..(l + Len(a)) : talk'[i] = IF i <= l THEN talk[i] ELSE a[i - l]
  <2>1. /\ talk \o a \in Seq(Rows) /\ Len(talk \o a) = Len(talk) + Len(a)
        /\ \A i \in 1..(Len(talk) + Len(a)) :
             (talk \o a)[i] = IF i <= Len(talk) THEN talk[i] ELSE a[i - Len(talk)]
    BY <1>2, <1>4, ConcatProperties
  <2> QED
    BY <1>3, <2>1, LenProperties DEF l
<1>6. chatCall'[c] = NoChatCall /\ \A d \in ChatCalls \ {c} : chatCall'[d] = chatCall[d]
  BY <1>1, <1>3 DEF ChatTypes, EndChat
<1>7. /\ ~InHand(c)' /\ ~Loaded(c)' /\ ~HasRows(c)'
      /\ \A d \in ChatCalls \ {c} :
           (InHand(d)' <=> InHand(d)) /\ (Loaded(d)' <=> Loaded(d)) /\ (HasRows(d)' <=> HasRows(d))
  BY <1>6, NoCall DEF InHand, Loaded, HasRows
<1>8. ChatTypes'
  <2>1. /\ usage' \in [Stores -> Nat] /\ served' \in [Stores -> Nat]
        /\ chats' \in 0..MaxChats /\ chats <= chats'
        /\ recorded' \subseteq [n : 1..chats', overlapped : BOOLEAN]
        /\ chatCall' = [chatCall EXCEPT ![c] = NoChatCall]
    BY <1>1, <1>2, <1>3 DEF ChatTypes, EndChat
  <2> QED
    BY <1>1, <1>5, <2>1, NoCall, KeepsChatTypes
<1>9. \A s \in Stores : Counts(s)'
  <2>1. chatCall' = [chatCall EXCEPT ![c] = NoChatCall]
    BY <1>3 DEF EndChat
  <2> QED
    BY <1>1, <2>1, NoCall, CountsStay DEF ChatInv
<1>10. /\ \A d \in ChatCalls : InHand(d) /\ d # c => chatCall[d].n # n
       /\ \A x \in recorded : x.n # n
       /\ \A i \in 1..l : talk[i][1] # n
  BY <1>1, <1>2 DEF History, Numbered, n
<1>11. Numbered'
  <2>1. \A i \in DOMAIN talk' : \E x \in recorded' : talk'[i][1] = x.n
    <3> SUFFICES ASSUME NEW i \in 1..(l + Len(a))
                 PROVE  \E x \in recorded' : talk'[i][1] = x.n
      BY <1>5
    <3>1. CASE i <= l
      <4>1. i \in 1..l /\ talk'[i] = talk[i]
        BY <1>2, <1>5, <3>1
      <4> QED
        BY <1>1, <1>2, <1>3, <4>1 DEF History, Numbered
    <3>2. CASE ~(i <= l)
      <4>1. i - l \in 1..Len(a) /\ talk'[i] = a[i - l]
        BY <1>2, <1>4, <1>5, <3>2
      <4>2. rec.n = n
        OBVIOUS
      <4> QED
        BY <1>3, <1>4, <4>1, <4>2
    <3> QED
      BY <3>1, <3>2
  <2>2. \A d, e \in ChatCalls :
          InHand(d)' /\ InHand(e)' /\ chatCall'[d].n = chatCall'[e].n => d = e
    BY <1>1, <1>6, <1>7 DEF History, Numbered
  <2>3. \A d \in ChatCalls, x \in recorded' : InHand(d)' => x.n # chatCall'[d].n
    BY <1>1, <1>3, <1>6, <1>7, <1>10 DEF History, Numbered
  <2> QED
    BY <2>1, <2>2, <2>3 DEF Numbered
<1>12. \A i, j \in DOMAIN talk' : talk'[i] = talk'[j] => i = j
  <2> SUFFICES ASSUME NEW i \in 1..(l + Len(a)), NEW j \in 1..(l + Len(a)),
                      talk'[i] = talk'[j]
               PROVE  i = j
    BY <1>5
  <2>1. \A k \in 1..(l + Len(a)) :
          \/ k \in 1..l /\ talk'[k] = talk[k] /\ talk'[k][1] # n
          \/ k - l \in 1..Len(a) /\ talk'[k] = a[k - l] /\ talk'[k][1] = n
    BY <1>2, <1>4, <1>5, <1>10
  <2>2. CASE talk'[i][1] = n
    <3>1. i - l \in 1..Len(a) /\ j - l \in 1..Len(a) /\ a[i - l] = a[j - l]
      BY <2>1, <2>2
    <3>2. i - l = j - l
      BY <1>4, <3>1
    <3> QED
      BY <1>2, <3>2
  <2>3. CASE talk'[i][1] # n
    <3>1. i \in 1..l /\ j \in 1..l /\ talk[i] = talk[j]
      BY <2>1, <2>3
    <3> QED
      BY <1>1, <1>2, <3>1 DEF History, TalkIsKept
  <2> QED
    BY <2>2, <2>3
<1>13. ASSUME NEW m \in ChatIds, NEW who \in {"user", "assistant"},
              [n |-> m, overlapped |-> FALSE] \in recorded'
       PROVE  \E i \in DOMAIN talk' : talk'[i] = <<m, who>>
  <2>1. CASE [n |-> m, overlapped |-> FALSE] \in recorded
    <3>1. PICK i \in 1..l : talk[i] = <<m, who>>
      BY <1>1, <1>2, <2>1 DEF History, TalkIsKept
    <3>2. i \in 1..(l + Len(a)) /\ talk'[i] = talk[i]
      BY <1>2, <1>4, <1>5
    <3> QED
      BY <1>5, <3>1, <3>2
  <2>2. CASE [n |-> m, overlapped |-> FALSE] = rec
    <3>1. m = n /\ ~chatCall[c].overlapped
      BY <2>2
    <3>2. Len(a) = 2 /\ a[1] = <<m, "user">> /\ a[2] = <<m, "assistant">>
      BY <1>4, <3>1, EntriesOf
    <3>3. /\ l + 1 \in 1..(l + Len(a)) /\ l + 2 \in 1..(l + Len(a))
          /\ talk'[l + 1] = a[1] /\ talk'[l + 2] = a[2]
      <4>1. /\ l + 1 \in 1..(l + Len(a)) /\ l + 2 \in 1..(l + Len(a))
            /\ (l + 1) - l = 1 /\ (l + 2) - l = 2 /\ ~(l + 1 <= l) /\ ~(l + 2 <= l)
        BY <1>2, <3>2
      <4> QED
        BY <1>5, <4>1
    <3> QED
      BY <1>5, <3>2, <3>3
  <2> QED
    BY <1>3, <1>13, <2>1, <2>2
<1>14. CallsAreApart'
  <2>1. Len(talk) <= Len(talk') /\ Len(talk) \in Nat /\ Len(talk') \in Nat
    BY <1>2, <1>4, <1>5 DEF l
  <2>2. ASSUME NEW d \in ChatCalls, Loaded(d)'
        PROVE  d # c /\ chatCall'[d] = chatCall[d] /\ chatCall'[d].overlapped
               /\ chatCall'[d].loaded <= Len(talk') /\ chatCall[d].loaded \in Nat
    <3>1. d # c /\ chatCall'[d] = chatCall[d] /\ Loaded(d) /\ chatCall[d].loaded \in Nat
      BY <1>1, <1>6, <1>7, <2>2 DEF ChatTypes, ChatRecords
    <3>2. chatCall[d].overlapped /\ chatCall[d].loaded <= Len(talk)
      BY <1>1, <3>1 DEF History, CallsAreApart
    <3> QED
      BY <2>1, <3>1, <3>2
  <2>3. \A d \in ChatCalls : HasRows(d)' => Loaded(d)'
    BY DEF HasRows, Loaded
  <2>4. \A d \in ChatCalls : HasRows(d)' => chatCall'[d].adds \in RowsOf(chatCall'[d].n)
    BY <1>1, <1>6, <1>7 DEF History, CallsAreApart
  <2> QED
    BY <2>2, <2>3, <2>4 DEF CallsAreApart
<1>15. TalkIsKept'
  BY <1>12, <1>13 DEF TalkIsKept
<1> QED
  BY <1>8, <1>9, <1>11, <1>14, <1>15 DEF ChatInv, History

\* A lost counter is in doubt from then on.
LEMMA ResetKeeps ==
    ASSUME ChatInv, adapter' = adapter, NEW q \in Stores, ResetUsage(q)
    PROVE  ChatInv'
<1>1. /\ ChatTypes /\ History /\ usage' = [usage EXCEPT ![q] = 0]
      /\ uncounted' = uncounted \cup {q}
      /\ UNCHANGED <<chatCache, talk, chatCall, chats, served, recorded>>
  BY DEF ChatInv, ResetUsage
<1>2. ChatTypes'
  BY <1>1 DEF ChatTypes, InHand
<1>3. \A s \in Stores : Uncalled(s)' = Uncalled(s) /\ UnderWay(s)' = UnderWay(s)
  BY <1>1 DEF Uncalled, UnderWay, CounterOf, StoreOf
<1>4. \A s \in Stores : Counts(s)'
  BY <1>1, <1>3 DEF ChatInv, Counts, ChatTypes
<1>5. History'
  BY <1>1 DEF History, Numbered, TalkIsKept, CallsAreApart, InHand, Loaded, HasRows
<1> QED
  BY <1>2, <1>4, <1>5 DEF ChatInv

\* Nothing the invariant is about changes.
LEMMA RestKeeps ==
    ASSUME ChatInv, adapter' = adapter,
           UNCHANGED <<usage, talk, chatCall, chats, served, uncounted, recorded>>
    PROVE  ChatInv'
<1>1. \A s \in Stores : Uncalled(s)' = Uncalled(s) /\ UnderWay(s)' = UnderWay(s)
  BY DEF Uncalled, UnderWay, CounterOf, StoreOf
<1>2. \A s \in Stores : Counts(s)'
  BY <1>1 DEF ChatInv, Counts
<1> QED
  BY <1>2 DEF ChatInv, ChatTypes, History, Numbered, TalkIsKept, CallsAreApart, InHand,
              Loaded, HasRows

LEMMA InitChatInv == ChatInit => ChatInv
<1> SUFFICES ASSUME ChatInit PROVE ChatInv
  OBVIOUS
<1>1. \A c \in ChatCalls : chatCall[c] = NoChatCall /\ ~InHand(c) /\ ~Loaded(c) /\ ~HasRows(c)
  BY NoCall DEF ChatInit, InHand, Loaded, HasRows
<1>2. ChatTypes
  <2>1. << >> \in Seq(Rows)
    OBVIOUS
  <2> QED
    BY <1>1, <2>1, NoCall, ChatAssumption DEF ChatInit, ChatTypes
<1>3. ASSUME NEW s \in Stores PROVE Counts(s)
  <2>1. Uncalled(s) = {} /\ UnderWay(s) = {}
    BY <1>1, NoCall DEF Uncalled, UnderWay
  <2>2. PlanLimit \in Nat \ {0} /\ Cardinality(ChatCalls) \in Nat
    BY ChatAssumption, FewCalls
  <2> QED
    BY <2>1, <2>2, FS_EmptySet DEF Counts, ChatInit
<1>4. History
  <2>1. talk = << >> /\ recorded = {} /\ DOMAIN talk = {}
    BY DEF ChatInit
  <2> QED
    BY <1>1, <2>1 DEF History, Numbered, TalkIsKept, CallsAreApart
<1> QED
  BY <1>2, <1>3, <1>4 DEF ChatInv

LEMMA StepKeepsChatInv == ChatInv /\ [ChatNext]_<<adapter, chatVars>> => ChatInv'
<1> SUFFICES ASSUME ChatInv, [ChatNext]_<<adapter, chatVars>> PROVE ChatInv'
  OBVIOUS
<1>1. adapter' = adapter
  BY DEF ChatNext, redisVars, EvictUsage, RedisEvicts, RedisFails, RedisReturns
<1>2. CASE UNCHANGED chatVars
  BY <1>1, <1>2, RestKeeps DEF chatVars
<1>3. ASSUME NEW c \in ChatCalls, NEW r \in Replicas, NEW t \in Texts, CheckQuota(c, r, t)
      PROVE  ChatInv'
  BY <1>1, <1>3, QuotaKeeps
<1>4. ASSUME NEW c \in ChatCalls,
             \/ LoadConversation(c) \/ MissCache(c) \/ Reason(c) \/ RunTools(c)
             \/ UpdateConversation(c) \/ RecordRequest(c) \/ CacheAnswer(c) \/ CommitChat(c)
      PROVE  ChatInv'
  BY <1>1, <1>4, LoadKeeps, MissKeeps, ReasonKeeps, UpdateKeeps, RecordKeeps, CachingKeeps,
     CommitKeeps
<1>5. ASSUME NEW c \in ChatCalls, AnswerFromCache(c) \/ FailChat(c) PROVE ChatInv'
  <2>1. /\ EndChat(c) /\ UNCHANGED <<usage, talk, chats, served, recorded>>
        /\ uncounted' = IF chatCall[c].pc \in {"answered", "flushed"}
                          THEN uncounted \cup {CounterOf(c)} ELSE uncounted
    BY <1>5 DEF AnswerFromCache, FailChat, ChatAt
  <2> QED
    BY <1>1, <2>1, EndingKeeps
<1>6. ASSUME NEW r \in Replicas, ForgetAnswer(r) \/ RestartCounter(r) PROVE ChatInv'
  BY <1>1, <1>6, RestKeeps, ResetKeeps DEF ForgetAnswer, RestartCounter, Stores
<1>7. CASE EvictUsage
  BY <1>1, <1>7, ResetKeeps DEF EvictUsage, Stores
<1> QED
  BY <1>2, <1>3, <1>4, <1>5, <1>6, <1>7 DEF ChatNext, chatVars

-----------------------------------------------------------------------------
(* Counters, answers and messages *)

\* The calls at counter s that may still get an answer.
Unanswered(s) ==
    {c \in ChatCalls : chatCall[c].pc \in {"quota", "loaded", "reason", "tools"} /\ CounterOf(c) = s}

\* What a counter counts was answered, and what was answered was asked: the answers
\* it has not heard of and the calls that wait for one are still to come.
Tally(s) ==
    /\ usage[s] + Cardinality(Uncalled(s)) <= served[s]
    /\ served[s] + Cardinality(Unanswered(s)) <= chats

Tallied ==
    /\ \A s \in Stores : Tally(s)
    /\ uncounted \subseteq Stores
    /\ chatCache \in [Replicas -> SUBSET Texts]
    /\ \A c \in ChatCalls : InHand(c) => chatCall[c].text \in Texts

LEMMA FewWait ==
    ASSUME NEW s
    PROVE  IsFiniteSet(Unanswered(s)) /\ Cardinality(Unanswered(s)) \in Nat
<1>1. Unanswered(s) \in SUBSET ChatCalls
  BY DEF Unanswered
<1>2. IsFiniteSet(Unanswered(s))
  BY <1>1, ChatAssumption, FS_Subset
<1> QED
  BY <1>2, FS_CardinalityType

\* The calls of counter s, after a step of one call.
LEMMA Waits ==
    ASSUME ChatTypes, NEW c \in ChatCalls, NEW r,
           chatCall' = [chatCall EXCEPT ![c] = r], adapter' = adapter, NEW s
    PROVE  /\ Unanswered(s)' \ {c} = Unanswered(s) \ {c}
           /\ c \in Unanswered(s)' <=>
                r.pc \in {"quota", "loaded", "reason", "tools"} /\ StoreOf(r.replica) = s
<1>1. chatCall'[c] = r /\ \A d \in ChatCalls \ {c} : chatCall'[d] = chatCall[d]
  BY DEF ChatTypes
<1>2. \A d \in ChatCalls \ {c} : CounterOf(d)' = CounterOf(d)
  BY <1>1 DEF StoreOf, CounterOf
<1>3. CounterOf(c)' = StoreOf(r.replica)
  BY <1>1 DEF StoreOf, CounterOf
<1> QED
  BY <1>1, <1>2, <1>3 DEF Unanswered

\* The tally of a counter, when one call comes, gets its answer, is counted or goes.
LEMMA TallyMoves ==
    ASSUME ChatTypes, ChatTypes', NEW s \in Stores, Tally(s), NEW c,
           Uncalled(s)' \ {c} = Uncalled(s) \ {c}, Unanswered(s)' \ {c} = Unanswered(s) \ {c},
           \/ /\ c \in Uncalled(s)' => c \in Uncalled(s)
              /\ c \in Unanswered(s)' => c \in Unanswered(s)
              /\ usage'[s] <= usage[s] /\ served'[s] = served[s] /\ chats' = chats
           \/ /\ c \notin Uncalled(s) /\ c \notin Uncalled(s)'
              /\ usage'[s] = usage[s] /\ served'[s] = served[s] /\ chats' = chats + 1
           \/ /\ c \notin Uncalled(s) /\ c \in Unanswered(s) /\ c \notin Unanswered(s)'
              /\ usage'[s] = usage[s] /\ served'[s] = served[s] + 1 /\ chats' = chats
           \/ /\ c \in Uncalled(s) /\ c \notin Uncalled(s)'
              /\ c \notin Unanswered(s) /\ c \notin Unanswered(s)'
              /\ usage'[s] <= usage[s] + 1 /\ served'[s] = served[s] /\ chats' = chats
    PROVE  Tally(s)'
<1> DEFINE u == Cardinality(Uncalled(s))
           v == Cardinality(Uncalled(s)')
           a == Cardinality(Unanswered(s))
           b == Cardinality(Unanswered(s)')
<1>1. /\ usage[s] \in Nat /\ usage'[s] \in Nat /\ served[s] \in Nat /\ served'[s] \in Nat
      /\ chats \in Nat /\ chats' \in Nat
  BY ChatAssumption DEF ChatTypes
<1>2. /\ u \in Nat /\ v \in Nat
      /\ (c \in Uncalled(s) <=> c \in Uncalled(s)') => v = u
      /\ c \notin Uncalled(s) /\ c \in Uncalled(s)' => v = u + 1
      /\ c \in Uncalled(s) /\ c \notin Uncalled(s)' => u = v + 1
  BY FewCalls, OneCall
<1>3. /\ a \in Nat /\ b \in Nat
      /\ (c \in Unanswered(s) <=> c \in Unanswered(s)') => b = a
      /\ c \notin Unanswered(s) /\ c \in Unanswered(s)' => b = a + 1
      /\ c \in Unanswered(s) /\ c \notin Unanswered(s)' => a = b + 1
  BY FewWait, OneCall
<1>4. usage[s] + u <= served[s] /\ served[s] + a <= chats
  BY DEF Tally
<1>5. SUFFICES usage'[s] + v <= served'[s] /\ served'[s] + b <= chats'
  BY DEF Tally
<1> HIDE DEF u, v, a, b
<1>6. v <= u + 1 /\ b <= a + 1
  BY <1>2, <1>3
<1>7. CASE /\ c \in Uncalled(s)' => c \in Uncalled(s)
           /\ c \in Unanswered(s)' => c \in Unanswered(s)
           /\ usage'[s] <= usage[s] /\ served'[s] = served[s] /\ chats' = chats
  <2>1. v <= u /\ b <= a
    BY <1>2, <1>3, <1>7
  <2> QED
    BY <1>1, <1>2, <1>3, <1>4, <1>7, <2>1
<1>8. CASE /\ c \notin Uncalled(s) /\ c \notin Uncalled(s)'
           /\ usage'[s] = usage[s] /\ served'[s] = served[s] /\ chats' = chats + 1
  BY <1>1, <1>2, <1>3, <1>4, <1>6, <1>8
<1>9. CASE /\ c \notin Uncalled(s) /\ c \in Unanswered(s) /\ c \notin Unanswered(s)'
           /\ usage'[s] = usage[s] /\ served'[s] = served[s] + 1 /\ chats' = chats
  BY <1>1, <1>2, <1>3, <1>4, <1>6, <1>9
<1>10. CASE /\ c \in Uncalled(s) /\ c \notin Uncalled(s)'
            /\ c \notin Unanswered(s) /\ c \notin Unanswered(s)'
            /\ usage'[s] <= usage[s] + 1 /\ served'[s] = served[s] /\ chats' = chats
  BY <1>1, <1>2, <1>3, <1>4, <1>10
<1> QED
  BY <1>7, <1>8, <1>9, <1>10

\* The tallies, when no call changes class.
LEMMA TalliesStay ==
    ASSUME ChatTypes, ChatTypes', NEW s \in Stores, Tally(s), adapter' = adapter,
           \A d \in ChatCalls :
             /\ \/ chatCall'[d].pc = chatCall[d].pc
                \/ chatCall'[d].pc = "loaded" /\ chatCall[d].pc = "quota"
             /\ chatCall'[d].replica = chatCall[d].replica,
           usage'[s] <= usage[s], served' = served, chats' = chats
    PROVE  Tally(s)'
<1>1. \A d \in ChatCalls : CounterOf(d)' = CounterOf(d)
  BY DEF CounterOf, StoreOf
<1>2. Uncalled(s)' = Uncalled(s) /\ Unanswered(s)' = Unanswered(s)
  BY <1>1 DEF Uncalled, Unanswered
<1>3. /\ usage[s] \in Nat /\ usage'[s] \in Nat /\ served[s] \in Nat /\ chats \in Nat
      /\ Cardinality(Uncalled(s)) \in Nat
  BY ChatAssumption, FewCalls DEF ChatTypes
<1> QED
  BY <1>2, <1>3 DEF Tally

\* A step of one call that counts nothing and has no new answer.
LEMMA TalliedGoes ==
    ASSUME ChatTypes, ChatTypes', Tallied, adapter' = adapter, NEW c \in ChatCalls, NEW r,
           chatCall' = [chatCall EXCEPT ![c] = r], UNCHANGED <<usage, served, chats>>,
           r.pc # "idle" => r.text \in Texts,
           r.pc \in {"answered", "flushed"} =>
             chatCall[c].pc \in {"answered", "flushed"} /\ r.replica = chatCall[c].replica,
           r.pc \in {"quota", "loaded", "reason", "tools"} =>
             /\ chatCall[c].pc \in {"quota", "loaded", "reason", "tools"}
             /\ r.replica = chatCall[c].replica,
           uncounted' \subseteq Stores, chatCache' \in [Replicas -> SUBSET Texts]
    PROVE  Tallied'
<1>1. ASSUME NEW s \in Stores PROVE Tally(s)'
  <2>1. /\ Uncalled(s)' \ {c} = Uncalled(s) \ {c}
        /\ c \in Uncalled(s)' <=> r.pc \in {"answered", "flushed"} /\ StoreOf(r.replica) = s
    BY Moves
  <2>2. /\ Unanswered(s)' \ {c} = Unanswered(s) \ {c}
        /\ c \in Unanswered(s)' <=>
             r.pc \in {"quota", "loaded", "reason", "tools"} /\ StoreOf(r.replica) = s
    BY Waits
  <2>3. /\ c \in Uncalled(s)' => c \in Uncalled(s)
        /\ c \in Unanswered(s)' => c \in Unanswered(s)
    BY <2>1, <2>2 DEF Uncalled, Unanswered, CounterOf
  <2>4. Tally(s) /\ usage'[s] <= usage[s] /\ served'[s] = served[s] /\ chats' = chats
    BY DEF Tallied, ChatTypes
  <2> QED
    BY <2>1, <2>2, <2>3, <2>4, TallyMoves
<1>2. chatCall'[c] = r /\ \A d \in ChatCalls \ {c} : chatCall'[d] = chatCall[d]
  BY DEF ChatTypes
<1>3. \A d \in ChatCalls : InHand(d)' => chatCall'[d].text \in Texts
  BY <1>2 DEF Tallied, InHand
<1> QED
  BY <1>1, <1>3 DEF Tallied

\* A message is asked, and waits for its answer if it is let in.
LEMMA TalliedAsked ==
    ASSUME ChatTypes, ChatTypes', Tallied, adapter' = adapter, NEW c \in ChatCalls,
           NEW p \in Replicas, NEW text \in Texts, CheckQuota(c, p, text)
    PROVE  Tallied'
<1> DEFINE new == [NoChatCall EXCEPT !.pc = "quota", !.n = chats + 1, !.text = text,
                                     !.replica = p]
           r == IF WithinQuota(StoreOf(p)) THEN new ELSE chatCall[c]
<1>1. /\ chatCall[c].pc = "idle" /\ chats' = chats + 1
      /\ UNCHANGED <<usage, served, chatCache>>
  BY DEF CheckQuota, ChatAt
<1>2. new.pc = "quota" /\ new.text = text
  BY DEF NoChatCall
<1> HIDE DEF new
<1>3. chatCall' = [chatCall EXCEPT ![c] = r]
  <2>1. CASE WithinQuota(StoreOf(p))
    BY <2>1 DEF CheckQuota, new
  <2>2. CASE ~WithinQuota(StoreOf(p))
    <3>1. chatCall' = chatCall
      BY <2>2 DEF CheckQuota
    <3> QED
      BY <2>2, <3>1 DEF ChatTypes
  <2> QED
    BY <2>1, <2>2
<1>4. r.pc \in {"idle", "quota"} /\ (r.pc = "quota" => r.text \in Texts)
  BY <1>1, <1>2
<1> HIDE DEF r
<1>5. ASSUME NEW s \in Stores PROVE Tally(s)'
  <2>1. /\ Uncalled(s)' \ {c} = Uncalled(s) \ {c} /\ c \notin Uncalled(s)'
    BY <1>3, <1>4, Moves
  <2>2. Unanswered(s)' \ {c} = Unanswered(s) \ {c}
    BY <1>3, Waits
  <2>3. c \notin Uncalled(s)
    BY <1>1 DEF Uncalled
  <2>4. Tally(s) /\ usage'[s] = usage[s] /\ served'[s] = served[s]
    BY <1>1 DEF Tallied
  <2> QED
    BY <1>1, <2>1, <2>2, <2>3, <2>4, TallyMoves
<1>6. chatCall'[c] = r /\ \A d \in ChatCalls \ {c} : chatCall'[d] = chatCall[d]
  BY <1>3 DEF ChatTypes
<1>7. \A d \in ChatCalls : InHand(d)' => chatCall'[d].text \in Texts
  BY <1>4, <1>6 DEF Tallied, InHand
<1>8. uncounted' \subseteq Stores
  BY DEF CheckQuota, Tallied, StoreOf, Stores
<1> QED
  BY <1>1, <1>5, <1>7, <1>8 DEF Tallied

\* An answer is computed, of a call that waited for it.
LEMMA TalliedAnswered ==
    ASSUME ChatTypes, ChatTypes', Tallied, adapter' = adapter, NEW c \in ChatCalls,
           chatCall[c].pc \in {"loaded", "reason"}, Answered(c),
           UNCHANGED <<usage, chats, uncounted, chatCache>>
    PROVE  Tallied'
<1> DEFINE r == [chatCall[c] EXCEPT !.pc = "answered"]
           q == CounterOf(c)
<1>1. /\ r.pc = "answered" /\ r.replica = chatCall[c].replica /\ r.text = chatCall[c].text
      /\ chatCall' = [chatCall EXCEPT ![c] = r]
  BY DEF ChatTypes, ChatRecords, Answered, Goto
<1> HIDE DEF r
<1>2. ASSUME NEW s \in Stores PROVE Tally(s)'
  <2>1. /\ Uncalled(s)' \ {c} = Uncalled(s) \ {c} /\ (c \in Uncalled(s)' <=> q = s)
    BY <1>1, Moves DEF CounterOf
  <2>2. Unanswered(s)' \ {c} = Unanswered(s) \ {c} /\ c \notin Unanswered(s)'
    BY <1>1, Waits
  <2>3. c \notin Uncalled(s) /\ (c \in Unanswered(s) <=> q = s)
    BY DEF Uncalled, Unanswered
  <2>4. Tally(s) /\ usage'[s] = usage[s] /\ chats' = chats /\ usage[s] \in Nat
    BY DEF Tallied, ChatTypes
  <2>5. served'[s] = IF q = s THEN served[s] + 1 ELSE served[s]
    BY DEF Answered, ChatTypes
  <2>6. CASE q = s
    BY <2>1, <2>2, <2>3, <2>4, <2>5, <2>6, TallyMoves
  <2>7. CASE q # s
    BY <2>1, <2>2, <2>3, <2>4, <2>5, <2>7, TallyMoves
  <2> QED
    BY <2>6, <2>7
<1>3. chatCall'[c] = r /\ \A d \in ChatCalls \ {c} : chatCall'[d] = chatCall[d]
  BY <1>1 DEF ChatTypes
<1>4. \A d \in ChatCalls : InHand(d)' => chatCall'[d].text \in Texts
  BY <1>1, <1>3 DEF Tallied, InHand
<1> QED
  BY <1>2, <1>4 DEF Tallied

\* The counter hears of an answer, once.
LEMMA TalliedRecorded ==
    ASSUME ChatTypes, ChatTypes', Tallied, adapter' = adapter, NEW c \in ChatCalls,
           RecordRequest(c)
    PROVE  Tallied'
<1> DEFINE r == [chatCall[c] EXCEPT !.pc = "counted"]
           q == CounterOf(c)
<1>1. /\ r.pc = "counted" /\ r.text = chatCall[c].text
      /\ chatCall' = [chatCall EXCEPT ![c] = r]
      /\ chatCall[c].pc = "flushed" /\ UNCHANGED <<chats, served, chatCache>>
  BY DEF ChatTypes, ChatRecords, RecordRequest, Goto, ChatAt
<1> HIDE DEF r
<1>2. q \in Stores
  BY <1>1 DEF ChatTypes, InHand, CounterOf, StoreOf, Stores
<1>3. \A s \in Stores : usage'[s] = usage[s] \/ (s = q /\ usage'[s] = usage[s] + 1)
  BY DEF RecordRequest, ChatTypes
<1>4. uncounted' \subseteq Stores
  BY <1>2 DEF RecordRequest, Tallied
<1>5. ASSUME NEW s \in Stores PROVE Tally(s)'
  <2>1. Uncalled(s)' \ {c} = Uncalled(s) \ {c} /\ c \notin Uncalled(s)'
    BY <1>1, Moves
  <2>2. Unanswered(s)' \ {c} = Unanswered(s) \ {c} /\ c \notin Unanswered(s)'
    BY <1>1, Waits
  <2>3. (c \in Uncalled(s) <=> q = s) /\ c \notin Unanswered(s)
    BY <1>1 DEF Uncalled, Unanswered
  <2>4. Tally(s) /\ served'[s] = served[s] /\ chats' = chats /\ usage[s] \in Nat
    BY <1>1 DEF Tallied, ChatTypes
  <2>5. CASE q = s
    <3>1. usage'[s] <= usage[s] + 1
      BY <1>3, <2>4
    <3> QED
      BY <2>1, <2>2, <2>3, <2>4, <2>5, <3>1, TallyMoves
  <2>6. CASE q # s
    <3>1. usage'[s] <= usage[s]
      BY <1>3, <2>4, <2>6
    <3> QED
      BY <2>1, <2>2, <2>4, <3>1, TallyMoves
  <2> QED
    BY <2>5, <2>6
<1>6. chatCall'[c] = r /\ \A d \in ChatCalls \ {c} : chatCall'[d] = chatCall[d]
  BY <1>1 DEF ChatTypes
<1>7. \A d \in ChatCalls : InHand(d)' => chatCall'[d].text \in Texts
  BY <1>1, <1>6 DEF Tallied, InHand
<1> QED
  BY <1>1, <1>4, <1>5, <1>7 DEF Tallied

\* The same messages are in hand, in the same class, and no counter has grown.
LEMMA TalliedRests ==
    ASSUME ChatTypes, ChatTypes', Tallied, adapter' = adapter,
           \A d \in ChatCalls :
             /\ \/ chatCall'[d].pc = chatCall[d].pc
                \/ chatCall'[d].pc = "loaded" /\ chatCall[d].pc = "quota"
             /\ chatCall'[d].replica = chatCall[d].replica
             /\ chatCall'[d].text = chatCall[d].text,
           \A s \in Stores : usage'[s] <= usage[s], UNCHANGED <<served, chats>>,
           uncounted' \subseteq Stores, chatCache' \in [Replicas -> SUBSET Texts]
    PROVE  Tallied'
<1>1. \A s \in Stores : Tally(s)'
  BY TalliesStay DEF Tallied
<1>2. \A d \in ChatCalls : InHand(d)' => chatCall'[d].text \in Texts
  BY DEF Tallied, InHand
<1> QED
  BY <1>1, <1>2 DEF Tallied

LEMMA InitTallied == ChatInit => Tallied
<1> SUFFICES ASSUME ChatInit PROVE Tallied
  OBVIOUS
<1>1. \A c \in ChatCalls : chatCall[c].pc = "idle"
  BY NoCall DEF ChatInit
<1>2. ASSUME NEW s \in Stores PROVE Tally(s)
  <2>1. Uncalled(s) = {} /\ Unanswered(s) = {}
    BY <1>1 DEF Uncalled, Unanswered
  <2> QED
    BY <2>1, FS_EmptySet DEF Tally, ChatInit
<1> QED
  BY <1>1, <1>2 DEF Tallied, ChatInit, InHand

LEMMA StepKeepsTallied ==
    ChatInv /\ ChatInv' /\ Tallied /\ [ChatNext]_<<adapter, chatVars>> => Tallied'
<1> SUFFICES ASSUME ChatInv, ChatInv', Tallied, [ChatNext]_<<adapter, chatVars>>
             PROVE  Tallied'
  OBVIOUS
<1>1. adapter' = adapter
  BY DEF ChatNext, redisVars, EvictUsage, RedisEvicts, RedisFails, RedisReturns
<1>2. ChatTypes /\ ChatTypes'
  BY DEF ChatInv
<1>3. CASE UNCHANGED chatVars
  <2>1. /\ \A s \in Stores : usage'[s] <= usage[s]
        /\ \A d \in ChatCalls :
             /\ chatCall'[d].pc = chatCall[d].pc
             /\ chatCall'[d].replica = chatCall[d].replica
             /\ chatCall'[d].text = chatCall[d].text
        /\ uncounted' \subseteq Stores /\ chatCache' \in [Replicas -> SUBSET Texts]
        /\ UNCHANGED <<served, chats>>
    BY <1>2, <1>3 DEF chatVars, ChatTypes, Tallied
  <2> QED
    BY <1>1, <1>2, <2>1, TalliedRests
<1>4. ASSUME NEW c \in ChatCalls, NEW r \in Replicas, NEW t \in Texts, CheckQuota(c, r, t)
      PROVE  Tallied'
  BY <1>1, <1>2, <1>4, TalliedAsked
<1>5. ASSUME NEW c \in ChatCalls, LoadConversation(c) PROVE Tallied'
  <2>1. /\ UNCHANGED <<usage, chatCache, chats, served, uncounted>> /\ chatCall[c].pc = "quota"
        /\ \A d \in ChatCalls :
             /\ chatCall'[d].pc = IF d = c THEN "loaded" ELSE chatCall[d].pc
             /\ chatCall'[d].replica = chatCall[d].replica
             /\ chatCall'[d].text = chatCall[d].text
    <3> DEFINE others == {d \in ChatCalls \ {c} : chatCall[d].pc \notin {"idle", "quota"}}
               some == others # {}
               new(d) == IF d = c THEN [chatCall[c] EXCEPT !.pc = "loaded", !.loaded = Len(talk),
                                                           !.overlapped = some]
                         ELSE IF d \in others THEN [chatCall[d] EXCEPT !.overlapped = TRUE]
                         ELSE chatCall[d]
    <3>1. \A d \in ChatCalls : chatCall'[d] = new(d)
      BY <1>5 DEF LoadConversation
    <3> HIDE DEF others, some
    <3>2. \A d \in ChatCalls : chatCall[d] \in ChatRecords
      BY <1>2 DEF ChatTypes
    <3>3. ASSUME NEW d \in ChatCalls
          PROVE  /\ new(d).pc = IF d = c THEN "loaded" ELSE chatCall[d].pc
                 /\ new(d).replica = chatCall[d].replica
                 /\ new(d).text = chatCall[d].text
      BY <3>2 DEF ChatRecords
    <3> HIDE DEF new
    <3> QED
      BY <1>5, <3>1, <3>3 DEF LoadConversation, ChatAt
  <2>2. /\ \A s \in Stores : usage'[s] <= usage[s]
        /\ uncounted' \subseteq Stores /\ chatCache' \in [Replicas -> SUBSET Texts]
    BY <1>2, <2>1 DEF ChatTypes, Tallied
  <2>3. \A d \in ChatCalls :
             \/ chatCall'[d].pc = chatCall[d].pc
             \/ chatCall'[d].pc = "loaded" /\ chatCall[d].pc = "quota"
    BY <2>1
  <2> QED
    BY <1>1, <1>2, <2>1, <2>2, <2>3, TalliedRests
<1>6. ASSUME NEW c \in ChatCalls, chatCall[c].pc \in {"loaded", "reason"}, Answered(c),
             UNCHANGED <<usage, chats, uncounted, chatCache>>
      PROVE  Tallied'
  BY <1>1, <1>2, <1>6, TalliedAnswered
<1>7. ASSUME NEW c \in ChatCalls, RecordRequest(c) PROVE Tallied'
  BY <1>1, <1>2, <1>7, TalliedRecorded
<1>8. ASSUME NEW c \in ChatCalls, NEW pc \in {"reason", "tools", "flushed", "cached"},
             NEW r, chatCall' = [chatCall EXCEPT ![c] = r], r.pc = pc,
             r.replica = chatCall[c].replica, r.text = chatCall[c].text,
             UNCHANGED <<usage, chats, served, uncounted>>, InHand(c),
             pc \in {"reason", "tools"} => chatCall[c].pc \in {"loaded", "reason", "tools"},
             pc = "flushed" => chatCall[c].pc = "answered",
             chatCache' \in [Replicas -> SUBSET Texts]
      PROVE  Tallied'
  <2>1. r.text \in Texts /\ uncounted' \subseteq Stores
    BY <1>8 DEF Tallied
  <2>2. r.pc \in {"answered", "flushed"} => chatCall[c].pc \in {"answered", "flushed"}
    BY <1>8
  <2>3. r.pc \in {"quota", "loaded", "reason", "tools"} =>
          chatCall[c].pc \in {"quota", "loaded", "reason", "tools"}
    BY <1>8
  <2> QED
    BY <1>1, <1>2, <1>8, <2>1, <2>2, <2>3, TalliedGoes
<1>9. ASSUME NEW c \in ChatCalls, MissCache(c) \/ Reason(c) \/ RunTools(c) PROVE Tallied'
  <2>1. /\ chatCall[c].pc \in {"loaded", "reason", "tools"} /\ chatCall[c] \in ChatRecords
        /\ UNCHANGED <<usage, chatCache, chats, uncounted>>
    BY <1>2, <1>9 DEF MissCache, Reason, RunTools, ChatAt, ChatTypes
  <2>2. CASE Answered(c) /\ chatCall[c].pc \in {"loaded", "reason"}
    BY <1>6, <2>1, <2>2
  <2>3. CASE Goto(c, "reason") /\ UNCHANGED served
    <3> DEFINE r == [chatCall[c] EXCEPT !.pc = "reason"]
    <3>1. /\ chatCall' = [chatCall EXCEPT ![c] = r] /\ r.pc = "reason"
          /\ r.replica = chatCall[c].replica /\ r.text = chatCall[c].text
      BY <1>2, <2>1, <2>3 DEF Goto, ChatTypes, ChatRecords
    <3> HIDE DEF r
    <3> QED
      BY <1>8, <2>1, <2>3, <3>1 DEF InHand, Tallied
  <2>4. CASE /\ chatCall' = [chatCall EXCEPT ![c].pc = "tools", ![c].turns = @ + 1]
             /\ UNCHANGED served
    <3> DEFINE r == [chatCall[c] EXCEPT !.pc = "tools", !.turns = @ + 1]
    <3>1. /\ chatCall' = [chatCall EXCEPT ![c] = r] /\ r.pc = "tools"
          /\ r.replica = chatCall[c].replica /\ r.text = chatCall[c].text
      BY <1>2, <2>1, <2>4 DEF ChatTypes, ChatRecords
    <3> HIDE DEF r
    <3> QED
      BY <1>8, <2>1, <2>4, <3>1 DEF InHand, Tallied
  <2>5. \/ Answered(c) /\ chatCall[c].pc \in {"loaded", "reason"}
        \/ Goto(c, "reason") /\ UNCHANGED served
        \/ /\ chatCall' = [chatCall EXCEPT ![c].pc = "tools", ![c].turns = @ + 1]
           /\ UNCHANGED served
    BY <1>9 DEF MissCache, Reason, RunTools, ChatAt
  <2> QED
    BY <2>2, <2>3, <2>4, <2>5
<1>10. ASSUME NEW c \in ChatCalls, UpdateConversation(c) PROVE Tallied'
  <2> DEFINE rows == RowsToAdd(c)
             r == [chatCall[c] EXCEPT !.pc = "flushed", !.adds = rows]
  <2>1. /\ chatCall[c].pc = "answered" /\ chatCall[c] \in ChatRecords
        /\ UNCHANGED <<usage, chatCache, chats, served, uncounted>>
        /\ chatCall' = [chatCall EXCEPT ![c] = r]
    BY <1>2, <1>10 DEF UpdateConversation, ChatAt, ChatTypes
  <2> HIDE DEF rows
  <2>2. r.pc = "flushed" /\ r.replica = chatCall[c].replica /\ r.text = chatCall[c].text
    BY <2>1 DEF ChatRecords
  <2> HIDE DEF r
  <2> QED
    BY <1>8, <2>1, <2>2 DEF InHand, Tallied
<1>11. ASSUME NEW c \in ChatCalls, CacheAnswer(c) PROVE Tallied'
  <2> DEFINE r == [chatCall[c] EXCEPT !.pc = "cached"]
  <2>1. /\ chatCall[c].pc = "counted" /\ chatCall[c] \in ChatRecords
        /\ UNCHANGED <<usage, chats, served, uncounted>>
        /\ chatCall' = [chatCall EXCEPT ![c] = r] /\ r.pc = "cached"
        /\ r.replica = chatCall[c].replica /\ r.text = chatCall[c].text
    BY <1>2, <1>11 DEF CacheAnswer, ChatAt, ChatTypes, Goto, ChatRecords
  <2>2. chatCall[c].replica \in Replicas /\ chatCall[c].text \in Texts
    BY <1>2, <2>1 DEF ChatTypes, InHand, Tallied
  <2>3. chatCache' \in [Replicas -> SUBSET Texts]
    BY <1>11, <2>2 DEF CacheAnswer, Tallied
  <2> HIDE DEF r
  <2> QED
    BY <1>8, <2>1, <2>3 DEF InHand
<1>12. ASSUME NEW c \in ChatCalls, AnswerFromCache(c) \/ CommitChat(c) \/ FailChat(c)
       PROVE  Tallied'
  <2>1. /\ chatCall' = [chatCall EXCEPT ![c] = NoChatCall]
        /\ UNCHANGED <<usage, chatCache, chats, served>> /\ chatCall[c].pc # "idle"
        /\ uncounted' = uncounted \/ uncounted' = uncounted \cup {CounterOf(c)}
    BY <1>12 DEF AnswerFromCache, CommitChat, FailChat, EndChat, ChatAt
  <2>2. uncounted' \subseteq Stores
    BY <1>2, <2>1 DEF Tallied, CounterOf, StoreOf, Stores, ChatTypes, InHand
  <2> QED
    BY <1>1, <1>2, <2>1, <2>2, NoCall, TalliedGoes DEF Tallied
<1>13. ASSUME NEW q \in Stores, ResetUsage(q) PROVE Tallied'
  <2>1. /\ \A s \in Stores : usage'[s] <= usage[s]
        /\ \A d \in ChatCalls :
             /\ chatCall'[d].pc = chatCall[d].pc
             /\ chatCall'[d].replica = chatCall[d].replica
             /\ chatCall'[d].text = chatCall[d].text
        /\ uncounted' \subseteq Stores /\ chatCache' \in [Replicas -> SUBSET Texts]
        /\ UNCHANGED <<served, chats>>
    BY <1>2, <1>13 DEF ResetUsage, ChatTypes, Tallied
  <2> QED
    BY <1>1, <1>2, <2>1, TalliedRests
<1>14. ASSUME NEW r \in Replicas, ForgetAnswer(r) PROVE Tallied'
  <2>1. /\ \A s \in Stores : usage'[s] <= usage[s]
        /\ \A d \in ChatCalls :
             /\ chatCall'[d].pc = chatCall[d].pc
             /\ chatCall'[d].replica = chatCall[d].replica
             /\ chatCall'[d].text = chatCall[d].text
        /\ uncounted' \subseteq Stores /\ chatCache' \in [Replicas -> SUBSET Texts]
        /\ UNCHANGED <<served, chats>>
    BY <1>2, <1>14 DEF ForgetAnswer, ChatTypes, Tallied
  <2> QED
    BY <1>1, <1>2, <2>1, TalliedRests
<1> QED
  BY <1>3, <1>4, <1>5, <1>7, <1>9, <1>10, <1>11, <1>12, <1>13, <1>14
     DEF ChatNext, chatVars, RestartCounter, EvictUsage, Stores

-----------------------------------------------------------------------------
(* Theorems *)

\* Every answer is in its counter or with a call that has yet to count it, what is
\* under way stays below the bound, and calls that did not overlap loaded all there is.
THEOREM ChatInvAlways == ChatSpec => []ChatInv
BY InitChatInv, StepKeepsChatInv, PTL DEF ChatSpec

\* A month's computed answers exceed the plan by no more than can be under way at
\* once, for a counter in reach that is told of every answer.
THEOREM PlanIsKept == ChatSpec => []QuotaHolds
<1>1. ChatInv => QuotaHolds
  <2> SUFFICES ASSUME ChatInv, NEW s \in Stores \ uncounted
               PROVE  served[s] <= PlanLimit + Cardinality(ChatCalls) - 1
    BY DEF QuotaHolds
  <2>1. Counts(s) /\ usage[s] \in Nat /\ PlanLimit \in Nat
    BY ChatAssumption DEF ChatInv, ChatTypes
  <2>2. /\ Cardinality(Uncalled(s)) \in Nat /\ Cardinality(UnderWay(s)) \in Nat
        /\ Cardinality(Uncalled(s)) <= Cardinality(UnderWay(s))
        /\ Cardinality(ChatCalls) \in Nat
    BY FewCalls
  <2> QED
    BY <2>1, <2>2 DEF Counts
<1> QED
  BY <1>1, ChatInvAlways, PTL

\* An answered and committed message is in the conversation once, and is missing in
\* part only if another one was in hand between its load and its commit.
THEOREM ConversationIsKept == ChatSpec => []HistoryIsKept
<1>1. ChatInv => HistoryIsKept
  <2> SUFFICES ASSUME ChatInv, NEW n \in ChatIds, NEW who \in {"user", "assistant"}
               PROVE  LET times == Cardinality({i \in DOMAIN talk : talk[i] = <<n, who>>})
                      IN  /\ times <= 1
                          /\ [n |-> n, overlapped |-> FALSE] \in recorded => times = 1
    BY DEF HistoryIsKept
  <2> DEFINE places == {i \in DOMAIN talk : talk[i] = <<n, who>>}
  <2>1. \A i, j \in places : i = j
    BY DEF ChatInv, History, TalkIsKept
  <2>2. [n |-> n, overlapped |-> FALSE] \in recorded => places # {}
    BY DEF ChatInv, History, TalkIsKept
  <2> HIDE DEF places
  <2>3. CASE places = {}
    <3>1. Cardinality(places) = 0
      BY <2>3, FS_EmptySet
    <3>2. [n |-> n, overlapped |-> FALSE] \notin recorded
      BY <2>2, <2>3
    <3> QED
      BY <3>1, <3>2 DEF places
  <2>4. CASE places # {}
    <3>1. PICK i \in places : TRUE
      BY <2>4
    <3>2. places = {i}
      BY <2>1, <3>1
    <3>3. Cardinality(places) = 1
      BY <3>2, FS_Singleton
    <3> QED
      BY <3>3 DEF places
  <2> QED
    BY <2>3, <2>4
<1> QED
  BY <1>1, ChatInvAlways, PTL

\* Types, and the order of the counts: what a counter counts was answered, what was
\* answered was asked, whatever fails, is evicted or starts again in between.
THEOREM ChatsTyped == ChatSpec => []ChatTypeOK
<1>1. ChatInv /\ Tallied => ChatTypeOK
  <2> SUFFICES ASSUME ChatInv, Tallied PROVE ChatTypeOK
    OBVIOUS
  <2>1. ChatTypes
    BY DEF ChatInv
  <2>2. \A i \in DOMAIN talk : talk[i] \in ChatIds \X {"user", "assistant"}
    BY <2>1, ElementOfSeq, LenProperties DEF ChatTypes, Rows
  <2>3. \A s \in Stores : usage[s] <= served[s] /\ served[s] <= chats
    <3> SUFFICES ASSUME NEW s \in Stores PROVE usage[s] <= served[s] /\ served[s] <= chats
      OBVIOUS
    <3>1. /\ usage[s] \in Nat /\ served[s] \in Nat /\ chats \in Nat
          /\ Cardinality(Uncalled(s)) \in Nat /\ Cardinality(Unanswered(s)) \in Nat
      BY <2>1, ChatAssumption, FewCalls, FewWait DEF ChatTypes
    <3> QED
      BY <3>1 DEF Tallied, Tally
  <2>4. \A c \in ChatCalls : chatCall[c].pc \in ChatSteps
    BY <2>1 DEF ChatTypes, ChatRecords
  <2>5. recorded \subseteq [n : ChatIds, overlapped : BOOLEAN]
    <3>1. 1..chats \subseteq ChatIds
      BY <2>1, ChatAssumption DEF ChatTypes, ChatIds
    <3> QED
      BY <2>1, <3>1 DEF ChatTypes
  <2> QED
    BY <2>1, <2>2, <2>3, <2>4, <2>5 DEF ChatTypeOK, ChatTypes, Tallied
<1> QED
  BY <1>1, InitChatInv, StepKeepsChatInv, InitTallied, StepKeepsTallied, PTL DEF ChatSpec
=============================================================================
