------------------------- MODULE CalendarEventsProofs -------------------------
(***************************************************************************)
(* What the calendar, its rows and its suggestions keep.  BaseInv holds    *)
(* whatever overlaps or fails: the types, and which event a request is     *)
(* working on.  NamesInv adds what a suggestion names, and OrderlyInv what *)
(* holds while requests come one at a time and nothing is torn: the rows   *)
(* stay apart, and Google is sent each event once.                         *)
(***************************************************************************)
EXTENDS CalendarEvents, SequenceTheorems, FiniteSetTheorems, TLAPS

RequestRecords ==
    [op : {"none", "create", "approve", "sync", "delete"},
     pc : {"idle", "list", "listlocal", "tokens", "insert", "refresh", "search",
           "store", "repo", "finish", "next", "relink", "delgoogle", "dellocal"},
     key : Keys \cup {NoKey}, of : Ids \cup Suggestions \cup {0},
     target : ProviderIds \cup {Uuid(n) : n \in Ids} \cup {NoId},
     id : Ids \cup {0}, pid : ProviderIds \cup {NoId},
     loaded : SuggestionRecords, todo : SUBSET Ids,
     retried : BOOLEAN, gone : BOOLEAN]

\* Where create_event of the adapter has built an event and not stored it yet.
Untold == {"tokens", "insert", "refresh"}
Making == Untold \cup {"search", "store"}
OpAt(op, pc) ==
    \/ op = "none" /\ pc = "idle"
    \/ op = "create" /\ pc \in {"list", "listlocal", "repo"} \cup Making
    \/ op = "approve" /\ pc \in {"finish"} \cup Making
    \/ op = "sync" /\ pc \in {"next", "relink"} \cup Making
    \/ op = "delete" /\ pc \in {"delgoogle", "dellocal"}

\* What a request in hand works on, where ev are the events there are.  An event
\* it has not stored, or that Google took from it, is its own.
Shape(q, ev) ==
    /\ OpAt(q.op, q.pc)
    /\ q.pc \in {"list", "listlocal"} => q.key \in Keys /\ q.of = 0
    /\ q.op = "approve" => q.of \in Suggestions
    /\ q.op = "sync" /\ q.pc # "next" => q.of \in 1..Len(ev)
    /\ q.todo \subseteq 1..Len(ev)
    /\ q.pc \in Untold \cup {"idle", "list", "listlocal"} => q.pid = NoId
    /\ q.pc = "search" => ~IsMem(q.pid)
    /\ q.pc \in {"store", "repo"} => Stored(q.pid)
    /\ Stored(q.pid) \/ q.pc \in Making => q.id \in 1..Len(ev)
    /\ q.pid \in {NoId, MemId(q.id), GoogleId(q.id)}
    /\ IsGoogle(q.pid) \/ q.pc \in Making => ev[q.id] = [key |-> q.key, by |-> q.op, of |-> q.of]
    /\ q.gone => IsGoogle(q.target)
ShapesInv == \A r \in Requests : Shape(request[r], events)

\* The event of a suggestion has a row like its own; a synced one is younger than
\* its row.
EventsInv ==
    /\ \A s \in Suggestions : suggestions[s].key \in Keys
    /\ \A n \in 1..Len(events) :
         /\ events[n].by = "approve" =>
              events[n].of \in Suggestions /\ RowKey(n) = Kept(suggestions[events[n].of].key)
         /\ events[n].by = "sync" => events[n].of \in 1..(n - 1)

\* A stored row or entry is of an event, and a local one carries its own id.
StoresInv ==
    \A n \in Ids :
        /\ Stored(rows[n]) \/ Stored(memory[n]) => n <= Len(events)
        /\ IsMem(rows[n]) => rows[n] = MemId(n)
        /\ memory[n] \in {NoId, MemId(n), GoogleId(n)}
BaseInv == TypeOK /\ ShapesInv /\ EventsInv /\ StoresInv

----------------------------------------------------------------------------
\* What a suggestion or a request has of Google is there, unless someone asked
\* to delete it.
AtGoogle(p) == IsGoogle(p) => p \in asked \/ p[2] \in google
GoogleNamesInv ==
    /\ \A s \in Suggestions : AtGoogle(suggestions[s].event)
    /\ \A r \in Requests : AtGoogle(request[r].pid)
    /\ \A r \in Requests :
         request[r].op = "delete" => request[r].target \in asked \/ request[r].target[1] = "uuid"

\* While nothing is torn or relinked: an event is Google's or local, and never
\* both, from when that is decided.
HasPid(r, n, p) == request[r].id = n /\ request[r].pid = p
MemBorn(n) ==
    \/ MemId(n) \in asked \/ rows[n] = MemId(n) \/ memory[n] = MemId(n)
    \/ \E r \in Requests : HasPid(r, n, MemId(n))
GoogleBorn(n) ==
    \/ n \in google \/ GoogleId(n) \in asked \/ rows[n] = GoogleId(n) \/ memory[n] = GoogleId(n)
    \/ \E r \in Requests : HasPid(r, n, GoogleId(n))
Undecided(r, n) == request[r].pc \in Making /\ HasPid(r, n, NoId)
EventDecided(n) ==
    /\ rows[n] \in {NoId, MemId(n), GoogleId(n)}
    /\ ~(MemBorn(n) /\ GoogleBorn(n))
    /\ MemBorn(n) \/ GoogleBorn(n) => n <= Len(events)
    /\ \A r \in Requests : Undecided(r, n) =>
         /\ ~MemBorn(n) /\ ~GoogleBorn(n)
         /\ \A t \in Requests : Undecided(t, n) => t = r
StoredOrAsked(n) == MemId(n) \in asked \/ rows[n] = MemId(n)
LocalNames ==
    /\ \A n \in Ids : EventDecided(n)
    /\ \A r \in Requests, n \in Ids : request[r].target = Uuid(n) =>
         MemId(n) \in asked \/ GoogleId(n) \in asked
    /\ \A s \in Suggestions, n \in Ids : suggestions[s].event = MemId(n) => StoredOrAsked(n)
    /\ \A r \in Requests, n \in Ids :
         request[r].pc = "finish" /\ request[r].pid = MemId(n) => StoredOrAsked(n)
LocalNamesInv == ~torn /\ ~relinked => LocalNames
NamesInv == GoogleNamesInv /\ LocalNamesInv

----------------------------------------------------------------------------
\* While requests come one at a time and nothing is torn.
OneAtATime ==
    \A r, t \in Requests : request[r].pc # "idle" /\ request[t].pc # "idle" => r = t

\* Rows of one time that are only local, rows of one event of Google's, and rows
\* of one time, in UTC, that were created.
RowsApart ==
    /\ \A m, n \in Ids :
         IsMem(rows[m]) /\ IsMem(rows[n]) /\ RowKey(m) = RowKey(n) => m = n
    /\ \A n \in Ids, m \in Ids : rows[n] = GoogleId(m) =>
         /\ m <= Len(events)
         /\ m = n \/ (events[m].by = "sync" /\ events[m].of = n)
    /\ \A n \in 1..Len(events) : events[n].by = "sync" => rows[n] = NoId
    /\ \A m, n \in Ids :
         Stored(rows[m]) /\ Stored(rows[n]) /\ events[m].key = events[n].key
           /\ Plain(events[m].key) /\ events[m].by = "create" /\ events[n].by = "create" => m = n

\* What the one request q in hand may rely on.
Relies(q) ==
    /\ q.pc \in Making => q.id = Len(events)
    /\ q.op = "create" /\ q.pc \in Making /\ Plain(q.key) =>
         \A n \in Ids : Stored(rows[n]) => RowKey(n) # q.key
    /\ q.pc = "repo" => rows[q.id] = q.pid \/ (IsGoogle(q.pid) /\ ~Plain(q.key))
    /\ q.pc = "store" =>
         /\ q.op # "sync"
         /\ IsMem(q.pid) => \A n \in Ids : IsMem(rows[n]) => RowKey(n) # RowKey(q.id)
    /\ q.op = "sync" => \A n \in q.todo : IsMem(rows[n])
    /\ q.op = "sync" /\ q.pc # "next" =>
         /\ q.of \notin q.todo
         /\ IsMem(rows[q.of]) /\ RowKey(q.of) = q.key
    /\ q.op = "approve" => q.loaded.event = suggestions[q.of].event
    /\ q.op = "approve" /\ (q.pc \in Making \/ Stored(q.pid))
         => ~IsGoogle(suggestions[q.of].event)

\* What Google has been sent has come back, or q, the one in hand, carries it.
Carries(q, n, op, pcs) == q.op = op /\ q.pc \in pcs /\ q.id = n /\ q.pid = GoogleId(n)
SentOnce(q) ==
    /\ \A n \in google : events[n].by = "sync" =>
         ~IsMem(rows[events[n].of]) \/ Carries(q, n, "sync", {"search", "relink"})
    /\ \A n \in google : events[n].by = "approve" =>
         IsGoogle(suggestions[events[n].of].event)
           \/ Carries(q, n, "approve", {"search", "store", "finish"})
    /\ \A m, n \in google :
         events[m].by = events[n].by /\ events[m].by \in {"sync", "approve"}
           /\ events[m].of = events[n].of => m = n

OrderlyInv ==
    Orderly =>
        /\ OneAtATime /\ RowsApart
        /\ \A r \in Requests : request[r].pc # "idle" =>
             Relies(request[r]) /\ SentOnce(request[r])
        /\ (~Busy => SentOnce(Idle))

----------------------------------------------------------------------------
(* Operators *)

\* Provider ids are of one kind and of one event.
LEMMA Pids ==
    /\ \A n : /\ IsMem(MemId(n)) /\ ~IsGoogle(MemId(n)) /\ Stored(MemId(n))
              /\ IsGoogle(GoogleId(n)) /\ ~IsMem(GoogleId(n)) /\ Stored(GoogleId(n))
              /\ GoogleId(n)[2] = n
              /\ Uuid(n)[1] = "uuid" /\ Uuid(n)[2] = n /\ Uuid(n) # NoId
              /\ MemId(n)[1] # "uuid" /\ GoogleId(n)[1] # "uuid"
              /\ ~IsGoogle(Uuid(n))
    /\ \A m, n : /\ MemId(m) = MemId(n) => m = n
                 /\ GoogleId(m) = GoogleId(n) => m = n
                 /\ Uuid(m) = Uuid(n) => m = n
                 /\ MemId(m) # GoogleId(n) /\ MemId(m) # Uuid(n) /\ GoogleId(m) # Uuid(n)
    /\ ~IsMem(NoId) /\ ~IsGoogle(NoId) /\ ~Stored(NoId) /\ NoId[1] # "uuid"
    /\ \A n \in Ids : MemId(n) \in ProviderIds /\ GoogleId(n) \in ProviderIds
    /\ \A p \in ProviderIds : \E n \in Ids : p = MemId(n) \/ p = GoogleId(n)
BY DEF IsMem, IsGoogle, Stored, MemId, GoogleId, Uuid, NoId, ProviderIds
\* A stored provider id is Google's or a local one, and of an event.
LEMMA PidKinds ==
    ASSUME NEW p \in ProviderIds \cup {NoId}
    PROVE  /\ Stored(p) <=> IsMem(p) \/ IsGoogle(p)
           /\ IsMem(p) => \E n \in Ids : p = MemId(n)
           /\ IsGoogle(p) => \E n \in Ids : p = GoogleId(n)
           /\ p[1] # "uuid"
BY Pids

\* What a row gives back is a time in UTC, of which a row gives back the same.
LEMMA KeptKeys ==
    /\ \A k \in Keys : Kept(k) \in Keys /\ Plain(Kept(k)) /\ Kept(Kept(k)) = Kept(k)
    /\ \A k \in Keys : Plain(k) => Kept(k) = k
BY ZonesAssumption DEF Kept, Plain

\* What holds of a request's event still holds when there are more.
LEMMA ShapeGrown ==
    ASSUME NEW q, NEW ev, NEW more, Len(ev) \in Nat, Len(more) \in Nat,
           Len(ev) <= Len(more), \A n \in 1..Len(ev) : more[n] = ev[n], Shape(q, ev)
    PROVE  Shape(q, more)
<1>1. 1..Len(ev) \subseteq 1..Len(more)
    OBVIOUS
<1>2. q.id \in 1..Len(ev) => more[q.id] = ev[q.id]
    OBVIOUS
<1>3. /\ q.op = "sync" /\ q.pc # "next" => q.of \in 1..Len(more)
      /\ q.todo \subseteq 1..Len(more)
      /\ Stored(q.pid) \/ q.pc \in Making => q.id \in 1..Len(more)
    BY <1>1 DEF Shape
<1>4. IsGoogle(q.pid) => Stored(q.pid)
    BY Pids DEF IsGoogle, Stored
<1>5. IsGoogle(q.pid) \/ q.pc \in Making
        => more[q.id] = [key |-> q.key, by |-> q.op, of |-> q.of]
    BY <1>2, <1>4 DEF Shape
<1>. QED  BY <1>3, <1>5 DEF Shape

\* The fields of a request in hand.
LEMMA RequestFields ==
    ASSUME NEW q \in RequestRecords
    PROVE  /\ q.key \in Keys \cup {NoKey} /\ q.of \in Ids \cup Suggestions \cup {0}
           /\ q.target \in ProviderIds \cup {Uuid(n) : n \in Ids} \cup {NoId}
           /\ q.id \in Ids \cup {0} /\ q.pid \in ProviderIds \cup {NoId}
           /\ q.loaded \in SuggestionRecords /\ q.todo \in SUBSET Ids
           /\ q.retried \in BOOLEAN /\ q.gone \in BOOLEAN
BY DEF RequestRecords

\* No event is built, or one that keeps EventsInv.
EventFits(e) ==
    /\ e \in EventRecords
    /\ e.by = "approve" => e.of \in Suggestions /\ Kept(e.key) = Kept(suggestions[e.of].key)
    /\ e.by = "sync" => e.of \in 1..Len(events)
EventsGrow ==
    \/ events' = events
    \/ \E e : EventFits(e) /\ Len(events) < MaxEvents /\ events' = Append(events, e)
SuggestionsKept ==
    /\ suggestions' \in [Suggestions -> SuggestionRecords]
    /\ \A s \in Suggestions : suggestions'[s].key \in {suggestions[s].key, Kept(suggestions[s].key)}
StoresKept ==
    /\ rows' \in [Ids -> ProviderIds \cup {NoId}] /\ memory' \in [Ids -> ProviderIds \cup {NoId}]
    /\ times' \in [Ids -> Keys \cup {NoKey}]
    /\ \A n \in Ids :
         /\ \/ rows'[n] \in {rows[n], NoId}
            \/ n \in 1..Len(events) /\ (IsMem(rows'[n]) => rows'[n] = MemId(n))
         /\ \/ memory'[n] \in {memory[n], NoId}
            \/ n \in 1..Len(events) /\ memory'[n] \in {MemId(n), GoogleId(n)}
FlagsTyped ==
    /\ database' = database /\ connected' \in BOOLEAN /\ failures' \in 0..MaxFailures
    /\ overlapped' \in BOOLEAN /\ torn' \in BOOLEAN /\ relinked' \in BOOLEAN
    /\ asked' \cup deleted' \subseteq ProviderIds \cup {NoId}

\* Events only grow, and the old ones stay what they are.
LEMMA Grown ==
    ASSUME BaseInv, EventsGrow, SuggestionsKept, database' = database
    PROVE  /\ events' \in Seq(EventRecords) /\ Len(events') \in Nat /\ Len(events') <= MaxEvents
           /\ Len(events) \in Nat /\ Len(events) <= Len(events') /\ Len(events) <= MaxEvents
           /\ \A n \in 1..Len(events) : n \in 1..Len(events') /\ events'[n] = events[n]
           /\ EventsInv'
<1>0. /\ events \in Seq(EventRecords) /\ Len(events) \in Nat /\ Len(events) <= MaxEvents
      /\ MaxEvents \in Nat
    BY BoundsAssumption DEF BaseInv, TypeOK
<1>1. \A s \in Suggestions :
        suggestions'[s].key \in Keys /\ Kept(suggestions[s].key)' = Kept(suggestions[s].key)
  <2>1. ASSUME NEW s \in Suggestions
        PROVE  suggestions'[s].key \in Keys /\ Kept(suggestions'[s].key) = Kept(suggestions[s].key)
      BY KeptKeys DEF BaseInv, EventsInv, SuggestionsKept
  <2>. QED  BY <2>1 DEF Kept
<1>2. CASE events' = events
  <2>1. \A n \in 1..Len(events') : RowKey(n)' = RowKey(n)
      BY <1>2 DEF RowKey, Kept
  <2>. QED  BY <1>0, <1>1, <1>2, <2>1 DEF BaseInv, EventsInv
<1>3. CASE events' # events
  <2>1. PICK e : EventFits(e) /\ Len(events) < MaxEvents /\ events' = Append(events, e)
      BY <1>3 DEF EventsGrow
  <2>2. e \in EventRecords
      BY <2>1 DEF EventFits
  <2>3. /\ events' \in Seq(EventRecords) /\ Len(events') = Len(events) + 1
        /\ events'[Len(events) + 1] = e
        /\ \A n \in 1..Len(events) : events'[n] = events[n]
      BY <1>0, <2>1, <2>2
  <2>4. ASSUME NEW n \in 1..Len(events')
        PROVE  /\ events'[n].by = "approve" =>
                    /\ events'[n].of \in Suggestions
                    /\ RowKey(n)' = Kept(suggestions[events[n].of].key)'
               /\ events'[n].by = "sync" => events'[n].of \in 1..(n - 1)
    <3>1. CASE n = Len(events) + 1
      <4>1. (Len(events) + 1) - 1 = Len(events)
          BY <1>0
      <4>2. ASSUME e.by = "approve"
            PROVE  e.of \in Suggestions /\ RowKey(n)' = Kept(suggestions[events[n].of].key)'
        <5>1. e.of \in Suggestions /\ Kept(e.key) = Kept(suggestions[e.of].key)
            BY <2>1, <4>2 DEF EventFits
        <5>2. Kept(suggestions[e.of].key)' = Kept(suggestions[e.of].key)
            BY <1>1, <5>1
        <5>3. RowKey(n)' = Kept(e.key)
            BY <2>3, <3>1 DEF RowKey, Kept
        <5>. QED  BY <2>3, <3>1, <5>1, <5>2, <5>3 DEF Kept
      <4>. QED  BY <2>1, <2>3, <3>1, <4>1, <4>2 DEF EventFits
    <3>2. CASE n # Len(events) + 1
      <4>1. n \in 1..Len(events) /\ events'[n] = events[n]
          BY <1>0, <2>3, <3>2
      <4>2. RowKey(n)' = RowKey(n)
          BY <4>1 DEF RowKey, Kept
      <4>3. events[n].by = "approve" =>
              Kept(suggestions[events[n].of].key)' = Kept(suggestions[events[n].of].key)
          BY <1>1, <4>1 DEF BaseInv, EventsInv, Kept
      <4>. QED  BY <4>1, <4>2, <4>3 DEF BaseInv, EventsInv
    <3>. QED  BY <3>1, <3>2
  <2>5. EventsInv'
      BY <1>1, <2>4 DEF EventsInv
  <2>. QED  BY <1>0, <2>1, <2>3, <2>5
<1>. QED  BY <1>2, <1>3

\* Any step that changes the parts in these ways keeps BaseInv.
LEMMA BaseStep ==
    ASSUME BaseInv, EventsGrow, SuggestionsKept, StoresKept, FlagsTyped,
           google' \subseteq 1..Len(events'),
           request' \in [Requests -> RequestRecords],
           \A r \in Requests : Shape(request'[r], events') \/ request'[r] = request[r]
    PROVE  BaseInv'
<1>1. /\ events' \in Seq(EventRecords) /\ Len(events') \in Nat /\ Len(events') <= MaxEvents
      /\ Len(events) \in Nat /\ Len(events) <= Len(events')
      /\ \A n \in 1..Len(events) : n \in 1..Len(events') /\ events'[n] = events[n]
      /\ EventsInv'
    BY Grown DEF FlagsTyped
<1>2. TypeOK'
    BY <1>1 DEF BaseInv, TypeOK, SuggestionsKept, StoresKept, FlagsTyped, RequestRecords
<1>3. ShapesInv'
  <2>1. ASSUME NEW r \in Requests PROVE Shape(request'[r], events')
    <3>1. CASE request'[r] = request[r]
      <4>1. Shape(request[r], events)
          BY DEF BaseInv, ShapesInv
      <4>2. Shape(request[r], events')
          BY <1>1, <4>1, ShapeGrown
      <4>. QED  BY <3>1, <4>2
    <3>. QED  BY <3>1
  <2>. QED  BY <2>1 DEF ShapesInv
<1>4. StoresInv'
  <2>1. ASSUME NEW n \in Ids
        PROVE  /\ Stored(rows'[n]) \/ Stored(memory'[n]) => n <= Len(events')
               /\ IsMem(rows'[n]) => rows'[n] = MemId(n)
               /\ memory'[n] \in {NoId, MemId(n), GoogleId(n)}
    <3>0. n \in Nat
        BY BoundsAssumption DEF Ids
    <3>1. /\ Stored(rows[n]) \/ Stored(memory[n]) => n <= Len(events)
          /\ IsMem(rows[n]) => rows[n] = MemId(n)
          /\ memory[n] \in {NoId, MemId(n), GoogleId(n)}
        BY DEF BaseInv, StoresInv
    <3>2. IsMem(rows'[n]) => rows'[n] = MemId(n)
        BY <3>1, Pids DEF StoresKept
    <3>3. memory'[n] \in {NoId, MemId(n), GoogleId(n)}
        BY <3>1 DEF StoresKept
    <3>4. Stored(rows'[n]) \/ Stored(memory'[n]) => n <= Len(events)
        BY <1>1, <3>0, <3>1, Pids DEF StoresKept
    <3>. QED  BY <1>1, <3>0, <3>2, <3>3, <3>4
  <2>. QED  BY <2>1 DEF StoresInv
<1>. QED  BY <1>1, <1>2, <1>3, <1>4 DEF BaseInv

\* One request goes on to q.
LEMMA OneRequest ==
    ASSUME BaseInv, NEW r \in Requests, NEW q, request' = [request EXCEPT ![r] = q]
    PROVE  /\ request'[r] = q /\ \A t \in Requests \ {r} : request'[t] = request[t]
           /\ q \in RequestRecords => request' \in [Requests -> RequestRecords]
           /\ Shape(q, events') =>
                \A t \in Requests : Shape(request'[t], events') \/ request'[t] = request[t]
<1>1. request \in [Requests -> RequestRecords]
    BY DEF BaseInv, TypeOK, RequestRecords
<1>2. request'[r] = q /\ \A t \in Requests \ {r} : request'[t] = request[t]
    BY <1>1
<1>. QED  BY <1>1, <1>2

\* What happens to calls and sessions keeps their count and torn.
FaultsTyped == failures' \in 0..MaxFailures /\ torn' \in BOOLEAN /\ (torn => torn')
\* What each outcome of a call or a session does to failures and torn.
LEMMA Faults ==
    ASSUME BaseInv
    PROVE  /\ UNCHANGED faults => FaultsTyped /\ torn' = torn
           /\ Tear => FaultsTyped /\ torn'
           /\ \A b \in BOOLEAN : Answer(b) => FaultsTyped /\ torn' = torn
           /\ \A b \in BOOLEAN : Commit(b) => FaultsTyped
           /\ \A b \in BOOLEAN : Commit(b) /\ ~torn' => b
<1>1. failures \in 0..MaxFailures /\ torn \in BOOLEAN /\ MaxFailures \in Nat
    BY BoundsAssumption DEF BaseInv, TypeOK
<1>2. UNCHANGED faults => FaultsTyped /\ torn' = torn
    BY <1>1 DEF faults, FaultsTyped
<1>3. MayFail => failures' \in 0..MaxFailures
    BY <1>1 DEF MayFail
<1>4. Tear => FaultsTyped /\ torn'
    BY <1>1, <1>3 DEF Tear, FaultsTyped
<1>5. ASSUME NEW b \in BOOLEAN, Answer(b) PROVE FaultsTyped /\ torn' = torn
    BY <1>1, <1>3, <1>5 DEF Answer, FaultsTyped
<1>6. ASSUME NEW b \in BOOLEAN, Commit(b) PROVE FaultsTyped /\ (~torn' => b)
    BY <1>1, <1>4, <1>6 DEF Commit, FaultsTyped
<1>. QED  BY <1>2, <1>4, <1>5, <1>6

\* What a step leaves alone is kept.
LEMMA Same ==
    ASSUME BaseInv
    PROVE  /\ UNCHANGED events => EventsGrow
           /\ UNCHANGED suggestions => SuggestionsKept
           /\ UNCHANGED <<rows, memory, times>> => StoresKept
           /\ UNCHANGED <<google, events>> => google' \subseteq 1..Len(events')
<1>1. TypeOK
    BY DEF BaseInv
<1>. QED  BY <1>1 DEF EventsGrow, SuggestionsKept, StoresKept, TypeOK

\* The event a step builds is the next one.
LEMMA Built ==
    ASSUME BaseInv, NEW key, NEW by, NEW of, Build(key, by, of),
           EventFits([key |-> key, by |-> by, of |-> of])
    PROVE  /\ EventsGrow /\ Len(events') = Len(events) + 1
           /\ Len(events) + 1 \in 1..Len(events') /\ Len(events) + 1 \in Ids
           /\ events'[Len(events) + 1] = [key |-> key, by |-> by, of |-> of]
           /\ 1..Len(events) \subseteq 1..Len(events')
<1>0. /\ events \in Seq(EventRecords) /\ Len(events) \in Nat /\ Len(events) <= MaxEvents
      /\ MaxEvents \in Nat
    BY BoundsAssumption DEF BaseInv, TypeOK
<1>1. PICK e : e = [key |-> key, by |-> by, of |-> of]
    OBVIOUS
<1>2. e \in EventRecords /\ Len(events) < MaxEvents /\ events' = Append(events, e)
    BY <1>1 DEF EventFits, Build
<1>3. Len(events') = Len(events) + 1 /\ events'[Len(events) + 1] = e
    BY <1>0, <1>2
<1>4. EventsGrow
    BY <1>1, <1>2 DEF EventsGrow
<1>5. Len(events) + 1 \in Ids /\ Len(events) + 1 \in 1..Len(events')
    BY <1>0, <1>2, <1>3 DEF Ids
<1>6. 1..Len(events) \subseteq 1..Len(events')
    BY <1>0, <1>3
<1>. QED  BY <1>1, <1>3, <1>4, <1>5, <1>6

----------------------------------------------------------------------------
(* Every step keeps BaseInv *)

\* The request that takes a step, and what it is.
LEMMA InHandFields ==
    ASSUME BaseInv, NEW r \in Requests
    PROVE  request[r] \in RequestRecords /\ Shape(request[r], events)
BY DEF BaseInv, TypeOK, ShapesInv, RequestRecords

\* A step that only takes one request on.
LEMMA QuietStep ==
    ASSUME BaseInv, NEW r \in Requests, NEW q,
           request' = [request EXCEPT ![r] = q], q \in RequestRecords, Shape(q, events),
           UNCHANGED <<database, connected, stores, events, suggestions, relinked, deleted>>,
           FaultsTyped, overlapped' \in BOOLEAN, asked' \subseteq ProviderIds \cup {NoId}
    PROVE  BaseInv'
<1>1. EventsGrow /\ SuggestionsKept /\ StoresKept /\ google' \subseteq 1..Len(events')
    BY Same DEF stores, local
<1>2. FlagsTyped
    BY DEF FlagsTyped, FaultsTyped, BaseInv, TypeOK
<1>3. Shape(q, events')
    OBVIOUS
<1>4. /\ request' \in [Requests -> RequestRecords]
      /\ \A t \in Requests : Shape(request'[t], events') \/ request'[t] = request[t]
    BY <1>3, OneRequest
<1>. QED  BY <1>1, <1>2, <1>4, BaseStep

\* The same, of a step of a request that asks for no deletion.
LEMMA QuietOn ==
    ASSUME BaseInv, NEW r \in Requests, NEW from, NEW q, Step(r, from, q),
           q \in RequestRecords, Shape(q, events),
           UNCHANGED <<database, connected, stores, events, suggestions, relinked, deleted>>,
           FaultsTyped
    PROVE  BaseInv'
<1>1. /\ request' = [request EXCEPT ![r] = q]
      /\ overlapped' \in BOOLEAN /\ asked' \subseteq ProviderIds \cup {NoId}
    BY DEF Step, BaseInv, TypeOK
<1>. QED  BY <1>1, QuietStep

\* A request that is over is in hand with nothing.
LEMMA IdleShape ==
    ASSUME BaseInv PROVE Idle \in RequestRecords /\ Shape(Idle, events) /\ Shape(Idle, events')
<1>1. /\ Idle.op = "none" /\ Idle.pc = "idle" /\ Idle.pid = NoId /\ Idle.todo = {}
      /\ Idle.gone = FALSE
    BY DEF Idle
<1>2. Idle \in RequestRecords
    BY DEF Idle, RequestRecords, SuggestionRecords, NoSuggestion
<1>. QED  BY <1>1, <1>2, Pids DEF Shape, OpAt, Making, Untold

\* A request whose pc alone changes.
Moved(p, q) ==
    /\ q.op = p.op /\ q.key = p.key /\ q.of = p.of /\ q.target = p.target /\ q.id = p.id
    /\ q.pid = p.pid /\ q.loaded = p.loaded /\ q.todo = p.todo /\ q.gone = p.gone
\* A request whose pc moves on as the code moves it keeps its shape.
LEMMA MovedShape ==
    ASSUME NEW p \in RequestRecords, NEW q \in RequestRecords, NEW ev, Shape(p, ev), Moved(p, q),
           \/ p.pc = "list" /\ q.pc = "listlocal"
           \/ p.pc \in Untold /\ q.pc \in Untold \cup {"search"}
           \/ p.pc = "search" /\ q.pc = Caller(q.op) /\ Stored(q.pid)
           \/ p.pc = "search" /\ q.pc = "store" /\ Stored(q.pid)
           \/ p.pc = "store" /\ q.pc = Caller(q.op)
           \/ p.pc = "relink" /\ q.pc = "next"
    PROVE  Shape(q, ev)
<1>1. /\ q.op = p.op /\ q.key = p.key /\ q.of = p.of /\ q.target = p.target /\ q.id = p.id
      /\ q.pid = p.pid /\ q.loaded = p.loaded /\ q.todo = p.todo /\ q.gone = p.gone
    BY DEF Moved
<1>2. CASE p.pc = "list" /\ q.pc = "listlocal"
    BY <1>1, <1>2, Pids DEF Shape, OpAt, Making, Untold
<1>3. CASE p.pc \in Untold /\ q.pc \in Untold \cup {"search"}
    BY <1>1, <1>3, Pids DEF Shape, OpAt, Making, Untold
<1>4. CASE p.pc = "search" /\ q.pc = Caller(q.op) /\ Stored(q.pid)
    BY <1>1, <1>4, Pids DEF Shape, OpAt, Making, Untold, Caller
<1>5. CASE p.pc = "search" /\ q.pc = "store" /\ Stored(q.pid)
    BY <1>1, <1>5, Pids DEF Shape, OpAt, Making, Untold, Caller
<1>6. CASE p.pc = "store" /\ q.pc = Caller(q.op)
    BY <1>1, <1>6, Pids DEF Shape, OpAt, Making, Untold, Caller
<1>7. CASE p.pc = "relink" /\ q.pc = "next"
    BY <1>1, <1>7, Pids DEF Shape, OpAt, Making, Untold
<1>. QED  BY <1>2, <1>3, <1>4, <1>5, <1>6, <1>7

\* A step of a request that has no event yet, or that is on its way to Google or
\* back, and of one that is done.
Quiet(r, q) ==
    /\ UNCHANGED <<database, connected, google, rows, memory, times, events, suggestions, overlapped, relinked,
                   asked, deleted>>
    /\ FaultsTyped /\ q \in RequestRecords /\ request' = [request EXCEPT ![r] = q]
    /\ \/ request[r].pc \in {"list", "next"} /\ q = Idle
       \/ request[r].pc = "list" /\ q.pc = "listlocal" /\ Moved(request[r], q)
       \/ /\ request[r].pc \in Untold /\ q.pc \in Untold \cup {"search"}
          /\ Moved(request[r], q)

\* The steps that only take a request on: listing, tokens, refusal, refresh, end.
LEMMA QuietListing ==
    ASSUME BaseInv, NEW r \in Requests, ListGoogle(r) PROVE \E q : Quiet(r, q)
<1>1. PICK answered \in BOOLEAN : Answer(answered) /\ Step(r, "list",
          IF /\ connected /\ answered
             /\ \E n \in google : Utc[events[n].key] = Utc[request[r].key]
          THEN Idle ELSE [request[r] EXCEPT !.pc = "listlocal"])
    BY DEF ListGoogle
<1>2. PICK p, q : /\ p = request[r] /\ q = [p EXCEPT !.pc = "listlocal"]
                  /\ p \in RequestRecords /\ Shape(p, events)
    BY InHandFields
<1>3. q \in RequestRecords /\ Moved(p, q) /\ q.pc = "listlocal"
    BY <1>2 DEF RequestRecords, Moved
<1>4. p.pc = "list" /\ (Step(r, "list", Idle) \/ Step(r, "list", q))
    BY <1>1, <1>2 DEF Step
<1>5. /\ UNCHANGED <<database, connected, google, rows, memory, times, events, suggestions, overlapped,
                     relinked, asked, deleted>>
      /\ FaultsTyped
    BY <1>1, Faults DEF ListGoogle, Step, stores, local
<1>. QED  BY <1>2, <1>3, <1>4, <1>5, IdleShape DEF Quiet, Step

LEMMA QuietTokens ==
    ASSUME BaseInv, NEW r \in Requests, GetTokens(r) PROVE \E q : Quiet(r, q)
<1>1. PICK answered \in BOOLEAN : Answer(answered) /\ Step(r, "tokens",
          [request[r] EXCEPT !.pc = IF connected /\ answered THEN "insert" ELSE "search"])
    BY DEF GetTokens
<1>2. PICK c : c = IF connected /\ answered THEN "insert" ELSE "search"
    OBVIOUS
<1>3. PICK p, q : /\ p = request[r] /\ q = [p EXCEPT !.pc = c]
                  /\ p \in RequestRecords /\ Shape(p, events)
    BY InHandFields
<1>4. q \in RequestRecords /\ Moved(p, q) /\ q.pc = c /\ c \in {"insert", "search"}
    BY <1>2, <1>3 DEF RequestRecords, Moved
<1>5. p.pc = "tokens" /\ Step(r, "tokens", q)
    BY <1>1, <1>2, <1>3 DEF Step
<1>6. /\ UNCHANGED <<database, connected, google, rows, memory, times, events, suggestions, overlapped,
                     relinked, asked, deleted>>
      /\ FaultsTyped
    BY <1>1, Faults DEF GetTokens, Step, stores, local
<1>. QED  BY <1>3, <1>4, <1>5, <1>6 DEF Quiet, Step, Untold

LEMMA QuietRefusal ==
    ASSUME BaseInv, NEW r \in Requests, InsertRefused(r) PROVE \E q : Quiet(r, q)
<1>1. PICK c : c = IF request[r].retried THEN "search" ELSE "refresh"
    OBVIOUS
<1>2. PICK p, q : /\ p = request[r] /\ q = [p EXCEPT !.pc = c]
                  /\ p \in RequestRecords /\ Shape(p, events)
    BY InHandFields
<1>3. q \in RequestRecords /\ Moved(p, q) /\ q.pc = c /\ c \in {"refresh", "search"}
    BY <1>1, <1>2 DEF RequestRecords, Moved
<1>4. p.pc = "insert" /\ Step(r, "insert", q)
    BY <1>1, <1>2 DEF InsertRefused, Step
<1>5. /\ UNCHANGED <<database, connected, google, rows, memory, times, events, suggestions, overlapped,
                     relinked, asked, deleted>>
      /\ FaultsTyped
    BY Faults DEF InsertRefused, Step, stores, local
<1>. QED  BY <1>2, <1>3, <1>4, <1>5 DEF Quiet, Step, Untold

LEMMA QuietRefresh ==
    ASSUME BaseInv, NEW r \in Requests, Refresh(r) PROVE \E q : Quiet(r, q)
<1>1. PICK answered \in BOOLEAN : Answer(answered) /\ Step(r, "refresh",
          [request[r] EXCEPT !.retried = TRUE,
               !.pc = IF connected /\ answered THEN "insert" ELSE "search"])
    BY DEF Refresh
<1>2. PICK c : c = IF connected /\ answered THEN "insert" ELSE "search"
    OBVIOUS
<1>3. PICK p, q : /\ p = request[r] /\ q = [p EXCEPT !.retried = TRUE, !.pc = c]
                  /\ p \in RequestRecords /\ Shape(p, events)
    BY InHandFields
<1>4. q \in RequestRecords /\ Moved(p, q) /\ q.pc = c /\ c \in {"insert", "search"}
  <2>1. c \in {"insert", "search"}
      BY <1>2
  <2>2. Moved(p, q) /\ q.pc = c
      BY <1>3 DEF RequestRecords, Moved
  <2>3. PICK w : w = [p EXCEPT !.retried = TRUE]
      OBVIOUS
  <2>4. w \in RequestRecords
      BY <1>3, <2>3 DEF RequestRecords
  <2>5. q = [w EXCEPT !.pc = c]
      BY <1>3, <2>3 DEF RequestRecords
  <2>6. q \in RequestRecords
      BY <2>1, <2>4, <2>5 DEF RequestRecords
  <2>. QED  BY <2>1, <2>2, <2>6
<1>5. p.pc = "refresh" /\ Step(r, "refresh", q)
    BY <1>1, <1>2, <1>3 DEF Step
<1>6. /\ UNCHANGED <<database, connected, google, rows, memory, times, events, suggestions, overlapped,
                     relinked, asked, deleted>>
      /\ FaultsTyped
    BY <1>1, Faults DEF Refresh, Step, stores, local
<1>. QED  BY <1>3, <1>4, <1>5, <1>6 DEF Quiet, Step, Untold

LEMMA QuietEnd ==
    ASSUME BaseInv, NEW r \in Requests, SyncDone(r) PROVE \E q : Quiet(r, q)
<1>1. /\ Step(r, "next", Idle) /\ FaultsTyped
      /\ UNCHANGED <<database, connected, google, rows, memory, times, events, suggestions, overlapped,
                     relinked, asked, deleted>>
    BY Faults DEF SyncDone, Step, stores, local
<1>. QED  BY <1>1, IdleShape DEF Quiet, Step

\* Such a step keeps BaseInv.
LEMMA QuietBase ==
    ASSUME BaseInv, NEW r \in Requests, NEW q, Quiet(r, q) PROVE BaseInv'
<1>1. request[r] \in RequestRecords /\ Shape(request[r], events) /\ q \in RequestRecords
    BY InHandFields DEF Quiet
<1>2. Shape(q, events)
    BY <1>1, IdleShape, MovedShape DEF Quiet
<1>3. /\ UNCHANGED <<database, connected, stores, events, suggestions, relinked, deleted>>
      /\ overlapped' \in BOOLEAN /\ asked' \subseteq ProviderIds \cup {NoId}
      /\ FaultsTyped /\ request' = [request EXCEPT ![r] = q]
    BY DEF Quiet, stores, local, BaseInv, TypeOK
<1>. QED  BY <1>1, <1>2, <1>3, QuietStep

\* An event that was built is one.
LEMMA EventTyped ==
    ASSUME BaseInv, NEW n \in 1..Len(events)
    PROVE  events[n] \in EventRecords /\ events[n].key \in Keys /\ RowKey(n) \in Keys
<1>1. events \in Seq(EventRecords)
    BY DEF BaseInv, TypeOK
<1>2. events[n] \in EventRecords
    BY <1>1
<1>3. events[n].key \in Keys
    BY <1>2 DEF EventRecords
<1>. QED  BY <1>2, <1>3, KeptKeys DEF RowKey

\* What the local create_event does when it has looked for a duplicate.
LEMMA Searched ==
    ASSUME BaseInv, NEW r \in Requests, SearchLocal(r)
    PROVE  \E q : /\ q \in RequestRecords /\ Step(r, "search", q)
                  /\ q.op = request[r].op /\ q.of = request[r].of
                  /\ q.target = request[r].target /\ q.todo = request[r].todo
                  /\ q.loaded = request[r].loaded /\ q.gone = request[r].gone
                  /\ \/ /\ Stored(request[r].pid) /\ q.pid = request[r].pid
                        /\ q.id = request[r].id /\ q.pc = Caller(q.op) /\ q.key = request[r].key
                        /\ \E n \in Duplicates(q.key) : Duplicates(q.key) = {n}
                     \/ /\ ~Stored(request[r].pid) /\ q.id \in Ids /\ q.pid = MemId(q.id)
                        /\ rows[q.id] = MemId(q.id) /\ q.key = RowKey(q.id)
                        /\ q.id \in 1..Len(events) /\ q.pc = Caller(q.op)
                        /\ Duplicates(request[r].key) = {q.id}
                     \/ /\ q.id = request[r].id /\ q.pc = "store" /\ q.key = request[r].key
                        /\ q.pid = IF Stored(request[r].pid) THEN request[r].pid
                                   ELSE MemId(request[r].id)
                        /\ ~torn' => Cardinality(Duplicates(q.key)) # 1
<1>1. PICK p : p = request[r] /\ p \in RequestRecords /\ Shape(p, events)
    BY InHandFields
<1>2. PICK committed \in BOOLEAN :
          /\ Commit(committed)
          /\ \/ /\ committed /\ Cardinality(Duplicates(p.key)) = 1
                /\ \E n \in Duplicates(p.key) :
                       Step(r, "search", [Found(p, n) EXCEPT !.pc = Caller(p.op)])
             \/ /\ ~committed \/ Cardinality(Duplicates(p.key)) # 1
                /\ Step(r, "search", [p EXCEPT !.pc = "store",
                           !.pid = IF Stored(p.pid) THEN p.pid ELSE MemId(p.id)])
    BY <1>1 DEF SearchLocal
<1>3. p.pc = "search"
    BY <1>1, <1>2 DEF Step
<1>4. p.op \in {"create", "approve", "sync"} /\ p.id \in 1..Len(events)
    BY <1>1, <1>3 DEF Shape, OpAt, Making, Untold
<1>5. Caller(p.op) \in {"repo", "finish", "relink"}
    BY <1>4 DEF Caller
<1>6. Len(events) \in Nat /\ Len(events) <= MaxEvents /\ MaxEvents \in Nat
    BY BoundsAssumption DEF BaseInv, TypeOK
<1>7. ASSUME NEW n \in Duplicates(p.key)
      PROVE  n \in Ids /\ n \in 1..Len(events) /\ rows[n] = MemId(n) /\ RowKey(n) \in Keys
  <2>1. n \in Ids /\ IsMem(rows[n])
      BY DEF Duplicates
  <2>2. rows[n] = MemId(n) /\ n <= Len(events)
      BY <2>1, Pids DEF BaseInv, StoresInv
  <2>3. n \in 1..Len(events)
      BY <1>6, <2>1, <2>2 DEF Ids
  <2>. QED  BY <2>1, <2>2, <2>3, EventTyped
<1>8. CASE /\ committed /\ Cardinality(Duplicates(p.key)) = 1
           /\ \E n \in Duplicates(p.key) :
                  Step(r, "search", [Found(p, n) EXCEPT !.pc = Caller(p.op)])
  <2>1. PICK n \in Duplicates(p.key) :
            Step(r, "search", [Found(p, n) EXCEPT !.pc = Caller(p.op)])
      BY <1>8
  <2>2. Duplicates(p.key) = {n}
    <3>1. Ids \in SUBSET Nat /\ IsFiniteSet(Ids)
        BY <1>6, FS_Interval DEF Ids
    <3>2. Duplicates(p.key) \subseteq Ids
        BY DEF Duplicates
    <3>3. IsFiniteSet(Duplicates(p.key))
        BY <3>1, <3>2, FS_Subset
    <3>4. PICK m : Duplicates(p.key) = {m}
        BY <1>8, <3>3, FS_Singleton
    <3>. QED  BY <3>4
  <2>3. CASE Stored(p.pid)
    <3>1. PICK q : q = [p EXCEPT !.pc = Caller(p.op)]
        OBVIOUS
    <3>2. Step(r, "search", q)
        BY <2>1, <2>3, <3>1 DEF Found
    <3>3. /\ q \in RequestRecords /\ q.pc = Caller(q.op) /\ q.op = p.op /\ q.key = p.key
          /\ q.of = p.of /\ q.target = p.target /\ q.todo = p.todo /\ q.loaded = p.loaded
          /\ q.gone = p.gone /\ q.pid = p.pid /\ q.id = p.id
        BY <1>1, <1>5, <3>1 DEF RequestRecords
    <3>. QED  BY <1>1, <2>2, <2>3, <3>2, <3>3
  <2>4. CASE ~Stored(p.pid)
    <3>1. PICK w, k : k = RowKey(n) /\ w = [p EXCEPT !.id = n, !.pid = rows[n], !.key = k]
        OBVIOUS
    <3>2. PICK q : q = [w EXCEPT !.pc = Caller(p.op)]
        OBVIOUS
    <3>3. Step(r, "search", q)
        BY <2>1, <2>4, <3>1, <3>2 DEF Found
    <3>4. n \in Ids /\ rows[n] = MemId(n) /\ MemId(n) \in ProviderIds /\ k \in Keys
        BY <1>7, <3>1, Pids
    <3>5. /\ w \in RequestRecords /\ w.op = p.op /\ w.key = k
          /\ w.of = p.of /\ w.target = p.target /\ w.todo = p.todo /\ w.loaded = p.loaded
          /\ w.gone = p.gone /\ w.pid = MemId(n) /\ w.id = n
        BY <1>1, <3>1, <3>4 DEF RequestRecords
    <3>6. /\ q \in RequestRecords /\ q.pc = Caller(q.op) /\ q.op = p.op /\ q.key = RowKey(n)
          /\ q.of = p.of /\ q.target = p.target /\ q.todo = p.todo /\ q.loaded = p.loaded
          /\ q.gone = p.gone /\ q.pid = MemId(n) /\ q.id = n
        BY <1>5, <3>1, <3>2, <3>5 DEF RequestRecords
    <3>. QED  BY <1>1, <1>7, <2>2, <2>4, <3>3, <3>6
  <2>. QED  BY <2>3, <2>4
<1>9. CASE /\ ~committed \/ Cardinality(Duplicates(p.key)) # 1
           /\ Step(r, "search", [p EXCEPT !.pc = "store",
                      !.pid = IF Stored(p.pid) THEN p.pid ELSE MemId(p.id)])
  <2>1. PICK i : i = IF Stored(p.pid) THEN p.pid ELSE MemId(p.id)
      OBVIOUS
  <2>2. PICK q : q = [p EXCEPT !.pc = "store", !.pid = i]
      OBVIOUS
  <2>3. p.id \in Ids
      BY <1>4, <1>6 DEF Ids
  <2>4. i \in ProviderIds \cup {NoId}
      BY <1>1, <2>1, <2>3, Pids, RequestFields
  <2>5. /\ q \in RequestRecords /\ q.pc = "store" /\ q.op = p.op /\ q.key = p.key
        /\ q.of = p.of /\ q.target = p.target /\ q.todo = p.todo /\ q.loaded = p.loaded
        /\ q.gone = p.gone /\ q.pid = i /\ q.id = p.id
    <3>1. /\ q.pc = "store" /\ q.op = p.op /\ q.key = p.key
          /\ q.of = p.of /\ q.target = p.target /\ q.todo = p.todo /\ q.loaded = p.loaded
          /\ q.gone = p.gone /\ q.pid = i /\ q.id = p.id
        BY <1>1, <2>2 DEF RequestRecords
    <3>2. PICK w : w = [p EXCEPT !.pc = "store"]
        OBVIOUS
    <3>3. w \in RequestRecords
        BY <1>1, <3>2 DEF RequestRecords
    <3>4. q = [w EXCEPT !.pid = i]
        BY <1>1, <2>2, <3>2 DEF RequestRecords
    <3>5. q \in RequestRecords
        BY <2>4, <3>3, <3>4 DEF RequestRecords
    <3>. QED  BY <3>1, <3>5
  <2>6. Step(r, "search", q)
      BY <1>9, <2>1, <2>2
  <2>7. ~torn' => Cardinality(Duplicates(p.key)) # 1
      BY <1>2, <1>9, Faults
  <2>. QED  BY <1>1, <2>1, <2>5, <2>6, <2>7
<1>. QED  BY <1>2, <1>8, <1>9

\* The duplicate search keeps BaseInv: a row found is of an event.
LEMMA SearchLocalBase ==
    ASSUME BaseInv, NEW r \in Requests, SearchLocal(r) PROVE BaseInv'
<1>1. PICK p : p = request[r] /\ p \in RequestRecords /\ Shape(p, events)
    BY InHandFields
<1>2. PICK q : /\ q \in RequestRecords /\ Step(r, "search", q)
               /\ q.op = p.op /\ q.of = p.of /\ q.target = p.target
               /\ q.loaded = p.loaded /\ q.todo = p.todo /\ q.gone = p.gone
               /\ \/ /\ Stored(p.pid) /\ q.pid = p.pid /\ q.id = p.id /\ q.pc = Caller(q.op)
                     /\ q.key = p.key
                  \/ /\ q.id \in 1..Len(events) /\ q.pid = MemId(q.id) /\ q.pc = Caller(q.op)
                  \/ /\ q.id = p.id /\ q.pc = "store" /\ q.key = p.key
                     /\ q.pid = IF Stored(p.pid) THEN p.pid ELSE MemId(p.id)
    BY <1>1, Searched
<1>3. p.pc = "search"
    BY <1>1, <1>2 DEF Step
<1>4. q.op \in {"create", "approve", "sync"} /\ OpAt(q.op, q.pc)
    BY <1>1, <1>2, <1>3 DEF Shape, OpAt, Making, Untold, Caller
<1>5. q.pc \in {"repo", "finish", "relink", "store"}
    BY <1>2, <1>4 DEF Caller
<1>6. Stored(q.pid) /\ q.id \in 1..Len(events) /\ q.pid \in {NoId, MemId(q.id), GoogleId(q.id)}
    BY <1>1, <1>2, <1>3, Pids DEF Shape, Making, Untold
<1>7. IsGoogle(q.pid) \/ q.pc \in Making => q.id = p.id /\ q.key = p.key
    BY <1>2, <1>4, Pids DEF Making, Untold, Caller
<1>8. IsGoogle(q.pid) \/ q.pc \in Making
        => events[q.id] = [key |-> q.key, by |-> q.op, of |-> q.of]
    BY <1>1, <1>2, <1>3, <1>7 DEF Shape, Making, Untold
<1>9. Shape(q, events)
    BY <1>1, <1>2, <1>3, <1>4, <1>5, <1>6, <1>8 DEF Shape, Making, Untold
<1>10. UNCHANGED <<database, connected, stores, events, suggestions, relinked, deleted>> /\ FaultsTyped
    BY <1>2, Faults DEF SearchLocal, Step
<1>. QED  BY <1>2, <1>9, <1>10, QuietOn

\* A step of a request that may also change the copies and the suggestions.
LEMMA StepOn ==
    ASSUME BaseInv, NEW r \in Requests, NEW from, NEW q, Step(r, from, q),
           q \in RequestRecords, Shape(q, events'), EventsGrow, SuggestionsKept, StoresKept,
           google' \subseteq 1..Len(events'), FaultsTyped, relinked' \in BOOLEAN,
           deleted' \subseteq ProviderIds \cup {NoId}
    PROVE  BaseInv'
<1>1. FlagsTyped
    BY DEF FlagsTyped, FaultsTyped, BaseInv, TypeOK, Step
<1>2. /\ request' \in [Requests -> RequestRecords]
      /\ \A t \in Requests : Shape(request'[t], events') \/ request'[t] = request[t]
    BY OneRequest DEF Step
<1>. QED  BY <1>1, <1>2, BaseStep

\* The type of what a step of a request leaves alone.
LEMMA StepTypes ==
    ASSUME BaseInv
    PROVE  /\ UNCHANGED relinked => relinked' \in BOOLEAN
           /\ UNCHANGED deleted => deleted' \subseteq ProviderIds \cup {NoId}
           /\ google \subseteq 1..Len(events) /\ Len(events) \in Nat /\ Len(events) <= MaxEvents
           /\ 1..Len(events) \subseteq Ids /\ Ids \subseteq Nat
BY BoundsAssumption DEF BaseInv, TypeOK, Ids

\* What Google takes is the event in hand.
LEMMA InsertAtGoogleBase ==
    ASSUME BaseInv, NEW r \in Requests, InsertAtGoogle(r) PROVE BaseInv'
<1>1. PICK p : p = request[r] /\ p \in RequestRecords /\ Shape(p, events) /\ p.pc = "insert"
    BY InHandFields DEF InsertAtGoogle, Step
<1>2. PICK w, q : w = [p EXCEPT !.pc = "search"] /\ q = [w EXCEPT !.pid = GoogleId(p.id)]
    OBVIOUS
<1>3. p.id \in 1..Len(events) /\ p.id \in Ids
    BY <1>1, StepTypes DEF Shape, Making, Untold
<1>4. GoogleId(p.id) \in ProviderIds
    BY <1>3, Pids
<1>5. w \in RequestRecords
    BY <1>1, <1>2 DEF RequestRecords
<1>6. q = [p EXCEPT !.pc = "search", !.pid = GoogleId(p.id)]
    BY <1>1, <1>2, <1>5 DEF RequestRecords
<1>7. q \in RequestRecords
  <2>1. PICK i : i = GoogleId(p.id)
      OBVIOUS
  <2>2. i \in ProviderIds \cup {NoId}
      BY <1>4, <2>1
  <2>3. q = [w EXCEPT !.pid = i]
      BY <1>2, <2>1
  <2>. QED  BY <1>5, <2>2, <2>3 DEF RequestRecords
<1>8. /\ q.op = p.op /\ q.key = p.key /\ q.of = p.of /\ q.target = p.target /\ q.id = p.id
      /\ q.pid = GoogleId(p.id) /\ q.loaded = p.loaded /\ q.todo = p.todo /\ q.gone = p.gone
      /\ q.pc = "search"
    BY <1>1, <1>6 DEF RequestRecords
<1>9. Shape(q, events)
    BY <1>1, <1>3, <1>8, Pids DEF Shape, OpAt, Making, Untold
<1>10. Step(r, "insert", q)
    BY <1>1, <1>6 DEF InsertAtGoogle
<1>11. /\ UNCHANGED <<rows, memory, times, events, suggestions, relinked, deleted>> /\ FaultsTyped
       /\ google' = google \cup {p.id}
    BY <1>1, Faults DEF InsertAtGoogle, local
<1>. QED  BY <1>3, <1>7, <1>9, <1>10, <1>11, Same, StepTypes, StepOn

\* An answer that is lost leaves Google with the event or without it.
LEMMA InsertLostBase ==
    ASSUME BaseInv, NEW r \in Requests, InsertLost(r) PROVE BaseInv'
<1>1. PICK p : p = request[r] /\ p \in RequestRecords /\ Shape(p, events) /\ p.pc = "insert"
    BY InHandFields DEF InsertLost, Step
<1>2. PICK q : q = [p EXCEPT !.pc = "search"]
    OBVIOUS
<1>3. q \in RequestRecords /\ Moved(p, q) /\ q.pc = "search"
    BY <1>1, <1>2 DEF RequestRecords, Moved
<1>4. Shape(q, events)
    BY <1>1, <1>3, MovedShape DEF Untold
<1>5. p.id \in 1..Len(events)
    BY <1>1 DEF Shape, Making, Untold
<1>6. /\ UNCHANGED <<rows, memory, times, events, suggestions, relinked, deleted>> /\ FaultsTyped
      /\ google' \in {google, google \cup {p.id}} /\ Step(r, "insert", q)
    BY <1>1, <1>2, Faults DEF InsertLost, local
<1>. QED  BY <1>3, <1>4, <1>5, <1>6, Same, StepTypes, StepOn

\* The local listing ends the request, or the event is built.
LEMMA Clashed ==
    ASSUME BaseInv, NEW r \in Requests, ListLocal(r)
    PROVE  /\ request[r].pc = "listlocal" /\ FaultsTyped
           /\ UNCHANGED <<stores, suggestions, relinked, deleted>>
           /\ \/ Step(r, "listlocal", Idle) /\ UNCHANGED events
              \/ \E q : /\ q \in RequestRecords /\ Step(r, "listlocal", q)
                        /\ q.op = "create" /\ q.key = request[r].key /\ q.of = 0
                        /\ q.key \in Keys
                        /\ q.target = request[r].target /\ q.todo = request[r].todo
                        /\ q.gone = request[r].gone /\ q.pid = NoId
                        /\ q.pc = "tokens" /\ q.id = Len(events) + 1
                        /\ Build(q.key, "create", 0)
                        /\ ~torn' => Clashes(q.key, TRUE) = {}
<1>1. PICK p : p = request[r] /\ p \in RequestRecords /\ Shape(p, events)
    BY InHandFields
<1>2. PICK committed \in BOOLEAN :
          /\ Commit(committed)
          /\ \/ /\ Step(r, "listlocal", Idle) /\ UNCHANGED events
             \/ /\ Clashes(p.key, committed) = {}
                /\ Step(r, "listlocal", [p EXCEPT !.pc = "tokens", !.id = Len(events) + 1])
                /\ Build(p.key, "create", 0)
    BY <1>1 DEF ListLocal
<1>3. p.pc = "listlocal" /\ FaultsTyped
    BY <1>1, <1>2, Faults DEF Step
<1>4. p.op = "create" /\ p.key \in Keys /\ p.of = 0 /\ p.pid = NoId
    BY <1>1, <1>3 DEF Shape, OpAt, Making, Untold
<1>5. ASSUME Clashes(p.key, committed) = {},
             Step(r, "listlocal", [p EXCEPT !.pc = "tokens", !.id = Len(events) + 1]),
             Build(p.key, "create", 0)
      PROVE  \E q : /\ q \in RequestRecords /\ Step(r, "listlocal", q)
                    /\ q.op = "create" /\ q.key = request[r].key /\ q.of = 0
                    /\ q.key \in Keys
                    /\ q.target = request[r].target /\ q.todo = request[r].todo
                    /\ q.gone = request[r].gone /\ q.pid = NoId
                    /\ q.pc = "tokens" /\ q.id = Len(events) + 1
                    /\ Build(q.key, "create", 0)
                    /\ ~torn' => Clashes(q.key, TRUE) = {}
  <2>1. PICK n, w, q : /\ n = Len(events) + 1 /\ w = [p EXCEPT !.pc = "tokens"]
                       /\ q = [w EXCEPT !.id = n]
      OBVIOUS
  <2>2. n \in Ids
      BY <1>5, <2>1, StepTypes, BoundsAssumption DEF Build, Ids
  <2>3. w \in RequestRecords
      BY <1>1, <2>1 DEF RequestRecords
  <2>4. q \in RequestRecords
    <3>1. n \in Ids \cup {0} /\ q = [w EXCEPT !.id = n]
        BY <2>1, <2>2
    <3>. QED  BY <2>3, <3>1 DEF RequestRecords
  <2>5. q = [p EXCEPT !.pc = "tokens", !.id = n]
      BY <1>1, <2>1, <2>3 DEF RequestRecords
  <2>6. /\ q.op = p.op /\ q.key = p.key /\ q.of = p.of /\ q.target = p.target /\ q.id = n
        /\ q.pid = p.pid /\ q.todo = p.todo /\ q.gone = p.gone /\ q.pc = "tokens"
      BY <1>1, <2>5 DEF RequestRecords
  <2>7. ~torn' => Clashes(p.key, TRUE) = {}
      BY <1>2, <1>5, Faults
  <2>8. Step(r, "listlocal", q)
      BY <1>5, <2>1, <2>5
  <2>. QED  BY <1>1, <1>4, <1>5, <2>1, <2>4, <2>6, <2>7, <2>8
<1>6. UNCHANGED <<stores, suggestions, relinked, deleted>>
    BY DEF ListLocal
<1>. QED  BY <1>1, <1>2, <1>3, <1>5, <1>6

\* The event that is built gets the next number.
LEMMA ListLocalBase ==
    ASSUME BaseInv, NEW r \in Requests, ListLocal(r) PROVE BaseInv'
<1>1. FaultsTyped /\ UNCHANGED <<stores, suggestions, relinked, deleted>>
    BY Clashed
<1>2. UNCHANGED <<google, rows, memory, times>>
    BY <1>1 DEF stores, local
<1>3. CASE Step(r, "listlocal", Idle) /\ UNCHANGED events
  <2>1. UNCHANGED <<database, connected>>
      BY <1>3 DEF Step
  <2>. QED  BY <1>1, <1>3, <2>1, IdleShape, QuietOn
<1>4. CASE ~(Step(r, "listlocal", Idle) /\ UNCHANGED events)
  <2>1. PICK p : p = request[r] /\ p \in RequestRecords /\ Shape(p, events)
      BY InHandFields
  <2>2. PICK q : /\ q \in RequestRecords /\ Step(r, "listlocal", q)
                 /\ q.op = "create" /\ q.of = 0 /\ q.key \in Keys
                 /\ q.target = p.target /\ q.todo = p.todo /\ q.gone = p.gone /\ q.pid = NoId
                 /\ q.pc = "tokens" /\ q.id = Len(events) + 1 /\ Build(q.key, "create", 0)
      BY <1>4, <2>1, Clashed
  <2>3. EventFits([key |-> q.key, by |-> "create", of |-> 0])
      BY <2>2 DEF EventFits, EventRecords
  <2>4. /\ EventsGrow /\ Len(events) + 1 \in 1..Len(events')
        /\ events'[Len(events) + 1] = [key |-> q.key, by |-> "create", of |-> 0]
        /\ 1..Len(events) \subseteq 1..Len(events')
      BY <2>2, <2>3, Built
  <2>5. Shape(q, events')
      BY <2>1, <2>2, <2>4, Pids DEF Shape, OpAt, Making, Untold
  <2>. QED  BY <1>1, <1>2, <2>2, <2>4, <2>5, Same, StepTypes, StepOn
<1>. QED  BY <1>3, <1>4

\* An event that is kept is stored as its own.
LEMMA KeepTyped ==
    ASSUME BaseInv, NEW r \in Requests, NEW from \in {"store", "repo"}, NEW next,
           Keep(r, from, next)
    PROVE  /\ request[r].pc = from /\ request[r].id \in 1..Len(events)
           /\ request[r].pid \in {MemId(request[r].id), GoogleId(request[r].id)}
           /\ request[r].pid \in ProviderIds
           /\ FaultsTyped /\ StoresKept
           /\ memory' = [memory EXCEPT ![request[r].id] = request[r].pid]
           /\ rows' \in {rows, Saved(request[r].id, request[r].pid)}
           /\ ~torn' => rows' = Saved(request[r].id, request[r].pid)
<1>1. PICK p : p = request[r] /\ p \in RequestRecords /\ Shape(p, events)
    BY InHandFields
<1>2. PICK committed \in BOOLEAN :
          /\ Commit(committed) /\ Step(r, from, next)
          /\ memory' = [memory EXCEPT ![p.id] = p.pid]
          /\ times' = [times EXCEPT ![p.id] = p.key]
          /\ rows' = IF committed THEN Saved(p.id, p.pid) ELSE rows
    BY <1>1 DEF Keep
<1>3. p.pc = from
    BY <1>1, <1>2 DEF Step
<1>4. /\ p.id \in 1..Len(events) /\ p.pid \in {MemId(p.id), GoogleId(p.id)} /\ p.id \in Ids
    BY <1>1, <1>3, StepTypes, Pids DEF Shape, Making, Untold
<1>5. p.pid \in ProviderIds
    BY <1>4, Pids
<1>6. FaultsTyped /\ (~torn' => committed)
    BY <1>2, Faults
<1>7. rows' \in {rows, [rows EXCEPT ![p.id] = p.pid]}
    BY <1>2 DEF Saved
<1>8. /\ rows \in [Ids -> ProviderIds \cup {NoId}] /\ memory \in [Ids -> ProviderIds \cup {NoId}]
      /\ times \in [Ids -> Keys \cup {NoKey}] /\ p.key \in Keys \cup {NoKey}
    BY <1>1, RequestFields DEF BaseInv, TypeOK
<1>9. StoresKept
  <2>1. /\ rows' \in [Ids -> ProviderIds \cup {NoId}] /\ memory' \in [Ids -> ProviderIds \cup {NoId}]
        /\ times' \in [Ids -> Keys \cup {NoKey}]
      BY <1>2, <1>4, <1>5, <1>7, <1>8
  <2>2. ASSUME NEW n \in Ids
        PROVE  /\ rows'[n] = rows[n] \/ (n = p.id /\ rows'[n] = p.pid)
               /\ memory'[n] = memory[n] \/ (n = p.id /\ memory'[n] = p.pid)
      BY <1>2, <1>4, <1>7, <1>8
  <2>3. p.pid \in {MemId(p.id), GoogleId(p.id)} /\ (IsMem(p.pid) => p.pid = MemId(p.id))
      BY <1>4, Pids
  <2>. QED  BY <1>4, <2>1, <2>2, <2>3 DEF StoresKept
<1>. QED  BY <1>1, <1>2, <1>3, <1>4, <1>5, <1>6, <1>9

\* The row and the entry are of the event in hand.
LEMMA StoreBase ==
    ASSUME BaseInv, NEW r \in Requests, Store(r) PROVE BaseInv'
<1>1. PICK p : p = request[r] /\ p \in RequestRecords /\ Shape(p, events)
    BY InHandFields
<1>2. PICK q : q = [p EXCEPT !.pc = Caller(p.op)]
    OBVIOUS
<1>3. Keep(r, "store", q)
    BY <1>1, <1>2 DEF Store
<1>4. p.pc = "store" /\ FaultsTyped /\ StoresKept
    BY <1>1, <1>3, KeepTyped
<1>5. p.op \in {"create", "approve", "sync"}
    BY <1>1, <1>4 DEF Shape, OpAt, Making, Untold
<1>6. Caller(p.op) \in {"repo", "finish", "relink"}
    BY <1>5 DEF Caller
<1>7. q \in RequestRecords /\ Moved(p, q) /\ q.pc = Caller(q.op)
    BY <1>1, <1>2, <1>6 DEF RequestRecords, Moved
<1>8. Shape(q, events)
    BY <1>1, <1>4, <1>7, MovedShape
<1>9. /\ UNCHANGED <<google, events, suggestions, relinked, deleted>> /\ Step(r, "store", q)
    BY <1>3 DEF Keep
<1>. QED  BY <1>4, <1>7, <1>8, <1>9, Same, StepTypes, StepOn

LEMMA RepoCreateBase ==
    ASSUME BaseInv, NEW r \in Requests, RepoCreate(r) PROVE BaseInv'
<1>1. FaultsTyped /\ StoresKept
    BY KeepTyped DEF RepoCreate
<1>2. UNCHANGED <<google, events, suggestions, relinked, deleted>> /\ Step(r, "repo", Idle)
    BY DEF RepoCreate, Keep
<1>. QED  BY <1>1, <1>2, IdleShape, Same, StepTypes, StepOn

\* A step that takes up a request.
LEMMA BeginOn ==
    ASSUME BaseInv, NEW r \in Requests, NEW q, Begin(r, q), q \in RequestRecords,
           Shape(q, events'), EventsGrow, asked' \subseteq ProviderIds \cup {NoId}
    PROVE  BaseInv'
<1>1. /\ request' = [request EXCEPT ![r] = q] /\ overlapped' = (overlapped \/ Busy)
      /\ UNCHANGED <<database, connected, google, rows, memory, times, suggestions, faults, relinked, deleted>>
    BY DEF Begin, stores, local
<1>2. overlapped' \in BOOLEAN
    BY <1>1, Zenon DEF BaseInv, TypeOK
<1>3. FlagsTyped
    BY <1>1, <1>2, Faults DEF FlagsTyped, FaultsTyped, BaseInv, TypeOK
<1>4. /\ request' \in [Requests -> RequestRecords]
      /\ \A t \in Requests : Shape(request'[t], events') \/ request'[t] = request[t]
    BY <1>1, OneRequest
<1>5. SuggestionsKept /\ StoresKept
    BY <1>1, Same
<1>6. google' \subseteq 1..Len(events')
    BY <1>1, <1>5, Grown, StepTypes
<1>. QED  BY <1>3, <1>4, <1>5, <1>6, BaseStep

\* Requests that are taken up have their shape.
LEMMA BeginCreateBase ==
    ASSUME BaseInv, NEW r \in Requests, NEW key \in Keys, BeginCreate(r, key) PROVE BaseInv'
<1>1. PICK q : q = [Idle EXCEPT !.op = "create", !.pc = "list", !.key = key]
    OBVIOUS
<1>2. q = [op |-> "create", pc |-> "list", key |-> key, of |-> 0, target |-> NoId,
           id |-> 0, pid |-> NoId, loaded |-> NoSuggestion, todo |-> {},
           retried |-> FALSE, gone |-> FALSE]
    BY <1>1 DEF Idle
<1>3. q \in RequestRecords
    BY <1>2 DEF RequestRecords, SuggestionRecords, NoSuggestion
<1>4. Shape(q, events')
    BY <1>2, Pids DEF Shape, OpAt, Making, Untold
<1>5. Begin(r, q) /\ UNCHANGED <<events, asked>>
    BY <1>1 DEF BeginCreate
<1>6. asked' \subseteq ProviderIds \cup {NoId} /\ EventsGrow
    BY <1>5, Same DEF BaseInv, TypeOK
<1>. QED  BY <1>3, <1>4, <1>5, <1>6, BeginOn

LEMMA BeginSyncBase ==
    ASSUME BaseInv, NEW r \in Requests, BeginSync(r) PROVE BaseInv'
<1>1. PICK td, q : /\ td = {n \in Ids : IsMem(rows[n])}
                   /\ q = [Idle EXCEPT !.op = "sync", !.pc = "next", !.todo = td]
    OBVIOUS
<1>2. q = [op |-> "sync", pc |-> "next", key |-> NoKey, of |-> 0, target |-> NoId,
           id |-> 0, pid |-> NoId, loaded |-> NoSuggestion, todo |-> td,
           retried |-> FALSE, gone |-> FALSE]
    BY <1>1 DEF Idle
<1>3. td \subseteq Ids /\ td \subseteq 1..Len(events)
  <2>1. ASSUME NEW n \in td PROVE n \in Ids /\ n \in 1..Len(events)
    <3>1. n \in Ids /\ Stored(rows[n])
        BY <1>1 DEF IsMem, Stored, NoId
    <3>. QED  BY <3>1, StepTypes DEF BaseInv, StoresInv, Ids
  <2>. QED  BY <2>1
<1>4. q \in RequestRecords
    BY <1>2, <1>3 DEF RequestRecords, SuggestionRecords, NoSuggestion
<1>5. Begin(r, q) /\ UNCHANGED <<events, asked>>
    BY <1>1 DEF BeginSync
<1>6. Shape(q, events')
    BY <1>2, <1>3, <1>5, Pids DEF Shape, OpAt, Making, Untold
<1>7. asked' \subseteq ProviderIds \cup {NoId} /\ EventsGrow
    BY <1>5, Same DEF BaseInv, TypeOK
<1>. QED  BY <1>4, <1>5, <1>6, <1>7, BeginOn

\* What BeginApprove takes up: a request that builds, or one that only commits.
LEMMA Approving ==
    ASSUME BaseInv, NEW r \in Requests, NEW s \in Suggestions, NEW o,
           BeginApprove(r, s, o)
    PROVE  \E q : /\ q \in RequestRecords /\ Begin(r, q) /\ UNCHANGED asked
                  /\ q.op = "approve" /\ q.of = s /\ q.key = suggestions[s].key
                  /\ q.loaded = suggestions[s] /\ q.target = NoId /\ q.pid = NoId
                  /\ q.todo = {} /\ q.gone = FALSE
                  /\ \/ q.pc = "finish" /\ q.id = 0 /\ UNCHANGED events
                     \/ /\ q.pc = "tokens" /\ q.id = Len(events) + 1
                        /\ Build(q.key, "approve", s) /\ ~IsGoogle(suggestions[s].event)
<1>1. PICK sg, w : /\ sg = suggestions[s]
                   /\ w = [Idle EXCEPT !.op = "approve", !.of = s, !.key = sg.key, !.loaded = sg]
    OBVIOUS
<1>2. w = [op |-> "approve", pc |-> "idle", key |-> sg.key, of |-> s, target |-> NoId,
           id |-> 0, pid |-> NoId, loaded |-> sg, todo |-> {}, retried |-> FALSE, gone |-> FALSE]
    BY <1>1 DEF Idle
<1>3. sg \in SuggestionRecords /\ sg.key \in Keys
    BY <1>1 DEF BaseInv, TypeOK, EventsInv
<1>4. CASE NeedsEvent(sg, o)
  <2>1. PICK n, q : n = Len(events) + 1 /\ q = [w EXCEPT !.pc = "tokens", !.id = n]
      OBVIOUS
  <2>2. Begin(r, q) /\ Build(sg.key, "approve", s) /\ UNCHANGED asked
      BY <1>1, <1>4, <2>1 DEF BeginApprove
  <2>3. n \in Ids
      BY <2>1, <2>2, StepTypes, BoundsAssumption DEF Build, Ids
  <2>4. q = [op |-> "approve", pc |-> "tokens", key |-> sg.key, of |-> s, target |-> NoId,
             id |-> n, pid |-> NoId, loaded |-> sg, todo |-> {}, retried |-> FALSE,
             gone |-> FALSE]
      BY <1>2, <2>1
  <2>5. q \in RequestRecords
      BY <1>3, <2>3, <2>4 DEF RequestRecords
  <2>6. ~IsGoogle(sg.event)
      BY <1>4 DEF NeedsEvent
  <2>7. /\ q.op = "approve" /\ q.of = s /\ q.key = sg.key /\ q.loaded = sg
        /\ q.target = NoId /\ q.pid = NoId /\ q.todo = {} /\ q.gone = FALSE
        /\ q.pc = "tokens" /\ q.id = n
      BY <2>4
  <2>8. Build(q.key, "approve", s)
      BY <2>2, <2>7
  <2>. QED  BY <1>1, <2>1, <2>2, <2>5, <2>6, <2>7, <2>8
<1>5. CASE ~NeedsEvent(sg, o)
  <2>1. PICK q : q = [w EXCEPT !.pc = "finish"]
      OBVIOUS
  <2>2. Begin(r, q) /\ UNCHANGED <<events, asked>>
      BY <1>1, <1>5, <2>1 DEF BeginApprove
  <2>3. q = [op |-> "approve", pc |-> "finish", key |-> sg.key, of |-> s, target |-> NoId,
             id |-> 0, pid |-> NoId, loaded |-> sg, todo |-> {}, retried |-> FALSE,
             gone |-> FALSE]
      BY <1>2, <2>1
  <2>4. q \in RequestRecords
      BY <1>3, <2>3 DEF RequestRecords
  <2>. QED  BY <1>1, <2>2, <2>3, <2>4
<1>. QED  BY <1>4, <1>5

LEMMA BeginApproveBase ==
    ASSUME BaseInv, NEW r \in Requests, NEW s \in Suggestions, NEW o,
           BeginApprove(r, s, o)
    PROVE  BaseInv'
<1>1. PICK q : /\ q \in RequestRecords /\ Begin(r, q) /\ UNCHANGED asked
               /\ q.op = "approve" /\ q.of = s /\ q.key = suggestions[s].key
               /\ q.loaded = suggestions[s] /\ q.target = NoId /\ q.pid = NoId
               /\ q.todo = {} /\ q.gone = FALSE
               /\ \/ q.pc = "finish" /\ q.id = 0 /\ UNCHANGED events
                  \/ /\ q.pc = "tokens" /\ q.id = Len(events) + 1
                     /\ Build(q.key, "approve", s) /\ ~IsGoogle(suggestions[s].event)
    BY Approving
<1>2. asked' \subseteq ProviderIds \cup {NoId}
    BY <1>1 DEF BaseInv, TypeOK
<1>3. CASE q.pc = "finish" /\ q.id = 0 /\ UNCHANGED events
  <2>1. Shape(q, events')
      BY <1>1, <1>3, Pids DEF Shape, OpAt, Making, Untold
  <2>. QED  BY <1>1, <1>2, <1>3, <2>1, Same, BeginOn
<1>4. CASE /\ q.pc = "tokens" /\ q.id = Len(events) + 1 /\ Build(q.key, "approve", s)
  <2>1. suggestions[s].key \in Keys
      BY DEF BaseInv, EventsInv
  <2>2. EventFits([key |-> q.key, by |-> "approve", of |-> s])
      BY <1>1, <2>1 DEF EventFits, EventRecords
  <2>3. /\ EventsGrow /\ Len(events) + 1 \in 1..Len(events')
        /\ events'[Len(events) + 1] = [key |-> q.key, by |-> "approve", of |-> s]
      BY <1>4, <2>2, Built
  <2>4. Shape(q, events')
      BY <1>1, <1>4, <2>3, Pids DEF Shape, OpAt, Making, Untold
  <2>. QED  BY <1>1, <1>2, <2>3, <2>4, BeginOn
<1>. QED  BY <1>1, <1>3, <1>4

\* What SyncNext takes up.
LEMMA Syncing ==
    ASSUME BaseInv, NEW r \in Requests, SyncNext(r)
    PROVE  /\ request[r].op = "sync" /\ request[r].pc = "next"
           /\ UNCHANGED <<stores, suggestions, faults, relinked, deleted>>
           /\ \E n \in request[r].todo : \E q :
                  /\ q \in RequestRecords /\ Step(r, "next", q)
                  /\ q.op = "sync" /\ q.pc = "tokens" /\ q.of = n /\ q.key = RowKey(n)
                  /\ q.target = request[r].target /\ q.id = Len(events) + 1 /\ q.pid = NoId
                  /\ q.todo = request[r].todo \ {n} /\ q.gone = request[r].gone
                  /\ n \in 1..Len(events) /\ Build(q.key, "sync", n)
<1>1. PICK p : p = request[r] /\ p \in RequestRecords /\ Shape(p, events)
    BY InHandFields
<1>2. PICK n \in p.todo :
          /\ Step(r, "next", [p EXCEPT !.pc = "tokens", !.of = n, !.key = RowKey(n),
                      !.pid = NoId, !.id = Len(events) + 1, !.retried = FALSE,
                      !.todo = p.todo \ {n}])
          /\ Build(RowKey(n), "sync", n)
    BY <1>1 DEF SyncNext
<1>3. p.op = "sync" /\ p.pc = "next"
    BY <1>1, <1>2 DEF Step, Shape, OpAt, Making, Untold
<1>4. n \in 1..Len(events) /\ n \in Ids /\ p.todo \in SUBSET Ids
    BY <1>1, StepTypes, RequestFields DEF Shape
<1>6. RowKey(n) \in Keys
    BY <1>4, EventTyped
<1>7. PICK k, m, td : k = RowKey(n) /\ m = Len(events) + 1 /\ td = p.todo \ {n}
    OBVIOUS
<1>8. m \in Ids
    BY <1>2, <1>7, StepTypes, BoundsAssumption DEF Build, Ids
<1>9. PICK q : q = [p EXCEPT !.pc = "tokens", !.of = n, !.key = k, !.pid = NoId, !.id = m,
                             !.retried = FALSE, !.todo = td]
    OBVIOUS
<1>10. q = [op |-> p.op, pc |-> "tokens", key |-> k, of |-> n, target |-> p.target,
            id |-> m, pid |-> NoId, loaded |-> p.loaded, todo |-> td,
            retried |-> FALSE, gone |-> p.gone]
    BY <1>1, <1>9 DEF RequestRecords
<1>11. q \in RequestRecords
    BY <1>3, <1>1, <1>4, <1>6, <1>7, <1>8, <1>10, RequestFields DEF RequestRecords
<1>12. Step(r, "next", q)
    BY <1>2, <1>7, <1>9
<1>13. UNCHANGED <<stores, suggestions, faults, relinked, deleted>>
    BY DEF SyncNext
<1>. QED  BY <1>1, <1>2, <1>3, <1>4, <1>7, <1>10, <1>11, <1>12, <1>13

\* A synced event is younger than its row.
LEMMA SyncNextBase ==
    ASSUME BaseInv, NEW r \in Requests, SyncNext(r) PROVE BaseInv'
<1>1. PICK p : p = request[r] /\ p \in RequestRecords /\ Shape(p, events)
    BY InHandFields
<1>2. UNCHANGED <<google, rows, memory, times, suggestions, relinked, deleted>> /\ FaultsTyped
    BY Syncing, Faults DEF stores, local
<1>3. PICK n \in p.todo : \E q :
          /\ q \in RequestRecords /\ Step(r, "next", q)
          /\ q.op = "sync" /\ q.pc = "tokens" /\ q.of = n /\ q.key = RowKey(n)
          /\ q.target = p.target /\ q.id = Len(events) + 1 /\ q.pid = NoId
          /\ q.todo = p.todo \ {n} /\ q.gone = p.gone
          /\ n \in 1..Len(events) /\ Build(q.key, "sync", n)
    BY <1>1, Syncing
<1>4. PICK q :
          /\ q \in RequestRecords /\ Step(r, "next", q)
          /\ q.op = "sync" /\ q.pc = "tokens" /\ q.of = n /\ q.key = RowKey(n)
          /\ q.target = p.target /\ q.id = Len(events) + 1 /\ q.pid = NoId
          /\ q.todo = p.todo \ {n} /\ q.gone = p.gone
          /\ n \in 1..Len(events) /\ Build(q.key, "sync", n)
    BY <1>3
<1>5. EventFits([key |-> q.key, by |-> "sync", of |-> n])
  <2>1. events \in Seq(EventRecords) /\ n \in Ids
      BY <1>4, StepTypes DEF BaseInv, TypeOK
  <2>2. RowKey(n) \in Keys
      BY <1>4, EventTyped
  <2>. QED  BY <1>4, <2>1, <2>2 DEF EventFits, EventRecords
<1>6. /\ EventsGrow /\ Len(events) + 1 \in 1..Len(events')
      /\ events'[Len(events) + 1] = [key |-> q.key, by |-> "sync", of |-> n]
      /\ 1..Len(events) \subseteq 1..Len(events')
    BY <1>4, <1>5, Built
<1>7. Shape(q, events')
    BY <1>1, <1>4, <1>6, Pids DEF Shape, OpAt, Making, Untold
<1>. QED  BY <1>2, <1>4, <1>6, <1>7, Same, StepTypes, StepOn

\* What the commit of an approval writes.
LEMMA Approved ==
    ASSUME BaseInv, NEW r \in Requests, FinishApprove(r)
    PROVE  /\ request[r].op = "approve" /\ request[r].pc = "finish"
           /\ request[r].of \in Suggestions
           /\ Step(r, "finish", Idle) /\ FaultsTyped
           /\ UNCHANGED <<stores, events, relinked, deleted>>
           /\ \/ UNCHANGED suggestions /\ torn'
              \/ \E w \in SuggestionRecords :
                     /\ suggestions' = [suggestions EXCEPT ![request[r].of] = w]
                     /\ UNCHANGED torn
                     /\ w.key \in {suggestions[request[r].of].key,
                                   Kept(suggestions[request[r].of].key)}
                     /\ w.event = IF Stored(request[r].pid)
                                     /\ request[r].pid # request[r].loaded.event
                                  THEN request[r].pid ELSE suggestions[request[r].of].event
<1>1. PICK p : p = request[r] /\ p \in RequestRecords /\ Shape(p, events)
    BY InHandFields
<1>2. Step(r, "finish", Idle) /\ UNCHANGED <<stores, events, relinked, deleted>>
    BY DEF FinishApprove
<1>3. p.op = "approve" /\ p.pc = "finish" /\ p.of \in Suggestions
    BY <1>1, <1>2 DEF Step, Shape, OpAt, Making, Untold
<1>4. PICK sg : sg = suggestions[p.of]
    OBVIOUS
<1>5. sg \in SuggestionRecords /\ sg.key \in Keys
    BY <1>3, <1>4 DEF BaseInv, TypeOK, EventsInv
<1>6. PICK st, ev, tm, k : /\ st = IF p.loaded.status # "approved" THEN "approved" ELSE sg.status
                           /\ ev = IF Stored(p.pid) /\ p.pid # p.loaded.event
                                   THEN p.pid ELSE sg.event
                           /\ k = IF Stored(p.pid) THEN Kept(sg.key) ELSE sg.key
                           /\ tm = (sg.timed \/ Stored(p.pid))
    OBVIOUS
<1>7. PICK w : w = [status |-> st, event |-> ev, key |-> k, timed |-> tm]
    OBVIOUS
<1>8. \/ UNCHANGED faults /\ suggestions' = [suggestions EXCEPT ![p.of] = w]
      \/ Tear /\ UNCHANGED suggestions
    BY <1>1, <1>4, <1>6, <1>7 DEF FinishApprove
<1>9. st \in {"pending", "approved", "rejected"} /\ ev \in ProviderIds \cup {NoId}
    BY <1>1, <1>5, <1>6, RequestFields DEF SuggestionRecords
<1>10. tm \in BOOLEAN /\ k \in Keys /\ k \in {sg.key, Kept(sg.key)}
    BY <1>5, <1>6, KeptKeys DEF SuggestionRecords
<1>11. w \in SuggestionRecords /\ w.key = k /\ w.event = ev
    BY <1>5, <1>7, <1>9, <1>10 DEF SuggestionRecords
<1>12. FaultsTyped
    BY <1>8, Faults
<1>13. CASE UNCHANGED faults /\ suggestions' = [suggestions EXCEPT ![p.of] = w]
    BY <1>1, <1>2, <1>3, <1>4, <1>6, <1>10, <1>11, <1>12, <1>13 DEF faults
<1>14. CASE Tear /\ UNCHANGED suggestions
  <2>1. torn'
      BY <1>14, Faults
  <2>. QED  BY <1>1, <1>2, <1>3, <1>12, <1>14, <2>1
<1>. QED  BY <1>8, <1>13, <1>14

\* The commit writes a provider id.
LEMMA FinishApproveBase ==
    ASSUME BaseInv, NEW r \in Requests, FinishApprove(r) PROVE BaseInv'
<1>1. /\ Step(r, "finish", Idle) /\ FaultsTyped
      /\ UNCHANGED <<google, rows, memory, times, events, relinked, deleted>>
    BY Approved DEF stores, local
<1>2. SuggestionsKept
  <2>1. suggestions \in [Suggestions -> SuggestionRecords]
      BY DEF BaseInv, TypeOK
  <2>2. CASE UNCHANGED suggestions
      BY <2>2, Same
  <2>3. CASE suggestions' # suggestions
    <3>1. PICK w \in SuggestionRecords :
              /\ suggestions' = [suggestions EXCEPT ![request[r].of] = w]
              /\ w.key \in {suggestions[request[r].of].key, Kept(suggestions[request[r].of].key)}
        BY <2>3, Approved
    <3>2. request[r].of \in Suggestions
        BY Approved
    <3>. QED  BY <2>1, <3>1, <3>2 DEF SuggestionsKept
  <2>. QED  BY <2>2, <2>3
<1>. QED  BY <1>1, <1>2, IdleShape, Same, StepTypes, StepOn

\* What the commit of a sync writes.
LEMMA Renamed ==
    ASSUME BaseInv, NEW r \in Requests, Relink(r)
    PROVE  /\ request[r].op = "sync" /\ request[r].pc = "relink"
           /\ request[r].of \in 1..Len(events) /\ FaultsTyped
           /\ UNCHANGED <<google, memory, times, events, suggestions, deleted>>
           /\ Step(r, "relink", [request[r] EXCEPT !.pc = "next"])
           /\ \/ torn' /\ UNCHANGED <<rows, relinked>>
              \/ /\ rows' = Relinked(request[r]) /\ relinked' = (relinked \/ rows' # rows)
                 /\ UNCHANGED torn
<1>1. PICK p : p = request[r] /\ p \in RequestRecords /\ Shape(p, events)
    BY InHandFields
<1>2. Step(r, "relink", [request[r] EXCEPT !.pc = "next"])
    BY DEF Relink
<1>3. p.pc = "relink"
    BY <1>1, <1>2 DEF Step
<1>4. p.op = "sync" /\ p.of \in 1..Len(events)
    BY <1>1, <1>3 DEF Shape, OpAt, Making, Untold
<1>5. UNCHANGED <<google, memory, times, events, suggestions, deleted>>
    BY DEF Relink, local
<1>6. CASE /\ UNCHANGED faults /\ rows' = Relinked(request[r])
           /\ relinked' = (relinked \/ rows' # rows)
    BY <1>1, <1>2, <1>3, <1>4, <1>5, <1>6, Faults
<1>7. CASE Tear /\ UNCHANGED <<rows, relinked>>
    BY <1>1, <1>2, <1>3, <1>4, <1>5, <1>7, Faults
<1>. QED  BY <1>6, <1>7 DEF Relink

\* The row takes the id of a synced event.
LEMMA RelinkBase ==
    ASSUME BaseInv, NEW r \in Requests, Relink(r) PROVE BaseInv'
<1>1. PICK p : p = request[r] /\ p \in RequestRecords /\ Shape(p, events)
    BY InHandFields
<1>2. PICK q : q = [p EXCEPT !.pc = "next"]
    OBVIOUS
<1>3. /\ p.op = "sync" /\ p.pc = "relink" /\ p.of \in 1..Len(events) /\ FaultsTyped
      /\ UNCHANGED <<google, memory, times, events, suggestions, deleted>> /\ Step(r, "relink", q)
    BY <1>1, <1>2, Renamed
<1>4. q \in RequestRecords /\ Moved(p, q) /\ q.pc = "next"
    BY <1>1, <1>2 DEF RequestRecords, Moved
<1>5. Shape(q, events)
    BY <1>1, <1>3, <1>4, MovedShape
<1>6. relinked' \in BOOLEAN
  <2>1. \/ UNCHANGED relinked
        \/ relinked' = (relinked \/ rows' # rows)
      BY Renamed
  <2>. QED  BY <2>1, Zenon DEF BaseInv, TypeOK
<1>7. StoresKept
  <2>1. rows' \in {rows, [rows EXCEPT ![p.of] = p.pid]} /\ (rows' # rows => IsGoogle(p.pid))
      BY <1>1, Renamed DEF Relinked
  <2>2. p.of \in Ids /\ p.pid \in ProviderIds \cup {NoId}
      BY <1>1, <1>3, StepTypes, RequestFields
  <2>3. /\ rows \in [Ids -> ProviderIds \cup {NoId}] /\ memory \in [Ids -> ProviderIds \cup {NoId}]
        /\ times \in [Ids -> Keys \cup {NoKey}]
      BY DEF BaseInv, TypeOK
  <2>4. /\ rows' \in [Ids -> ProviderIds \cup {NoId}] /\ memory' = memory
        /\ times' \in [Ids -> Keys \cup {NoKey}]
      BY <1>3, <2>1, <2>2, <2>3
  <2>5. ASSUME NEW n \in Ids
        PROVE  rows'[n] = rows[n] \/ (n = p.of /\ rows'[n] = p.pid /\ IsGoogle(p.pid))
      BY <2>1, <2>2, <2>3
  <2>6. IsGoogle(p.pid) => ~IsMem(p.pid)
      BY DEF IsGoogle, IsMem
  <2>. QED  BY <1>3, <2>3, <2>4, <2>5, <2>6 DEF StoresKept
<1>. QED  BY <1>3, <1>4, <1>5, <1>6, <1>7, Same, StepTypes, StepOn

\* What a listing names is a provider id.
LEMMA ListedTyped ==
    ASSUME BaseInv PROVE Listed \subseteq ProviderIds
<1>1. rows \in [Ids -> ProviderIds \cup {NoId}] /\ memory \in [Ids -> ProviderIds \cup {NoId}]
    BY DEF BaseInv, TypeOK
<1>2. ASSUME NEW copy \in [Ids -> ProviderIds \cup {NoId}] PROVE Names(copy) \subseteq ProviderIds
    BY DEF Names, Stored
<1>3. \A n \in google : GoogleId(n) \in ProviderIds
    BY StepTypes, Pids
<1>. QED  BY <1>1, <1>2, <1>3 DEF Listed

Targets == Listed \cup {Uuid(n) : n \in {m \in Ids : Stored(rows[m])}}
\* What a deletion takes up, and what it is asked for.
LEMMA Deleting ==
    ASSUME BaseInv, NEW r \in Requests, NEW t \in Targets, BeginDelete(r, t)
    PROVE  /\ \/ t \in ProviderIds /\ t[1] # "uuid" /\ asked' = asked \cup {t}
              \/ \E n \in Ids : /\ t = Uuid(n) /\ Stored(rows[n])
                                /\ asked' = asked \cup {rows[n], memory[n]}
           /\ UNCHANGED events
           /\ \E q : /\ q \in RequestRecords /\ Begin(r, q)
                     /\ q.op = "delete" /\ q.pc = "delgoogle" /\ q.key = NoKey /\ q.of = 0
                     /\ q.target = t /\ q.id = 0 /\ q.pid = NoId /\ q.todo = {} /\ q.gone = FALSE
<1>1. \/ t \in ProviderIds
      \/ \E n \in Ids : t = Uuid(n) /\ Stored(rows[n])
    BY ListedTyped DEF Targets
<1>2. PICK q : q = [Idle EXCEPT !.op = "delete", !.pc = "delgoogle", !.target = t]
    OBVIOUS
<1>3. q = [op |-> "delete", pc |-> "delgoogle", key |-> NoKey, of |-> 0, target |-> t,
           id |-> 0, pid |-> NoId, loaded |-> NoSuggestion, todo |-> {},
           retried |-> FALSE, gone |-> FALSE]
    BY <1>2 DEF Idle
<1>4. t \in ProviderIds \cup {Uuid(n) : n \in Ids} \cup {NoId}
    BY <1>1
<1>5. q \in RequestRecords
    BY <1>3, <1>4 DEF RequestRecords, SuggestionRecords, NoSuggestion
<1>6. Begin(r, q) /\ UNCHANGED events
    BY <1>2 DEF BeginDelete
<1>7. asked' = asked \cup IF t[1] = "uuid" THEN {rows[t[2]], memory[t[2]]} ELSE {t}
    BY DEF BeginDelete
<1>8. CASE t \in ProviderIds
  <2>1. t[1] # "uuid"
      BY <1>8, PidKinds
  <2>. QED  BY <1>3, <1>5, <1>6, <1>7, <1>8, <2>1
<1>9. CASE \E n \in Ids : t = Uuid(n) /\ Stored(rows[n])
  <2>1. PICK n \in Ids : t = Uuid(n) /\ Stored(rows[n])
      BY <1>9
  <2>2. t[1] = "uuid" /\ t[2] = n
      BY <2>1, Pids
  <2>3. asked' = asked \cup {rows[n], memory[n]}
      BY <1>7, <2>2
  <2>. QED  BY <1>3, <1>5, <1>6, <2>1, <2>3
<1>. QED  BY <1>1, <1>8, <1>9

LEMMA BeginDeleteBase ==
    ASSUME BaseInv, NEW r \in Requests, NEW t \in Targets, BeginDelete(r, t) PROVE BaseInv'
<1>1. PICK q : /\ q \in RequestRecords /\ Begin(r, q)
               /\ q.op = "delete" /\ q.pc = "delgoogle" /\ q.key = NoKey /\ q.of = 0
               /\ q.target = t /\ q.id = 0 /\ q.pid = NoId /\ q.todo = {} /\ q.gone = FALSE
    BY Deleting
<1>2. Shape(q, events')
    BY <1>1, Pids DEF Shape, OpAt, Making, Untold
<1>3. asked' \subseteq ProviderIds \cup {NoId}
  <2>1. /\ asked \subseteq ProviderIds \cup {NoId} /\ rows \in [Ids -> ProviderIds \cup {NoId}]
        /\ memory \in [Ids -> ProviderIds \cup {NoId}]
      BY DEF BaseInv, TypeOK
  <2>2. t \in ProviderIds /\ asked' = asked \cup {t} => asked' \subseteq ProviderIds \cup {NoId}
      BY <2>1
  <2>3. ASSUME NEW n \in Ids, asked' = asked \cup {rows[n], memory[n]}
        PROVE  asked' \subseteq ProviderIds \cup {NoId}
      BY <2>1, <2>3
  <2>4. \/ t \in ProviderIds /\ t[1] # "uuid" /\ asked' = asked \cup {t}
        \/ \E n \in Ids : /\ t = Uuid(n) /\ Stored(rows[n])
                          /\ asked' = asked \cup {rows[n], memory[n]}
      BY Deleting
  <2>. QED  BY <2>2, <2>3, <2>4
<1>4. EventsGrow
    BY Deleting, Same
<1>. QED  BY <1>1, <1>2, <1>3, <1>4, BeginOn

\* A deletion takes nothing but events of Google's and stored rows and entries.
LEMMA DeleteAtGoogleBase ==
    ASSUME BaseInv, NEW r \in Requests, DeleteAtGoogle(r) PROVE BaseInv'
<1>1. PICK p : p = request[r] /\ p \in RequestRecords /\ Shape(p, events)
    BY InHandFields
<1>2. PICK g : g = (connected /\ IsGoogle(p.target) /\ p.target[2] \in google)
    OBVIOUS
<1>3. PICK v, q : v = [p EXCEPT !.pc = "dellocal"] /\ q = [v EXCEPT !.gone = g]
    OBVIOUS
<1>4. g \in BOOLEAN /\ (g => IsGoogle(p.target))
    BY <1>2, Zenon
<1>5. v \in RequestRecords
    BY <1>1, <1>3 DEF RequestRecords
<1>6. q = [p EXCEPT !.pc = "dellocal", !.gone = g]
    BY <1>1, <1>3, <1>5 DEF RequestRecords
<1>7. q \in RequestRecords
  <2>1. q = [v EXCEPT !.gone = g] /\ g \in BOOLEAN
      BY <1>3, <1>4
  <2>. QED  BY <1>5, <2>1 DEF RequestRecords
<1>8. /\ \/ UNCHANGED faults /\ Step(r, "delgoogle", q)
         \/ Tear /\ Step(r, "delgoogle", v)
      /\ UNCHANGED <<rows, memory, times, events, suggestions, relinked, deleted>>
    BY <1>1, <1>2, <1>3, <1>6 DEF DeleteAtGoogle, local
<1>9. p.op = "delete" /\ p.pc = "delgoogle"
    BY <1>1, <1>8 DEF Step, Shape, OpAt, Making, Untold
<1>10. Shape(v, events) /\ Shape(q, events)
  <2>1. /\ v.op = p.op /\ v.key = p.key /\ v.of = p.of /\ v.target = p.target /\ v.id = p.id
        /\ v.pid = p.pid /\ v.todo = p.todo /\ v.gone = p.gone /\ v.pc = "dellocal"
      BY <1>1, <1>3 DEF RequestRecords
  <2>2. /\ q.op = p.op /\ q.key = p.key /\ q.of = p.of /\ q.target = p.target /\ q.id = p.id
        /\ q.pid = p.pid /\ q.todo = p.todo /\ q.gone = g /\ q.pc = "dellocal"
      BY <1>1, <1>6 DEF RequestRecords
  <2>3. Shape(v, events)
      BY <1>1, <1>9, <2>1 DEF Shape, OpAt, Making, Untold
  <2>4. Shape(q, events)
      BY <1>1, <1>4, <1>9, <2>2 DEF Shape, OpAt, Making, Untold
  <2>. QED  BY <2>3, <2>4
<1>11. google' \subseteq google
    BY <1>1 DEF DeleteAtGoogle
<1>12. FaultsTyped
    BY <1>8, Faults
<1>. QED  BY <1>5, <1>7, <1>8, <1>10, <1>11, <1>12, Same, StepTypes, StepOn

\* What a deletion does here.
LEMMA Deleted ==
    ASSUME BaseInv, NEW r \in Requests, DeleteLocal(r)
    PROVE  /\ Step(r, "dellocal", Idle) /\ FaultsTyped /\ StoresKept
           /\ UNCHANGED <<google, events, suggestions, relinked>>
           /\ deleted' \subseteq ProviderIds \cup {NoId}
           /\ \A n \in Ids :
                /\ rows'[n] = rows[n]
                   \/ (rows'[n] = NoId /\ request[r].target = Uuid(n) /\ Stored(rows[n]))
                /\ memory'[n] \in {memory[n], NoId}
<1>1. PICK p, t : p = request[r] /\ p \in RequestRecords /\ Shape(p, events) /\ t = p.target
    BY InHandFields
<1>2. rows \in [Ids -> ProviderIds \cup {NoId}] /\ memory \in [Ids -> ProviderIds \cup {NoId}]
    BY DEF BaseInv, TypeOK
<1>0. times \in [Ids -> Keys \cup {NoKey}]
    BY DEF BaseInv, TypeOK
<1>3. deleted \subseteq ProviderIds \cup {NoId}
    BY DEF BaseInv, TypeOK
<1>4. Step(r, "dellocal", Idle) /\ UNCHANGED <<google, events, suggestions, relinked>>
    BY DEF DeleteLocal
<1>5. PICK entries, row : 
          /\ entries = {n \in Ids : Stored(memory[n]) /\ (memory[n] = t \/ t = Uuid(n))}
          /\ row = {n \in Ids : t = Uuid(n) /\ Stored(rows[n])}
    OBVIOUS
<1>6. \/ /\ \E n \in entries : /\ memory' = [memory EXCEPT ![n] = NoId]
                                /\ times' = [times EXCEPT ![n] = NoKey]
                                /\ deleted' = deleted \cup {memory[n]}
         /\ UNCHANGED <<rows, faults>>
      \/ \E ns \in {row, {}} :
         /\ rows' = [n \in Ids |-> IF n \in ns THEN NoId ELSE rows[n]]
         /\ deleted' = deleted \cup {rows[n] : n \in ns}
                           \cup IF p.gone THEN {t} ELSE {}
         /\ UNCHANGED <<memory, times>> /\ (UNCHANGED faults \/ Tear)
    BY <1>1, <1>5 DEF DeleteLocal, local
<1>7. FaultsTyped
    BY <1>6, Faults
<1>8. p.gone => t \in ProviderIds
  <2>1. p.gone => IsGoogle(t)
      BY <1>1 DEF Shape
  <2>2. t \in ProviderIds \cup {Uuid(n) : n \in Ids} \cup {NoId}
      BY <1>1, RequestFields
  <2>. QED  BY <2>1, <2>2, Pids
<1>9. CASE /\ \E n \in entries : /\ memory' = [memory EXCEPT ![n] = NoId]
                                  /\ times' = [times EXCEPT ![n] = NoKey]
                                  /\ deleted' = deleted \cup {memory[n]}
           /\ UNCHANGED <<rows, faults>>
  <2>1. PICK m \in Ids : /\ memory' = [memory EXCEPT ![m] = NoId]
                         /\ times' = [times EXCEPT ![m] = NoKey]
                         /\ deleted' = deleted \cup {memory[m]}
      BY <1>5, <1>9
  <2>2. memory' \in [Ids -> ProviderIds \cup {NoId}] /\ \A n \in Ids : memory'[n] \in {memory[n], NoId}
      BY <1>2, <2>1
  <2>3. deleted' \subseteq ProviderIds \cup {NoId}
      BY <1>2, <1>3, <2>1
  <2>4. rows' = rows
      BY <1>9
  <2>5. StoresKept
      BY <1>0, <1>2, <2>1, <2>2, <2>4 DEF StoresKept
  <2>. QED  BY <1>4, <1>7, <2>2, <2>3, <2>4, <2>5
<1>10. ASSUME NEW ns \in {row, {}},
              rows' = [n \in Ids |-> IF n \in ns THEN NoId ELSE rows[n]],
              deleted' = deleted \cup {rows[n] : n \in ns} \cup IF p.gone THEN {t} ELSE {},
              UNCHANGED <<memory, times>>
       PROVE  /\ StoresKept /\ deleted' \subseteq ProviderIds \cup {NoId}
              /\ \A n \in Ids :
                   /\ rows'[n] = rows[n]
                      \/ (rows'[n] = NoId /\ request[r].target = Uuid(n) /\ Stored(rows[n]))
                   /\ memory'[n] \in {memory[n], NoId}
  <2>1. ns \subseteq Ids /\ \A n \in ns : t = Uuid(n) /\ Stored(rows[n])
      BY <1>5, <1>10
  <2>2. \A n \in Ids :
            /\ rows'[n] = rows[n] \/ (rows'[n] = NoId /\ t = Uuid(n) /\ Stored(rows[n]))
            /\ memory'[n] \in {memory[n], NoId}
      BY <1>10, <2>1
  <2>3. rows' \in [Ids -> ProviderIds \cup {NoId}]
      BY <1>2, <1>10
  <2>4. {rows[n] : n \in ns} \subseteq ProviderIds \cup {NoId}
      BY <1>2, <2>1
  <2>5. deleted' \subseteq ProviderIds \cup {NoId}
      BY <1>3, <1>8, <1>10, <2>4
  <2>6. StoresKept
      BY <1>0, <1>2, <1>10, <2>2, <2>3 DEF StoresKept
  <2>. QED  BY <1>1, <2>2, <2>5, <2>6
<1>. QED  BY <1>4, <1>6, <1>7, <1>9, <1>10

LEMMA DeleteLocalBase ==
    ASSUME BaseInv, NEW r \in Requests, DeleteLocal(r) PROVE BaseInv'
<1>1. /\ Step(r, "dellocal", Idle) /\ FaultsTyped /\ StoresKept
      /\ UNCHANGED <<google, events, suggestions, relinked>>
      /\ deleted' \subseteq ProviderIds \cup {NoId}
    BY Deleted
<1>. QED  BY <1>1, IdleShape, Same, StepTypes, StepOn

\* A step outside the requests.
LEMMA StepOutside ==
    ASSUME BaseInv, UNCHANGED request, EventsGrow, SuggestionsKept, StoresKept, FlagsTyped,
           google' \subseteq 1..Len(events')
    PROVE  BaseInv'
<1>1. request' \in [Requests -> RequestRecords]
    BY DEF BaseInv, TypeOK, RequestRecords
<1>. QED  BY <1>1, BaseStep

\* What happens outside the requests sets no flag but overlapped.
LEMMA OutsideFlags ==
    ASSUME BaseInv, connected' \in BOOLEAN, overlapped' = (overlapped \/ Busy),
           UNCHANGED <<database, faults, relinked, asked, deleted>>
    PROVE  FlagsTyped
<1>1. overlapped' \in BOOLEAN
    BY Zenon DEF BaseInv, TypeOK
<1>. QED  BY <1>1, Faults DEF FlagsTyped, FaultsTyped, BaseInv, TypeOK

\* Steps outside the requests keep BaseInv.
LEMMA RejectBase ==
    ASSUME BaseInv, NEW s \in Suggestions, RejectSuggestion(s) PROVE BaseInv'
<1>1. PICK w : w = [suggestions[s] EXCEPT !.status = "rejected"]
    OBVIOUS
<1>2. suggestions' = [suggestions EXCEPT ![s] = w]
    BY <1>1 DEF RejectSuggestion
<1>3. suggestions \in [Suggestions -> SuggestionRecords]
    BY DEF BaseInv, TypeOK
<1>4. w \in SuggestionRecords /\ w.key = suggestions[s].key
    BY <1>1, <1>3 DEF SuggestionRecords
<1>5. SuggestionsKept
    BY <1>2, <1>3, <1>4 DEF SuggestionsKept
<1>6. /\ UNCHANGED <<database, connected, google, rows, memory, times, events, request, faults,
                     relinked, asked, deleted>>
      /\ overlapped' = (overlapped \/ Busy)
    BY DEF RejectSuggestion, stores, local
<1>7. FlagsTyped
    BY <1>6, OutsideFlags DEF BaseInv, TypeOK
<1>. QED  BY <1>5, <1>6, <1>7, Same, StepOutside

LEMMA AddAtGoogleBase ==
    ASSUME BaseInv, NEW key \in Keys, AddAtGoogle(key) PROVE BaseInv'
<1>1. /\ UNCHANGED <<database, connected, rows, memory, times, suggestions, request, faults, relinked, asked, deleted>>
      /\ overlapped' = (overlapped \/ Busy) /\ Build(key, "google", 0)
      /\ google' = google \cup {Len(events) + 1}
    BY DEF AddAtGoogle, local
<1>2. EventFits([key |-> key, by |-> "google", of |-> 0])
    BY DEF EventFits, EventRecords
<1>3. /\ EventsGrow /\ Len(events) + 1 \in 1..Len(events')
      /\ 1..Len(events) \subseteq 1..Len(events')
    BY <1>1, <1>2, Built
<1>4. FlagsTyped
    BY <1>1, OutsideFlags DEF BaseInv, TypeOK
<1>5. google' \subseteq 1..Len(events')
    BY <1>1, <1>3, StepTypes
<1>. QED  BY <1>1, <1>3, <1>4, <1>5, Same, StepOutside

LEMMA ConnectionBase ==
    ASSUME BaseInv, Connect \/ Disconnect PROVE BaseInv'
<1>1. /\ connected' \in BOOLEAN /\ overlapped' = (overlapped \/ Busy)
      /\ UNCHANGED <<database, google, rows, memory, times, events, suggestions, request,
                     faults, relinked, asked, deleted>>
    BY DEF Connect, Disconnect, stores, local
<1>2. FlagsTyped
    BY <1>1, OutsideFlags
<1>. QED  BY <1>1, <1>2, Same, StepOutside

LEMMA RestartBase ==
    ASSUME BaseInv, Restart PROVE BaseInv'
<1>1. /\ UNCHANGED <<database, connected, google, rows, events, suggestions, overlapped, relinked,
                     asked, deleted>>
      /\ memory' = [n \in Ids |-> NoId] /\ times' = [n \in Ids |-> NoKey]
      /\ request' = [r \in Requests |-> Idle]
    BY DEF Restart
<1>2. FaultsTyped
  <2>1. UNCHANGED faults \/ Tear
      BY DEF Restart, Commit, faults
  <2>. QED  BY <2>1, Faults
<1>3. FlagsTyped
    BY <1>1, <1>2 DEF FlagsTyped, FaultsTyped, BaseInv, TypeOK
<1>4. StoresKept
    BY <1>1 DEF StoresKept, BaseInv, TypeOK
<1>5. /\ request' \in [Requests -> RequestRecords]
      /\ \A r \in Requests : Shape(request'[r], events')
    BY <1>1, IdleShape
<1>. QED  BY <1>1, <1>3, <1>4, <1>5, Same, BaseStep

\* A step that changes nothing changes none of the three.
LEMMA StutterParts ==
    ASSUME UNCHANGED vars
    PROVE  /\ UNCHANGED <<database, connected, google, rows, memory, times, events, suggestions, request,
                          failures, overlapped, torn, relinked, asked, deleted>>
BY DEF vars, stores, local, history

\* BaseInv holds of every behaviour: a request works on the event it says, and
\* every row and entry is of an event.
THEOREM BaseInvAlways == Spec => []BaseInv
<1>1. Init => BaseInv
  <2>. SUFFICES ASSUME Init PROVE BaseInv
      OBVIOUS
  <2>1. /\ events = << >> /\ Len(events) = 0 /\ events \in Seq(EventRecords)
        /\ MaxEvents \in Nat /\ MaxFailures \in Nat
      BY BoundsAssumption DEF Init
  <2>2. suggestions \in [Suggestions -> SuggestionRecords] /\ \A s \in Suggestions : suggestions[s].key \in Keys
      BY DEF Init, SuggestionRecords
  <2>3. Idle \in RequestRecords
      BY DEF Idle, RequestRecords, SuggestionRecords, NoSuggestion
  <2>4. \A r \in Requests : request[r] = Idle
      BY DEF Init
  <2>5. request \in [Requests -> RequestRecords]
      BY <2>3 DEF Init
  <2>6. Shape(Idle, events)
      BY Pids DEF Idle, Shape, OpAt, Making, Untold
  <2>7. ShapesInv
      BY <2>4, <2>6 DEF ShapesInv
  <2>8. \A n \in Ids : rows[n] = NoId /\ memory[n] = NoId
      BY DEF Init
  <2>9. TypeOK
    <3>1. 0 \in 0..MaxFailures /\ Len(events) <= MaxEvents
        BY <2>1
    <3>. QED  BY <2>1, <2>2, <2>5, <3>1 DEF Init, TypeOK, RequestRecords
  <2>10. EventsInv
      BY <2>1, <2>2 DEF EventsInv
  <2>11. StoresInv
      BY <2>8, Pids DEF StoresInv
  <2>. QED  BY <2>7, <2>9, <2>10, <2>11 DEF BaseInv
<1>2. BaseInv /\ [Next]_vars => BaseInv'
  <2>. SUFFICES ASSUME BaseInv, [Next]_vars PROVE BaseInv'
      OBVIOUS
  <2>1. ASSUME NEW r \in Requests, Steps(r) PROVE BaseInv'
      BY <2>1, QuietBase, QuietListing, QuietTokens, QuietRefusal, QuietRefresh, QuietEnd,
         ListLocalBase, InsertAtGoogleBase, InsertLostBase, SearchLocalBase, StoreBase,
         RepoCreateBase, FinishApproveBase, SyncNextBase, RelinkBase, DeleteAtGoogleBase,
         DeleteLocalBase DEF Steps
  <2>2. ASSUME NEW r \in Requests, NEW k \in Keys, BeginCreate(r, k) PROVE BaseInv'
      BY <2>2, BeginCreateBase
  <2>3. ASSUME NEW r \in Requests, NEW s \in Suggestions, NEW o, BeginApprove(r, s, o)
        PROVE  BaseInv'
      BY <2>3, BeginApproveBase
  <2>4. ASSUME NEW r \in Requests, BeginSync(r) PROVE BaseInv'
      BY <2>4, BeginSyncBase
  <2>5. ASSUME NEW r \in Requests, NEW t \in Targets, BeginDelete(r, t) PROVE BaseInv'
      BY <2>5, BeginDeleteBase
  <2>6. ASSUME NEW s \in Suggestions, RejectSuggestion(s) PROVE BaseInv'
      BY <2>6, RejectBase
  <2>7. ASSUME NEW k \in Keys, AddAtGoogle(Utc[k]) PROVE BaseInv'
    <3>1. Utc[k] \in Keys
        BY ZonesAssumption
    <3>. QED  BY <2>7, <3>1, AddAtGoogleBase
  <2>8. ASSUME UNCHANGED vars PROVE BaseInv'
    <3>1. UNCHANGED <<database, connected, google, rows, memory, times, events, suggestions, request,
                      failures, overlapped, torn, relinked, asked, deleted>>
        BY <2>8, StutterParts
    <3>2. FlagsTyped
        BY <3>1 DEF FlagsTyped, BaseInv, TypeOK
    <3>. QED  BY <3>1, <3>2, Same, StepOutside
  <2>. QED  BY <2>1, <2>2, <2>3, <2>4, <2>5, <2>6, <2>7, <2>8, ConnectionBase, RestartBase
            DEF Next, Targets
<1>. QED  BY <1>1, <1>2, PTL DEF Spec

\* Every variable of the calendar keeps its type.
THEOREM TypesHold == Spec => []TypeOK
<1>1. BaseInv => TypeOK
    BY DEF BaseInv
<1>. QED  BY <1>1, BaseInvAlways, PTL

----------------------------------------------------------------------------
(* Every step keeps NamesInv *)

\* What becomes of one event in a step: nothing new, or it is decided, or it is
\* built by one request.
NoNews(n) ==
    /\ MemBorn(n)' => MemBorn(n)
    /\ GoogleBorn(n)' => GoogleBorn(n)
    /\ \A r \in Requests : Undecided(r, n)' => Undecided(r, n)
Decides(n) ==
    /\ ~MemBorn(n) /\ ~GoogleBorn(n) /\ n <= Len(events')
    /\ \A r \in Requests : ~Undecided(r, n)'
    /\ ~(MemBorn(n)' /\ GoogleBorn(n)')
Arises(n) ==
    /\ ~MemBorn(n)' /\ ~GoogleBorn(n)'
    /\ \E r \in Requests : \A t \in Requests : Undecided(t, n)' => t = r
Fate(n) == NoNews(n) \/ Decides(n) \/ Arises(n)

\* Whatever becomes of it, an event is decided one way.
LEMMA FateDecides ==
    ASSUME BaseInv, BaseInv', Len(events) <= Len(events'), NEW n \in Ids, EventDecided(n),
           Fate(n), rows'[n] \in {NoId, MemId(n), GoogleId(n)}
    PROVE  EventDecided(n)'
<1>1. Len(events) \in Nat /\ Len(events') \in Nat /\ n \in Nat
    BY BoundsAssumption DEF BaseInv, TypeOK, Ids
<1>2. CASE NoNews(n)
  <2>1. MemBorn(n)' \/ GoogleBorn(n)' => n <= Len(events')
      BY <1>1, <1>2 DEF NoNews, EventDecided
  <2>2. ASSUME NEW r \in Requests, Undecided(r, n)'
        PROVE  /\ ~MemBorn(n)' /\ ~GoogleBorn(n)'
               /\ \A t \in Requests : Undecided(t, n)' => t = r
    <3>1. Undecided(r, n)
        BY <1>2, <2>2 DEF NoNews
    <3>. QED  BY <1>2, <3>1 DEF NoNews, EventDecided
  <2>3. ~(MemBorn(n)' /\ GoogleBorn(n)')
      BY <1>2 DEF NoNews, EventDecided
  <2>. QED  BY <2>1, <2>2, <2>3 DEF EventDecided
<1>3. CASE Decides(n)
    BY <1>3 DEF Decides, EventDecided
<1>4. CASE Arises(n)
    BY <1>4 DEF Arises, EventDecided
<1>. QED  BY <1>2, <1>3, <1>4 DEF Fate

\* The event and provider id of the request that takes a step.
PidMove(r, p, q) ==
    \/ q.pid = p.pid /\ q.id = p.id /\ (q.pc \in Making => p.pc \in Making)
    \/ q.pid = NoId /\ q.pc \notin Making
    \/ q.pid = NoId /\ q.id = Len(events) + 1
    \/ q.pid = MemId(q.id) /\ rows[q.id] = MemId(q.id)
    \/ /\ Undecided(r, q.id) /\ q.id = p.id
       /\ q.pid = MemId(q.id) \/ q.pid = GoogleId(q.id)

\* What the step of a request does to the copies, and to what was asked for.
CopiesMove(p, q) ==
    /\ \A n \in Ids : /\ MemId(n) \in asked' => MemBorn(n)
                      /\ GoogleId(n) \in asked' => GoogleBorn(n)
    /\ \A n \in google' : n \in google \/ (n = p.id /\ q.id = n /\ q.pid = GoogleId(n))
    /\ \A n \in Ids :
         /\ \/ rows'[n] = rows[n]
            \/ n = p.id /\ rows'[n] = p.pid /\ Stored(p.pid)
            \/ rows'[n] = NoId /\ p.target = Uuid(n)
         /\ \/ memory'[n] \in {memory[n], NoId}
            \/ n = p.id /\ memory'[n] = p.pid

\* A step of one request that moves its provider id along decides each event
\* one way.
LEMMA RequestFate ==
    ASSUME BaseInv, BaseInv', \A n \in Ids : EventDecided(n), Len(events) <= Len(events'),
           NEW r \in Requests, NEW p, NEW q, p = request[r],
           request' = [request EXCEPT ![r] = q], PidMove(r, p, q), CopiesMove(p, q)
    PROVE  \A n \in Ids : Fate(n)
<1>. SUFFICES ASSUME NEW n \in Ids PROVE Fate(n)
    OBVIOUS
<1>1. request'[r] = q /\ \A t \in Requests \ {r} : request'[t] = request[t]
    BY OneRequest
<1>2. Shape(p, events) /\ EventDecided(n) /\ n \in Nat
      /\ Len(events) \in Nat /\ Len(events') \in Nat
    BY InHandFields, BoundsAssumption DEF BaseInv, TypeOK, Ids
<1>3. /\ n = p.id /\ p.pid = MemId(n) => MemBorn(n)
      /\ n = p.id /\ p.pid = GoogleId(n) => GoogleBorn(n)
    BY DEF MemBorn, GoogleBorn, HasPid
<1>4. /\ rows'[n] = MemId(n) => MemBorn(n)
      /\ rows'[n] = GoogleId(n) => GoogleBorn(n)
    BY <1>3, Pids DEF CopiesMove, MemBorn, GoogleBorn
<1>5. /\ memory'[n] = MemId(n) => MemBorn(n)
      /\ memory'[n] = GoogleId(n) => GoogleBorn(n)
    BY <1>3, Pids DEF CopiesMove, MemBorn, GoogleBorn
<1>6. /\ MemId(n) \in asked' => MemBorn(n)
      /\ GoogleId(n) \in asked' => GoogleBorn(n)
    BY DEF CopiesMove
<1>7. n \in google' => GoogleBorn(n) \/ (n = p.id /\ q.id = n /\ q.pid = GoogleId(n))
    BY DEF CopiesMove, GoogleBorn
<1>8. /\ MemBorn(n)' => MemBorn(n) \/ (q.id = n /\ q.pid = MemId(n))
      /\ GoogleBorn(n)' => GoogleBorn(n) \/ (q.id = n /\ q.pid = GoogleId(n))
  <2>1. MemBorn(n)' => MemBorn(n) \/ \E t \in Requests : HasPid(t, n, MemId(n))'
      BY <1>4, <1>5, <1>6 DEF MemBorn
  <2>2. GoogleBorn(n)' => \/ GoogleBorn(n) \/ (q.id = n /\ q.pid = GoogleId(n))
                          \/ \E t \in Requests : HasPid(t, n, GoogleId(n))'
      BY <1>4, <1>5, <1>6, <1>7 DEF GoogleBorn
  <2>3. ASSUME NEW t \in Requests
        PROVE  /\ HasPid(t, n, MemId(n))' => MemBorn(n) \/ (q.id = n /\ q.pid = MemId(n))
               /\ HasPid(t, n, GoogleId(n))' => GoogleBorn(n) \/ (q.id = n /\ q.pid = GoogleId(n))
      BY <1>1 DEF MemBorn, GoogleBorn, HasPid
  <2>. QED  BY <2>1, <2>2, <2>3
<1>9. ASSUME NEW t \in Requests, Undecided(t, n)'
      PROVE  Undecided(t, n) \/ (t = r /\ q.pc \in Making /\ q.id = n /\ q.pid = NoId)
    BY <1>1, <1>9 DEF Undecided, HasPid
<1>10. CASE q.pid = p.pid /\ q.id = p.id /\ (q.pc \in Making => p.pc \in Making)
  <2>1. Undecided(r, n)' => Undecided(r, n)
      BY <1>1, <1>10 DEF Undecided, HasPid
  <2>. QED  BY <1>3, <1>8, <1>9, <1>10, <2>1 DEF Fate, NoNews
<1>11. CASE q.pid = NoId /\ q.pc \notin Making
    BY <1>8, <1>9, <1>11, Pids DEF Fate, NoNews
<1>12. CASE q.pid = NoId /\ q.id = Len(events) + 1
  <2>1. CASE n = q.id
    <3>1. ~(n <= Len(events))
        BY <1>2, <1>12, <2>1
    <3>2. ~MemBorn(n) /\ ~GoogleBorn(n)
        BY <1>2, <3>1 DEF EventDecided
    <3>3. ASSUME NEW t \in Requests PROVE ~Undecided(t, n)
      <4>1. Shape(request[t], events)
          BY InHandFields
      <4>. QED  BY <1>2, <3>1, <4>1 DEF Shape, Undecided, HasPid
    <3>4. \A t \in Requests : Undecided(t, n)' => t = r
        BY <1>9, <3>3
    <3>5. ~MemBorn(n)' /\ ~GoogleBorn(n)'
        BY <1>8, <1>12, <3>2, Pids
    <3>. QED  BY <3>4, <3>5 DEF Fate, Arises
  <2>2. CASE n # q.id
      BY <1>8, <1>9, <2>2 DEF Fate, NoNews
  <2>. QED  BY <2>1, <2>2
<1>13. CASE q.pid = MemId(q.id) /\ rows[q.id] = MemId(q.id)
  <2>1. q.id = n => MemBorn(n)
      BY <1>13 DEF MemBorn
  <2>. QED  BY <1>8, <1>9, <1>13, <2>1, Pids DEF Fate, NoNews
<1>14. CASE /\ Undecided(r, q.id) /\ q.id = p.id
            /\ q.pid = MemId(q.id) \/ q.pid = GoogleId(q.id)
  <2>1. CASE n = q.id
    <3>1. /\ ~MemBorn(n) /\ ~GoogleBorn(n)
          /\ \A t \in Requests : Undecided(t, n) => t = r
        BY <1>2, <1>14, <2>1 DEF EventDecided
    <3>2. n <= Len(events')
      <4>1. p.pc \in Making
          BY <1>14 DEF Undecided
      <4>2. n \in 1..Len(events)
          BY <1>2, <1>14, <2>1, <4>1 DEF Shape
      <4>. QED  BY <1>2, <4>2
    <3>3. \A t \in Requests : ~Undecided(t, n)'
      <4>1. ~Undecided(r, n)'
          BY <1>1, <1>14, <2>1, Pids DEF Undecided, HasPid
      <4>. QED  BY <1>9, <3>1, <4>1
    <3>4. ~(MemBorn(n)' /\ GoogleBorn(n)')
        BY <1>8, <1>14, <3>1, Pids
    <3>. QED  BY <3>1, <3>2, <3>3, <3>4 DEF Fate, Decides
  <2>2. CASE n # q.id
      BY <1>8, <1>9, <2>2 DEF Fate, NoNews
  <2>. QED  BY <2>1, <2>2
<1>. QED  BY <1>10, <1>11, <1>12, <1>13, <1>14 DEF PidMove

\* What the step of a request p that becomes q does to names at Google.
GoogleMove(p, q) ==
    /\ asked \subseteq asked'
    /\ \A n \in google : n \in google' \/ GoogleId(n) \in asked'
    /\ q.pid = p.pid \/ ~IsGoogle(q.pid) \/ q.pid[2] \in google'
    /\ \/ q.op # "delete"
       \/ p.op = "delete" /\ q.target = p.target
       \/ q.target \in asked' \/ q.target[1] = "uuid"
    /\ \A s \in Suggestions : \/ suggestions'[s].event = suggestions[s].event
                              \/ p.pc = "finish" /\ suggestions'[s].event = p.pid
\* What a request's step puts at Google, or takes as an id, is there.
LEMMA RequestGoogleNames ==
    ASSUME BaseInv, GoogleNamesInv, NEW r \in Requests, NEW p, NEW q, p = request[r],
           request' = [request EXCEPT ![r] = q], GoogleMove(p, q)
    PROVE  GoogleNamesInv'
<1>1. request'[r] = q /\ \A t \in Requests \ {r} : request'[t] = request[t]
    BY OneRequest
<1>2. ASSUME NEW i \in ProviderIds \cup {NoId}, AtGoogle(i) PROVE AtGoogle(i)'
  <2>1. CASE IsGoogle(i)
    <3>1. PICK n \in Ids : i = GoogleId(n)
        BY <2>1, PidKinds
    <3>2. i[2] = n
        BY <3>1, Pids
    <3>3. i \in asked \/ n \in google
        BY <1>2, <2>1, <3>2 DEF AtGoogle
    <3>. QED  BY <3>1, <3>2, <3>3 DEF GoogleMove, AtGoogle
  <2>. QED  BY <2>1 DEF AtGoogle
<1>3. \A t \in Requests : request[t].pid \in ProviderIds \cup {NoId} /\ AtGoogle(request[t].pid)
    BY InHandFields, RequestFields DEF GoogleNamesInv
<1>4. \A s \in Suggestions : /\ suggestions[s].event \in ProviderIds \cup {NoId}
                             /\ AtGoogle(suggestions[s].event)
    BY DEF GoogleNamesInv, BaseInv, TypeOK, SuggestionRecords
<1>5. \A s \in Suggestions : AtGoogle(suggestions[s].event)'
  <2>1. ASSUME NEW s \in Suggestions PROVE AtGoogle(suggestions[s].event)'
    <3>1. \/ suggestions'[s].event = suggestions[s].event
          \/ suggestions'[s].event = p.pid
        BY DEF GoogleMove
    <3>3. \A i \in ProviderIds \cup {NoId} : AtGoogle(i) => (IsGoogle(i) => i \in asked' \/ i[2] \in google')
        BY <1>2 DEF AtGoogle
    <3>4. IsGoogle(suggestions'[s].event) =>
              suggestions'[s].event \in asked' \/ suggestions'[s].event[2] \in google'
        BY <1>3, <1>4, <3>1, <3>3
    <3>. QED  BY <3>4 DEF AtGoogle
  <2>. QED  BY <2>1
<1>6. \A t \in Requests : AtGoogle(request[t].pid)'
  <2>1. ASSUME NEW t \in Requests PROVE AtGoogle(request[t].pid)'
    <3>1. \A i \in ProviderIds \cup {NoId} : AtGoogle(i) => (IsGoogle(i) => i \in asked' \/ i[2] \in google')
        BY <1>2 DEF AtGoogle
    <3>2. IsGoogle(request'[t].pid) =>
              request'[t].pid \in asked' \/ request'[t].pid[2] \in google'
        BY <1>1, <1>3, <3>1 DEF GoogleMove
    <3>. QED  BY <3>2 DEF AtGoogle
  <2>. QED  BY <2>1
<1>7. \A t \in Requests : request'[t].op = "delete" =>
          request'[t].target \in asked' \/ request'[t].target[1] = "uuid"
    BY <1>1 DEF GoogleMove, GoogleNamesInv
<1>. QED  BY <1>5, <1>6, <1>7 DEF GoogleNamesInv

\* The same of the names of local events, while nothing is torn or relinked.
LocalMove(r, p, q) ==
    /\ asked \subseteq asked'
    /\ PidMove(r, p, q) /\ CopiesMove(p, q)
    /\ \A n \in Ids : q.target = Uuid(n) =>
         p.target = q.target \/ MemId(n) \in asked' \/ GoogleId(n) \in asked'
    /\ \A s \in Suggestions : \/ suggestions'[s].event = suggestions[s].event
                              \/ p.pc = "finish" /\ suggestions'[s].event = p.pid
    /\ q.pc = "finish" => \A n \in Ids : q.pid = MemId(n) => rows'[n] = MemId(n)
\* What a request's step takes as a local id is stored or asked for.
LEMMA RequestLocalNames ==
    ASSUME BaseInv, BaseInv', LocalNames, Len(events) <= Len(events'),
           NEW r \in Requests, NEW p, NEW q, p = request[r],
           request' = [request EXCEPT ![r] = q], LocalMove(r, p, q)
    PROVE  LocalNames'
<1>1. request'[r] = q /\ \A t \in Requests \ {r} : request'[t] = request[t]
    BY OneRequest
<1>2. Shape(p, events) /\ p.pid \in {NoId, MemId(p.id), GoogleId(p.id)}
    BY InHandFields DEF Shape
<1>3. \A n \in Ids : EventDecided(n)
    BY DEF LocalNames
<1>4. \A n \in Ids : Fate(n)
    BY <1>3, RequestFate DEF LocalMove
<1>5. ASSUME NEW n \in Ids, StoredOrAsked(n) PROVE StoredOrAsked(n)'
  <2>1. CASE MemId(n) \in asked
      BY <2>1 DEF StoredOrAsked, LocalMove
  <2>2. CASE rows[n] = MemId(n)
    <3>1. MemBorn(n) /\ ~GoogleBorn(n)
        BY <1>3, <2>2 DEF MemBorn, EventDecided
    <3>2. CASE rows'[n] = rows[n]
        BY <2>2, <3>2 DEF StoredOrAsked
    <3>3. CASE n = p.id /\ rows'[n] = p.pid /\ Stored(p.pid)
      <4>1. p.pid # GoogleId(n)
          BY <3>1, <3>3 DEF GoogleBorn, HasPid
      <4>2. p.pid = MemId(n)
          BY <1>2, <3>3, <4>1, Pids
      <4>. QED  BY <3>3, <4>2 DEF StoredOrAsked
    <3>4. CASE rows'[n] = NoId /\ p.target = Uuid(n)
      <4>1. MemId(n) \in asked \/ GoogleId(n) \in asked
          BY <3>4 DEF LocalNames
      <4>2. MemId(n) \in asked
          BY <3>1, <4>1 DEF GoogleBorn
      <4>. QED  BY <4>2 DEF StoredOrAsked, LocalMove
    <3>. QED  BY <3>2, <3>3, <3>4 DEF LocalMove, CopiesMove
  <2>. QED  BY <1>5, <2>1, <2>2 DEF StoredOrAsked
<1>6. ASSUME NEW n \in Ids PROVE EventDecided(n)'
  <2>1. rows'[n] \in {NoId, MemId(n), GoogleId(n)}
    <3>1. rows[n] \in {NoId, MemId(n), GoogleId(n)}
        BY <1>3 DEF EventDecided
    <3>. QED  BY <1>2, <3>1 DEF LocalMove, CopiesMove
  <2>. QED  BY <1>3, <1>4, <2>1, FateDecides
<1>7. ASSUME NEW t \in Requests, NEW n \in Ids, request'[t].target = Uuid(n)
      PROVE  MemId(n) \in asked' \/ GoogleId(n) \in asked'
  <2>1. CASE request[t].target = Uuid(n)
      BY <2>1 DEF LocalNames, LocalMove
  <2>2. CASE request[t].target # Uuid(n)
      BY <1>1, <1>7, <2>2 DEF LocalMove
  <2>. QED  BY <2>1, <2>2
<1>8. ASSUME NEW s \in Suggestions, NEW n \in Ids, suggestions'[s].event = MemId(n)
      PROVE  StoredOrAsked(n)'
  <2>1. StoredOrAsked(n)
      BY <1>8 DEF LocalMove, LocalNames
  <2>. QED  BY <1>5, <2>1
<1>9. ASSUME NEW t \in Requests, NEW n \in Ids, request'[t].pc = "finish",
             request'[t].pid = MemId(n)
      PROVE  StoredOrAsked(n)'
  <2>1. CASE t = r
      BY <1>1, <1>9, <2>1 DEF LocalMove, StoredOrAsked
  <2>2. CASE t # r
    <3>1. StoredOrAsked(n)
        BY <1>1, <1>9, <2>2 DEF LocalNames
    <3>. QED  BY <1>5, <3>1
  <2>. QED  BY <2>1, <2>2
<1>. QED  BY <1>6, <1>7, <1>8, <1>9 DEF LocalNames

\* A step of a request keeps both.
LEMMA RequestNames ==
    ASSUME BaseInv, BaseInv', NamesInv, Len(events) <= Len(events'),
           NEW r \in Requests, NEW p, NEW q, p = request[r],
           request' = [request EXCEPT ![r] = q], GoogleMove(p, q),
           ~torn' /\ ~relinked' => ~torn /\ ~relinked /\ LocalMove(r, p, q)
    PROVE  NamesInv'
<1>1. GoogleNamesInv'
    BY RequestGoogleNames DEF NamesInv
<1>2. ASSUME ~torn', ~relinked' PROVE LocalNames'
  <2>1. LocalNames /\ LocalMove(r, p, q)
      BY <1>2 DEF NamesInv, LocalNamesInv
  <2>. QED  BY <2>1, RequestLocalNames
<1>. QED  BY <1>1, <1>2 DEF NamesInv, LocalNamesInv

\* A step of a request that leaves the copies alone.
LEMMA SteadyNames ==
    ASSUME BaseInv, BaseInv', NamesInv, Len(events) <= Len(events'),
           NEW r \in Requests, NEW p, NEW q, p = request[r],
           request' = [request EXCEPT ![r] = q],
           UNCHANGED <<google, rows, memory, times, suggestions, asked, relinked>>, torn => torn',
           PidMove(r, p, q), q.pid = p.pid \/ ~IsGoogle(q.pid),
           q.op # "delete" \/ (p.op = "delete" /\ q.target = p.target),
           q.target \in {p.target, NoId},
           q.pc = "finish" /\ ~torn' => \A n \in Ids : q.pid = MemId(n) => rows[n] = MemId(n)
    PROVE  NamesInv'
<1>1. GoogleMove(p, q)
    BY DEF GoogleMove
<1>2. CopiesMove(p, q)
    BY DEF CopiesMove, MemBorn, GoogleBorn
<1>3. \A n \in Ids : q.target = Uuid(n) => p.target = q.target
    BY Pids
<1>4. ~torn' => LocalMove(r, p, q)
    BY <1>2, <1>3 DEF LocalMove
<1>. QED  BY <1>1, <1>4, RequestNames

\* Steps that only take a request on name nothing new.
LEMMA QuietNames ==
    ASSUME BaseInv, BaseInv', NamesInv, NEW r \in Requests, NEW q, Quiet(r, q) PROVE NamesInv'
<1>1. PICK p : p = request[r] /\ Shape(p, events)
    BY InHandFields
<1>2. /\ Idle.op = "none" /\ Idle.pc = "idle" /\ Idle.pid = NoId /\ Idle.target = NoId
    BY DEF Idle
<1>3. /\ UNCHANGED <<google, rows, memory, times, events, suggestions, asked, relinked>>
      /\ (torn => torn') /\ request' = [request EXCEPT ![r] = q]
    BY DEF Quiet, FaultsTyped
<1>4. Len(events) <= Len(events')
    BY <1>3, StepTypes
<1>5. CASE q = Idle
  <2>1. PidMove(r, p, q)
      BY <1>2, <1>5 DEF PidMove, Making, Untold
  <2>2. q.pc # "finish" /\ q.op # "delete" /\ ~IsGoogle(q.pid) /\ q.target \in {p.target, NoId}
      BY <1>2, <1>5, Pids
  <2>. QED  BY <1>1, <1>3, <1>4, <2>1, <2>2, SteadyNames
<1>6. CASE q # Idle
  <2>1. /\ q.op = p.op /\ q.target = p.target /\ q.id = p.id /\ q.pid = p.pid
        /\ q.pc \in Making => p.pc \in Making
        /\ q.pc # "finish"
      BY <1>1, <1>6 DEF Quiet, Moved, Making, Untold
  <2>2. q.op # "delete" \/ (p.op = "delete" /\ q.target = p.target)
      BY <2>1
  <2>3. PidMove(r, p, q)
      BY <2>1 DEF PidMove
  <2>. QED  BY <1>1, <1>3, <1>4, <2>1, <2>2, <2>3, SteadyNames
<1>. QED  BY <1>5, <1>6

LEMMA ListLocalNames ==
    ASSUME BaseInv, BaseInv', NamesInv, NEW r \in Requests, ListLocal(r) PROVE NamesInv'
<1>1. PICK p : p = request[r] /\ Shape(p, events)
    BY InHandFields
<1>2. UNCHANGED <<google, rows, memory, times, suggestions, relinked>> /\ (torn => torn')
    BY Clashed DEF stores, local, FaultsTyped
<1>3. CASE Step(r, "listlocal", Idle) /\ UNCHANGED events
  <2>1. /\ Idle.op = "none" /\ Idle.pc = "idle" /\ Idle.pid = NoId /\ Idle.target = NoId
      BY DEF Idle
  <2>2. UNCHANGED asked /\ request' = [request EXCEPT ![r] = Idle] /\ Len(events) <= Len(events')
      BY <1>3, StepTypes DEF Step
  <2>. QED  BY <1>1, <1>2, <2>1, <2>2, Pids, SteadyNames DEF PidMove, Making, Untold
<1>4. CASE ~(Step(r, "listlocal", Idle) /\ UNCHANGED events)
  <2>1. PICK q : /\ q \in RequestRecords /\ Step(r, "listlocal", q) /\ q.op = "create"
                 /\ q.target = p.target /\ q.pid = NoId /\ q.pc = "tokens"
                 /\ q.id = Len(events) + 1 /\ Build(q.key, "create", 0)
      BY <1>1, <1>4, Clashed
  <2>2. UNCHANGED asked /\ request' = [request EXCEPT ![r] = q] /\ Len(events) <= Len(events')
    <3>1. events \in Seq(EventRecords)
        BY DEF BaseInv, TypeOK
    <3>2. Len(events') = Len(events) + 1
        BY <2>1, <3>1 DEF Build
    <3>. QED  BY <2>1, <3>2, StepTypes DEF Step
  <2>. QED  BY <1>1, <1>2, <2>1, <2>2, Pids, SteadyNames DEF PidMove
<1>. QED  BY <1>3, <1>4

\* The row that the search found has the local id the request takes.
LEMMA SearchLocalNames ==
    ASSUME BaseInv, BaseInv', NamesInv, NEW r \in Requests, SearchLocal(r) PROVE NamesInv'
<1>1. PICK p : p = request[r] /\ Shape(p, events)
    BY InHandFields
<1>2. /\ UNCHANGED <<google, rows, memory, times, events, suggestions, relinked>>
      /\ torn => torn'
  <2>1. PICK b \in BOOLEAN : Commit(b)
      BY DEF SearchLocal
  <2>. QED  BY <2>1, Faults DEF SearchLocal, stores, local, FaultsTyped
<1>3. Len(events) <= Len(events')
    BY <1>2, StepTypes
<1>4. PICK q : /\ Step(r, "search", q) /\ q.op = p.op /\ q.target = p.target
               /\ \/ /\ Stored(p.pid) /\ q.pid = p.pid /\ q.id = p.id /\ q.pc = Caller(q.op)
                  \/ /\ ~Stored(p.pid) /\ q.id \in Ids /\ q.pid = MemId(q.id)
                     /\ rows[q.id] = MemId(q.id)
                     /\ q.id \in 1..Len(events) /\ q.pc = Caller(q.op)
                  \/ /\ q.id = p.id /\ q.pc = "store"
                     /\ q.pid = IF Stored(p.pid) THEN p.pid ELSE MemId(p.id)
    BY <1>1, Searched
<1>5. /\ p.pc = "search" /\ request' = [request EXCEPT ![r] = q] /\ UNCHANGED asked
    BY <1>1, <1>4 DEF Step
<1>6. p.pid \in {NoId, MemId(p.id), GoogleId(p.id)} /\ p.op \in {"create", "approve", "sync"}
    BY <1>1, <1>5 DEF Shape, OpAt, Making, Untold
<1>7. q.op # "delete" \/ (p.op = "delete" /\ q.target = p.target)
    BY <1>4, <1>6
<1>8. p.pc \in Making /\ q.target \in {p.target, NoId}
    BY <1>4, <1>5 DEF Making
<1>9. CASE Stored(p.pid) /\ q.pid = p.pid /\ q.id = p.id
  <2>1. PidMove(r, p, q)
      BY <1>8, <1>9 DEF PidMove
  <2>2. CASE p.pid = GoogleId(p.id)
    <3>1. \A n \in Ids : q.pid # MemId(n)
        BY <1>9, <2>2, Pids
    <3>. QED  BY <1>1, <1>2, <1>3, <1>5, <1>7, <1>8, <1>9, <2>1, <3>1, SteadyNames
  <2>3. p.pid # MemId(p.id)
      BY <1>1, <1>5, Pids DEF Shape
  <2>. QED  BY <1>6, <1>9, <2>2, <2>3 DEF Stored
<1>10. CASE q.pid = MemId(q.id) /\ rows[q.id] = MemId(q.id)
  <2>1. \A n \in Ids : q.pid = MemId(n) => rows[n] = MemId(n)
      BY <1>10, Pids
  <2>. QED  BY <1>1, <1>2, <1>3, <1>5, <1>7, <1>8, <1>10, <2>1, Pids, SteadyNames DEF PidMove
<1>11. CASE ~Stored(p.pid) /\ q.id = p.id /\ q.pc = "store" /\ q.pid = MemId(p.id)
  <2>1. Undecided(r, q.id)
      BY <1>1, <1>8, <1>11 DEF Undecided, HasPid, Stored
  <2>. QED  BY <1>1, <1>2, <1>3, <1>5, <1>7, <1>8, <1>11, <2>1, Pids, SteadyNames DEF PidMove
<1>. QED  BY <1>4, <1>9, <1>10, <1>11

LEMMA SyncNextNames ==
    ASSUME BaseInv, BaseInv', NamesInv, NEW r \in Requests, SyncNext(r) PROVE NamesInv'
<1>1. PICK p : p = request[r] /\ Shape(p, events)
    BY InHandFields
<1>2. UNCHANGED <<google, rows, memory, times, suggestions, relinked, torn>>
    BY Syncing DEF stores, local, faults
<1>3. PICK n \in p.todo : \E q :
          /\ q \in RequestRecords /\ Step(r, "next", q)
          /\ q.op = "sync" /\ q.pc = "tokens" /\ q.of = n /\ q.key = RowKey(n)
          /\ q.target = p.target /\ q.id = Len(events) + 1 /\ q.pid = NoId
          /\ q.todo = p.todo \ {n} /\ q.gone = p.gone
          /\ n \in 1..Len(events) /\ Build(q.key, "sync", n)
    BY <1>1, Syncing
<1>4. PICK q : /\ Step(r, "next", q) /\ q.op = "sync" /\ q.pc = "tokens"
               /\ q.target = p.target /\ q.id = Len(events) + 1 /\ q.pid = NoId
               /\ Build(q.key, "sync", n)
    BY <1>3
<1>5. UNCHANGED asked /\ request' = [request EXCEPT ![r] = q]
    BY <1>4 DEF Step
<1>6. Len(events) <= Len(events')
  <2>1. events \in Seq(EventRecords)
      BY DEF BaseInv, TypeOK
  <2>2. Len(events') = Len(events) + 1
      BY <1>4, <2>1 DEF Build
  <2>. QED  BY <2>2, StepTypes
<1>7. PidMove(r, p, q) /\ ~IsGoogle(q.pid)
    BY <1>4, Pids DEF PidMove
<1>. QED  BY <1>1, <1>2, <1>4, <1>5, <1>6, <1>7, SteadyNames

\* A request that is taken up has no target, or is a deletion.
LEMMA BegunNames ==
    ASSUME BaseInv, BaseInv', NamesInv, Len(events) <= Len(events'), NEW r \in Requests, NEW q,
           Begin(r, q), UNCHANGED asked, q.op # "delete", q.target = NoId, q.pid = NoId,
           q.pc \notin Making \/ q.id = Len(events) + 1
    PROVE  NamesInv'
<1>1. /\ request' = [request EXCEPT ![r] = q]
      /\ UNCHANGED <<google, rows, memory, times, suggestions, asked, relinked, torn>>
    BY DEF Begin, stores, local, faults
<1>2. PidMove(r, request[r], q)
    BY DEF PidMove
<1>3. \A n \in Ids : q.pid # MemId(n)
    BY Pids
<1>. QED  BY <1>1, <1>2, <1>3, Pids, SteadyNames

LEMMA BeginCreateNames ==
    ASSUME BaseInv, BaseInv', NamesInv, NEW r \in Requests, NEW key \in Keys, BeginCreate(r, key)
    PROVE  NamesInv'
<1>1. PICK q : q = [Idle EXCEPT !.op = "create", !.pc = "list", !.key = key]
    OBVIOUS
<1>2. Begin(r, q) /\ UNCHANGED <<events, asked>>
    BY <1>1 DEF BeginCreate
<1>3. q.op = "create" /\ q.pc = "list" /\ q.target = NoId /\ q.pid = NoId
    BY <1>1 DEF Idle
<1>4. q.pc \notin Making /\ Len(events) <= Len(events')
    BY <1>2, <1>3, StepTypes DEF Making, Untold
<1>. QED  BY <1>2, <1>3, <1>4, BegunNames

LEMMA BeginSyncNames ==
    ASSUME BaseInv, BaseInv', NamesInv, NEW r \in Requests, BeginSync(r) PROVE NamesInv'
<1>1. PICK td, q : /\ td = {n \in Ids : IsMem(rows[n])}
                   /\ q = [Idle EXCEPT !.op = "sync", !.pc = "next", !.todo = td]
    OBVIOUS
<1>2. Begin(r, q) /\ UNCHANGED <<events, asked>>
    BY <1>1 DEF BeginSync
<1>3. q.op = "sync" /\ q.pc = "next" /\ q.target = NoId /\ q.pid = NoId
    BY <1>1 DEF Idle
<1>4. q.pc \notin Making /\ Len(events) <= Len(events')
    BY <1>2, <1>3, StepTypes DEF Making, Untold
<1>. QED  BY <1>2, <1>3, <1>4, BegunNames

LEMMA BeginApproveNames ==
    ASSUME BaseInv, BaseInv', NamesInv, NEW r \in Requests, NEW s \in Suggestions, NEW o,
           BeginApprove(r, s, o)
    PROVE  NamesInv'
<1>1. PICK q : /\ q \in RequestRecords /\ Begin(r, q) /\ UNCHANGED asked
               /\ q.op = "approve" /\ q.of = s /\ q.key = suggestions[s].key
               /\ q.loaded = suggestions[s] /\ q.target = NoId /\ q.pid = NoId
               /\ q.todo = {} /\ q.gone = FALSE
               /\ \/ q.pc = "finish" /\ q.id = 0 /\ UNCHANGED events
                  \/ /\ q.pc = "tokens" /\ q.id = Len(events) + 1
                     /\ Build(q.key, "approve", s) /\ ~IsGoogle(suggestions[s].event)
    BY Approving
<1>2. Len(events) <= Len(events')
  <2>1. events \in Seq(EventRecords)
      BY DEF BaseInv, TypeOK
  <2>2. Build(q.key, "approve", s) => Len(events') = Len(events) + 1
      BY <2>1 DEF Build
  <2>. QED  BY <1>1, <2>2, StepTypes
<1>3. q.pc \notin Making \/ q.id = Len(events) + 1
    BY <1>1 DEF Making, Untold
<1>. QED  BY <1>1, <1>2, <1>3, BegunNames

\* Asking for a deletion exempts what the row and the entry name.
LEMMA BeginDeleteNames ==
    ASSUME BaseInv, BaseInv', NamesInv, NEW r \in Requests, NEW t \in Targets, BeginDelete(r, t)
    PROVE  NamesInv'
<1>1. PICK q : /\ q \in RequestRecords /\ Begin(r, q)
               /\ q.op = "delete" /\ q.pc = "delgoogle" /\ q.key = NoKey /\ q.of = 0
               /\ q.target = t /\ q.id = 0 /\ q.pid = NoId /\ q.todo = {} /\ q.gone = FALSE
    BY Deleting
<1>2. /\ request' = [request EXCEPT ![r] = q]
      /\ UNCHANGED <<google, rows, memory, times, suggestions, relinked, torn>>
    BY <1>1 DEF Begin, stores, local, faults
<1>3. Len(events) <= Len(events')
  <2>1. UNCHANGED events
      BY DEF BeginDelete
  <2>. QED  BY <2>1, StepTypes
<1>4. \/ t \in ProviderIds /\ t[1] # "uuid" /\ asked' = asked \cup {t}
      \/ \E n \in Ids : /\ t = Uuid(n) /\ Stored(rows[n])
                        /\ asked' = asked \cup {rows[n], memory[n]}
    BY Deleting
<1>5. asked \subseteq asked' /\ (t \in asked' \/ t[1] = "uuid")
    BY <1>4, Pids
<1>6. GoogleMove(request[r], q)
    BY <1>1, <1>2, <1>5, Pids DEF GoogleMove
<1>7. ASSUME ~torn, ~relinked PROVE LocalMove(r, request[r], q)
  <2>1. \A n \in Ids : EventDecided(n)
      BY <1>7 DEF NamesInv, LocalNamesInv, LocalNames
  <2>2. \A m \in Ids : /\ rows[m] \in {NoId, MemId(m), GoogleId(m)}
                       /\ memory[m] \in {NoId, MemId(m), GoogleId(m)}
      BY <2>1 DEF EventDecided, BaseInv, StoresInv
  <2>3. PidMove(r, request[r], q)
      BY <1>1 DEF PidMove, Making, Untold
  <2>4. ASSUME NEW n \in Ids
        PROVE  /\ MemId(n) \in asked' => MemBorn(n)
               /\ GoogleId(n) \in asked' => GoogleBorn(n)
    <3>1. CASE t \in ProviderIds /\ t[1] # "uuid" /\ asked' = asked \cup {t}
      <4>1. \/ \E m \in Ids : t \in {rows[m], memory[m]}
            \/ \E m \in google : t = GoogleId(m)
        <5>1. t \in Listed
            BY <3>1, Pids DEF Targets
        <5>. QED  BY <5>1 DEF Listed, Names
      <4>2. t = MemId(n) => MemBorn(n)
          BY <2>2, <4>1, Pids DEF MemBorn
      <4>3. t = GoogleId(n) => GoogleBorn(n)
          BY <2>2, <4>1, Pids DEF GoogleBorn
      <4>. QED  BY <3>1, <4>2, <4>3 DEF MemBorn, GoogleBorn
    <3>2. ASSUME NEW m \in Ids, asked' = asked \cup {rows[m], memory[m]}
          PROVE  /\ MemId(n) \in asked' => MemBorn(n)
                 /\ GoogleId(n) \in asked' => GoogleBorn(n)
        BY <2>2, <3>2, Pids DEF MemBorn, GoogleBorn
    <3>. QED  BY <1>4, <3>1, <3>2
  <2>5. CopiesMove(request[r], q)
      BY <1>2, <2>4 DEF CopiesMove
  <2>6. ASSUME NEW n \in Ids, t = Uuid(n) PROVE MemId(n) \in asked' \/ GoogleId(n) \in asked'
    <3>1. t[1] = "uuid"
        BY <2>6, Pids
    <3>2. PICK m \in Ids : /\ t = Uuid(m) /\ Stored(rows[m])
                           /\ asked' = asked \cup {rows[m], memory[m]}
        BY <1>4, <3>1
    <3>3. m = n
        BY <2>6, <3>2, Pids
    <3>. QED  BY <2>2, <3>2, <3>3 DEF Stored
  <2>. QED  BY <1>1, <1>2, <1>5, <2>3, <2>5, <2>6 DEF LocalMove
<1>. QED  BY <1>2, <1>3, <1>6, <1>7, RequestNames

\* Google takes an undecided event.
LEMMA InsertAtGoogleNames ==
    ASSUME BaseInv, BaseInv', NamesInv, NEW r \in Requests, InsertAtGoogle(r) PROVE NamesInv'
<1>1. PICK p : p = request[r] /\ p \in RequestRecords /\ Shape(p, events) /\ p.pc = "insert"
    BY InHandFields DEF InsertAtGoogle, Step
<1>2. PICK q : q = [p EXCEPT !.pc = "search", !.pid = GoogleId(p.id)]
    OBVIOUS
<1>3. /\ request' = [request EXCEPT ![r] = q] /\ google' = google \cup {p.id}
      /\ UNCHANGED <<rows, memory, times, events, suggestions, asked, relinked, torn>>
    BY <1>1, <1>2 DEF InsertAtGoogle, Step, faults, local
<1>4. /\ q.op = p.op /\ q.target = p.target /\ q.id = p.id /\ q.pid = GoogleId(p.id)
      /\ q.pc = "search" /\ p.pid = NoId /\ p.op # "delete"
    BY <1>1, <1>2 DEF RequestRecords, Shape, Untold, OpAt, Making
<1>5. GoogleMove(p, q)
    BY <1>3, <1>4, Pids DEF GoogleMove
<1>6. Undecided(r, p.id)
    BY <1>1, <1>4 DEF Undecided, HasPid, Making, Untold
<1>7. PidMove(r, p, q)
    BY <1>4, <1>6 DEF PidMove
<1>8. CopiesMove(p, q)
    BY <1>3, <1>4 DEF CopiesMove, MemBorn, GoogleBorn
<1>9. LocalMove(r, p, q)
    BY <1>3, <1>4, <1>7, <1>8 DEF LocalMove
<1>10. Len(events) <= Len(events')
    BY <1>3, StepTypes
<1>. QED  BY <1>1, <1>3, <1>5, <1>9, <1>10, RequestNames

LEMMA InsertLostNames ==
    ASSUME BaseInv, BaseInv', NamesInv, NEW r \in Requests, InsertLost(r) PROVE NamesInv'
<1>1. PICK p : p = request[r] /\ p \in RequestRecords
    BY InHandFields
<1>2. PICK q : q = [p EXCEPT !.pc = "search"]
    OBVIOUS
<1>3. /\ request' = [request EXCEPT ![r] = q] /\ google \subseteq google'
      /\ UNCHANGED <<rows, memory, times, events, suggestions, asked>> /\ torn'
    BY <1>1, <1>2, Faults DEF InsertLost, Step, local
<1>4. q.op = p.op /\ q.target = p.target /\ q.pid = p.pid
    BY <1>1, <1>2 DEF RequestRecords
<1>5. GoogleMove(p, q)
    BY <1>3, <1>4 DEF GoogleMove
<1>6. Len(events) <= Len(events')
    BY <1>3, StepTypes
<1>. QED  BY <1>1, <1>3, <1>5, <1>6, RequestNames

\* What is kept has been decided, and its row carries it.
LEMMA KeepNames ==
    ASSUME BaseInv, BaseInv', NamesInv, NEW r \in Requests, NEW from \in {"store", "repo"},
           NEW q, Keep(r, from, q),
           q = Idle \/ (/\ q.op = request[r].op /\ q.target = request[r].target
                        /\ q.id = request[r].id /\ q.pid = request[r].pid
                        /\ q.pc \notin Making)
    PROVE  NamesInv'
<1>1. PICK p : p = request[r] /\ p \in RequestRecords /\ Shape(p, events)
    BY InHandFields
<1>2. /\ p.pc = from /\ p.id \in 1..Len(events) /\ p.pid \in {MemId(p.id), GoogleId(p.id)}
      /\ FaultsTyped /\ memory' = [memory EXCEPT ![p.id] = p.pid]
      /\ rows' \in {rows, Saved(p.id, p.pid)}
      /\ ~torn' => rows' = Saved(p.id, p.pid)
    BY <1>1, KeepTyped
<1>3. /\ request' = [request EXCEPT ![r] = q]
      /\ UNCHANGED <<google, events, suggestions, asked, relinked>>
    BY DEF Keep, Step
<1>4. p.op \in {"create", "approve", "sync"}
    BY <1>1, <1>2 DEF Shape, OpAt, Making, Untold
<1>5. /\ Idle.op = "none" /\ Idle.pc = "idle" /\ Idle.pid = NoId /\ Idle.target = NoId
    BY DEF Idle
<1>6. /\ q.op # "delete" /\ q.target \in {p.target, NoId} /\ q.pc \notin Making
      /\ q.pid = NoId \/ (q.pid = p.pid /\ q.id = p.id)
    BY <1>1, <1>4, <1>5 DEF Making, Untold
<1>7. GoogleMove(p, q)
    BY <1>3, <1>6, Pids DEF GoogleMove
<1>8. PidMove(r, p, q)
    BY <1>6 DEF PidMove
<1>9. Stored(p.pid)
    BY <1>2, Pids
<1>10. rows \in [Ids -> ProviderIds \cup {NoId}] /\ memory \in [Ids -> ProviderIds \cup {NoId}]
       /\ p.id \in Ids
    BY <1>2, StepTypes DEF BaseInv, TypeOK
<1>11. \A n \in Ids : /\ rows'[n] = rows[n] \/ (n = p.id /\ rows'[n] = p.pid /\ Stored(p.pid))
                      /\ memory'[n] = memory[n] \/ (n = p.id /\ memory'[n] = p.pid)
    BY <1>2, <1>9, <1>10 DEF Saved
<1>12. CopiesMove(p, q)
    BY <1>3, <1>11 DEF CopiesMove, MemBorn, GoogleBorn
<1>13. ASSUME ~torn', ~relinked' PROVE LocalMove(r, p, q)
  <2>1. LocalNames
      BY <1>2, <1>3, <1>13 DEF NamesInv, LocalNamesInv, FaultsTyped
  <2>2. ASSUME NEW n \in Ids, q.pid = MemId(n) PROVE rows'[n] = MemId(n)
    <3>1. q.pid = p.pid /\ p.id = n
        BY <1>2, <1>6, <2>2, Pids
    <3>2. rows' = Saved(n, MemId(n))
        BY <1>2, <1>13, <2>2, <3>1
    <3>3. CASE ~Stored(rows[n]) /\ \E m \in Ids : rows[m] = MemId(n)
      <4>1. PICK m \in Ids : rows[m] = MemId(n)
          BY <3>3
      <4>2. rows[m] \in {NoId, MemId(m), GoogleId(m)}
          BY <2>1 DEF LocalNames, EventDecided
      <4>3. m = n
          BY <4>1, <4>2, Pids
      <4>. QED  BY <3>3, <4>1, <4>3, Pids
    <3>4. CASE ~(~Stored(rows[n]) /\ \E m \in Ids : rows[m] = MemId(n))
        BY <1>10, <3>2, <3>4 DEF Saved
    <3>. QED  BY <3>3, <3>4
  <2>3. \A n \in Ids : q.target = Uuid(n) => p.target = q.target
      BY <1>6, Pids
  <2>. QED  BY <1>3, <1>8, <1>12, <2>2, <2>3 DEF LocalMove
<1>14. Len(events) <= Len(events')
    BY <1>3, StepTypes
<1>. QED  BY <1>1, <1>2, <1>3, <1>7, <1>13, <1>14, RequestNames DEF FaultsTyped

LEMMA StoreNames ==
    ASSUME BaseInv, BaseInv', NamesInv, NEW r \in Requests, Store(r) PROVE NamesInv'
<1>1. PICK p : p = request[r] /\ p \in RequestRecords /\ Shape(p, events)
    BY InHandFields
<1>2. PICK q : q = [p EXCEPT !.pc = Caller(p.op)]
    OBVIOUS
<1>3. Keep(r, "store", q)
    BY <1>1, <1>2 DEF Store
<1>4. p.pc = "store"
    BY <1>1, <1>3 DEF Keep, Step
<1>5. p.op \in {"create", "approve", "sync"}
    BY <1>1, <1>4 DEF Shape, OpAt, Making, Untold
<1>6. Caller(p.op) \notin Making
    BY <1>5 DEF Caller, Making, Untold
<1>7. /\ q.op = p.op /\ q.target = p.target /\ q.id = p.id /\ q.pid = p.pid /\ q.pc \notin Making
    BY <1>1, <1>2, <1>6 DEF RequestRecords
<1>. QED  BY <1>1, <1>3, <1>7, KeepNames

LEMMA RepoCreateNames ==
    ASSUME BaseInv, BaseInv', NamesInv, NEW r \in Requests, RepoCreate(r) PROVE NamesInv'
<1>1. PICK q : q = Idle /\ Keep(r, "repo", q)
    BY DEF RepoCreate
<1>. QED  BY <1>1, KeepNames

\* The suggestion names what its request has, or what it named.
LEMMA FinishApproveNames ==
    ASSUME BaseInv, BaseInv', NamesInv, NEW r \in Requests, FinishApprove(r) PROVE NamesInv'
<1>1. PICK p : p = request[r]
    OBVIOUS
<1>2. /\ p.pc = "finish" /\ p.of \in Suggestions /\ request' = [request EXCEPT ![r] = Idle]
      /\ UNCHANGED <<google, rows, memory, times, events, asked, relinked>> /\ FaultsTyped
    BY <1>1, Approved DEF Step, stores, local
<1>3. /\ Idle.op = "none" /\ Idle.pc = "idle" /\ Idle.pid = NoId /\ Idle.target = NoId
    BY DEF Idle
<1>4. ASSUME NEW s \in Suggestions
      PROVE  suggestions'[s].event \in {suggestions[s].event, p.pid}
  <2>1. CASE UNCHANGED suggestions
      BY <2>1
  <2>2. CASE suggestions' # suggestions
    <3>1. PICK w \in SuggestionRecords :
              /\ suggestions' = [suggestions EXCEPT ![p.of] = w]
              /\ w.event = IF Stored(p.pid) /\ p.pid # p.loaded.event
                           THEN p.pid ELSE suggestions[p.of].event
        BY <1>1, <2>2, Approved
    <3>2. suggestions \in [Suggestions -> SuggestionRecords]
        BY DEF BaseInv, TypeOK
    <3>. QED  BY <1>2, <3>1, <3>2
  <2>. QED  BY <2>1, <2>2
<1>5. GoogleMove(p, Idle)
    BY <1>2, <1>3, <1>4, Pids DEF GoogleMove
<1>6. PidMove(r, p, Idle)
    BY <1>3 DEF PidMove, Making, Untold
<1>7. CopiesMove(p, Idle)
    BY <1>2 DEF CopiesMove, MemBorn, GoogleBorn
<1>8. LocalMove(r, p, Idle)
    BY <1>2, <1>3, <1>4, <1>6, <1>7, Pids DEF LocalMove
<1>9. Len(events) <= Len(events')
    BY <1>2, StepTypes
<1>. QED  BY <1>1, <1>2, <1>5, <1>8, <1>9, RequestNames DEF FaultsTyped

\* A row that takes Google's id is what relinked says.
LEMMA RelinkNames ==
    ASSUME BaseInv, BaseInv', NamesInv, NEW r \in Requests, Relink(r) PROVE NamesInv'
<1>1. PICK p : p = request[r] /\ p \in RequestRecords
    BY InHandFields
<1>2. PICK q : q = [p EXCEPT !.pc = "next"]
    OBVIOUS
<1>3. /\ p.op = "sync" /\ request' = [request EXCEPT ![r] = q] /\ FaultsTyped
      /\ UNCHANGED <<google, memory, times, events, suggestions, asked>>
    BY <1>1, <1>2, Renamed DEF Step
<1>4. /\ q.op = p.op /\ q.target = p.target /\ q.id = p.id /\ q.pid = p.pid /\ q.pc = "next"
    BY <1>1, <1>2 DEF RequestRecords
<1>5. GoogleMove(p, q)
    BY <1>3, <1>4 DEF GoogleMove
<1>6. ASSUME ~torn', ~relinked' PROVE ~torn /\ ~relinked /\ LocalMove(r, p, q)
  <2>1. UNCHANGED rows /\ ~relinked
      BY <1>6, Renamed
  <2>2. PidMove(r, p, q)
      BY <1>4 DEF PidMove, Making, Untold
  <2>3. CopiesMove(p, q)
      BY <1>3, <2>1 DEF CopiesMove, MemBorn, GoogleBorn
  <2>. QED  BY <1>3, <1>4, <1>6, <2>1, <2>2, <2>3 DEF LocalMove, FaultsTyped
<1>7. Len(events) <= Len(events')
    BY <1>3, StepTypes
<1>. QED  BY <1>1, <1>3, <1>5, <1>6, <1>7, RequestNames

\* What Google loses was asked for.
LEMMA DeleteAtGoogleNames ==
    ASSUME BaseInv, BaseInv', NamesInv, NEW r \in Requests, DeleteAtGoogle(r) PROVE NamesInv'
<1>1. PICK p : p = request[r] /\ p \in RequestRecords /\ Shape(p, events)
    BY InHandFields
<1>2. PICK g : g = (connected /\ IsGoogle(p.target) /\ p.target[2] \in google)
    OBVIOUS
<1>3. PICK v, w : /\ v = [p EXCEPT !.pc = "dellocal"]
                  /\ w = [p EXCEPT !.pc = "dellocal", !.gone = g]
    OBVIOUS
<1>4. /\ \/ UNCHANGED faults /\ Step(r, "delgoogle", w)
         \/ Tear /\ Step(r, "delgoogle", v)
      /\ UNCHANGED <<rows, memory, times, events, suggestions, relinked>>
      /\ google' = google \/ (IsGoogle(p.target) /\ google' = google \ {p.target[2]})
    BY <1>1, <1>2, <1>3 DEF DeleteAtGoogle, local
<1>5. p.op = "delete" /\ UNCHANGED asked /\ FaultsTyped
    BY <1>1, <1>4, Faults DEF Step, Shape, OpAt, Making, Untold
<1>6. PICK q : /\ request' = [request EXCEPT ![r] = q] /\ q.op = p.op /\ q.target = p.target
               /\ q.id = p.id /\ q.pid = p.pid /\ q.pc = "dellocal"
  <2>1. /\ v.op = p.op /\ v.target = p.target /\ v.id = p.id /\ v.pid = p.pid
        /\ v.pc = "dellocal"
      BY <1>1, <1>3 DEF RequestRecords
  <2>2. /\ w.op = p.op /\ w.target = p.target /\ w.id = p.id /\ w.pid = p.pid
        /\ w.pc = "dellocal"
      BY <1>1, <1>3 DEF RequestRecords
  <2>. QED  BY <1>4, <2>1, <2>2 DEF Step
<1>7. \A n \in google : n \in google' \/ GoogleId(n) \in asked
  <2>1. ASSUME IsGoogle(p.target) PROVE GoogleId(p.target[2]) \in asked
    <3>1. p.target \in asked
      <4>1. p.target \in asked \/ p.target[1] = "uuid"
          BY <1>1, <1>5 DEF NamesInv, GoogleNamesInv
      <4>. QED  BY <2>1, <4>1 DEF IsGoogle
    <3>2. p.target \in ProviderIds \cup {NoId}
        BY <3>1 DEF BaseInv, TypeOK
    <3>3. PICK n \in Ids : p.target = GoogleId(n)
        BY <2>1, <3>2, PidKinds
    <3>. QED  BY <3>1, <3>3, Pids
  <2>. QED  BY <1>4, <2>1
<1>8. GoogleMove(p, q)
    BY <1>4, <1>5, <1>6, <1>7 DEF GoogleMove
<1>9. PidMove(r, p, q)
    BY <1>6 DEF PidMove, Making, Untold
<1>10. CopiesMove(p, q)
    BY <1>4, <1>5 DEF CopiesMove, MemBorn, GoogleBorn
<1>11. LocalMove(r, p, q)
    BY <1>4, <1>5, <1>6, <1>9, <1>10 DEF LocalMove
<1>12. Len(events) <= Len(events')
    BY <1>4, StepTypes
<1>. QED  BY <1>1, <1>4, <1>5, <1>6, <1>8, <1>11, <1>12, RequestNames DEF FaultsTyped

\* The row that goes was asked for.
LEMMA DeleteLocalNames ==
    ASSUME BaseInv, BaseInv', NamesInv, NEW r \in Requests, DeleteLocal(r) PROVE NamesInv'
<1>1. PICK p : p = request[r]
    OBVIOUS
<1>2. /\ request' = [request EXCEPT ![r] = Idle] /\ FaultsTyped
      /\ UNCHANGED <<google, events, suggestions, relinked, asked>>
      /\ \A n \in Ids :
           /\ rows'[n] = rows[n] \/ (rows'[n] = NoId /\ p.target = Uuid(n) /\ Stored(rows[n]))
           /\ memory'[n] \in {memory[n], NoId}
    BY <1>1, Deleted DEF Step
<1>3. /\ Idle.op = "none" /\ Idle.pc = "idle" /\ Idle.pid = NoId /\ Idle.target = NoId
    BY DEF Idle
<1>4. GoogleMove(p, Idle)
    BY <1>2, <1>3, Pids DEF GoogleMove
<1>5. PidMove(r, p, Idle)
    BY <1>3 DEF PidMove, Making, Untold
<1>6. CopiesMove(p, Idle)
    BY <1>2 DEF CopiesMove, MemBorn, GoogleBorn
<1>7. LocalMove(r, p, Idle)
    BY <1>2, <1>3, <1>5, <1>6, Pids DEF LocalMove
<1>8. Len(events) <= Len(events')
    BY <1>2, StepTypes
<1>. QED  BY <1>1, <1>2, <1>4, <1>7, <1>8, RequestNames DEF FaultsTyped

\* A step outside the requests: Google may have one new event, and a restart
\* leaves nothing in hand.
LEMMA OutsideNames ==
    ASSUME BaseInv, BaseInv', NamesInv, Len(events) <= Len(events'),
           UNCHANGED <<rows, asked, relinked>>, torn => torn',
           \A s \in Suggestions : suggestions'[s].event = suggestions[s].event,
           \A n \in Ids : memory'[n] \in {memory[n], NoId},
           google \subseteq google',
           \A n \in google' : n \in google \/ n = Len(events) + 1,
           \A t \in Requests : request'[t] = request[t] \/ request'[t] = Idle
    PROVE  NamesInv'
<1>1. /\ Idle.op = "none" /\ Idle.pc = "idle" /\ Idle.pid = NoId /\ Idle.target = NoId
    BY DEF Idle
<1>2. GoogleNamesInv'
  <2>1. \A s \in Suggestions : AtGoogle(suggestions[s].event)'
      BY DEF NamesInv, GoogleNamesInv, AtGoogle
  <2>2. \A t \in Requests : AtGoogle(request[t].pid)'
      BY <1>1, Pids DEF NamesInv, GoogleNamesInv, AtGoogle
  <2>3. \A t \in Requests :
          request'[t].op = "delete" => request'[t].target \in asked' \/ request'[t].target[1] = "uuid"
      BY <1>1 DEF NamesInv, GoogleNamesInv
  <2>. QED  BY <2>1, <2>2, <2>3 DEF GoogleNamesInv
<1>3. ASSUME ~torn', ~relinked' PROVE LocalNames'
  <2>1. LocalNames
      BY <1>3 DEF NamesInv, LocalNamesInv
  <2>2. Len(events) \in Nat /\ Len(events') \in Nat
      BY DEF BaseInv, TypeOK
  <2>3. ASSUME NEW n \in Ids PROVE EventDecided(n)'
    <3>1. MemBorn(n)' => MemBorn(n)
        BY <1>1, Pids DEF MemBorn, HasPid
    <3>2. GoogleBorn(n)' => GoogleBorn(n) \/ (n \in google' /\ n = Len(events) + 1)
        BY <1>1, Pids DEF GoogleBorn, HasPid
    <3>3. \A t \in Requests : Undecided(t, n)' => Undecided(t, n)
        BY <1>1 DEF Undecided, HasPid, Making, Untold
    <3>4. EventDecided(n) /\ rows'[n] \in {NoId, MemId(n), GoogleId(n)}
        BY <2>1 DEF LocalNames, EventDecided
    <3>5. CASE ~(n \in google' /\ n = Len(events) + 1)
      <4>1. Fate(n)
          BY <3>1, <3>2, <3>3, <3>5 DEF Fate, NoNews
      <4>. QED  BY <3>4, <4>1, FateDecides
    <3>6. CASE n \in google' /\ n = Len(events) + 1
      <4>1. ~(n <= Len(events)) /\ n <= Len(events')
        <5>1. google' \subseteq 1..Len(events')
            BY DEF BaseInv, TypeOK
        <5>. QED  BY <2>2, <3>6, <5>1
      <4>2. ~MemBorn(n) /\ ~GoogleBorn(n)
          BY <3>4, <4>1 DEF EventDecided
      <4>3. \A t \in Requests : ~Undecided(t, n)
        <5>1. ASSUME NEW t \in Requests, Undecided(t, n) PROVE FALSE
          <6>1. Shape(request[t], events)
              BY InHandFields
          <6>. QED  BY <2>2, <4>1, <5>1, <6>1 DEF Shape, Undecided, HasPid
        <5>. QED  BY <5>1
      <4>4. Fate(n)
          BY <3>1, <3>3, <4>1, <4>2, <4>3 DEF Fate, Decides
      <4>. QED  BY <3>4, <4>4, FateDecides
    <3>. QED  BY <3>5, <3>6
  <2>4. ASSUME NEW t \in Requests, NEW n \in Ids, request'[t].target = Uuid(n)
        PROVE  MemId(n) \in asked' \/ GoogleId(n) \in asked'
      BY <1>1, <2>1, <2>4, Pids DEF LocalNames
  <2>5. ASSUME NEW s \in Suggestions, NEW n \in Ids, suggestions'[s].event = MemId(n)
        PROVE  StoredOrAsked(n)'
      BY <2>1, <2>5 DEF LocalNames, StoredOrAsked
  <2>6. ASSUME NEW t \in Requests, NEW n \in Ids, request'[t].pc = "finish",
               request'[t].pid = MemId(n)
        PROVE  StoredOrAsked(n)'
      BY <1>1, <2>1, <2>6 DEF LocalNames, StoredOrAsked
  <2>. QED  BY <2>3, <2>4, <2>5, <2>6 DEF LocalNames
<1>. QED  BY <1>2, <1>3 DEF NamesInv, LocalNamesInv

LEMMA RejectNames ==
    ASSUME BaseInv, BaseInv', NamesInv, NEW s \in Suggestions, RejectSuggestion(s) PROVE NamesInv'
<1>1. PICK w : w = [suggestions[s] EXCEPT !.status = "rejected"]
    OBVIOUS
<1>2. suggestions' = [suggestions EXCEPT ![s] = w]
    BY <1>1 DEF RejectSuggestion
<1>3. suggestions \in [Suggestions -> SuggestionRecords]
    BY DEF BaseInv, TypeOK
<1>4. w.event = suggestions[s].event
    BY <1>1, <1>3 DEF SuggestionRecords
<1>5. \A x \in Suggestions : suggestions'[x].event = suggestions[x].event
    BY <1>2, <1>3, <1>4
<1>6. UNCHANGED <<google, rows, memory, times, events, request, torn, relinked, asked>>
    BY DEF RejectSuggestion, stores, local, faults
<1>7. Len(events) <= Len(events')
    BY <1>6, StepTypes
<1>. QED  BY <1>5, <1>6, <1>7, OutsideNames

LEMMA AddAtGoogleNames ==
    ASSUME BaseInv, BaseInv', NamesInv, NEW key \in Keys, AddAtGoogle(key) PROVE NamesInv'
<1>1. /\ UNCHANGED <<rows, memory, times, suggestions, request, torn, relinked, asked>>
      /\ google' = google \cup {Len(events) + 1} /\ Build(key, "google", 0)
    BY DEF AddAtGoogle, faults, local
<1>2. Len(events') = Len(events) + 1
    BY <1>1 DEF Build, BaseInv, TypeOK
<1>3. Len(events) <= Len(events')
    BY <1>2, StepTypes
<1>. QED  BY <1>1, <1>3, OutsideNames

LEMMA ConnectionNames ==
    ASSUME BaseInv, BaseInv', NamesInv, Connect \/ Disconnect PROVE NamesInv'
<1>1. UNCHANGED <<google, rows, memory, times, events, suggestions, request, torn, relinked, asked>>
    BY DEF Connect, Disconnect, stores, local, faults
<1>2. Len(events) <= Len(events')
    BY <1>1, StepTypes
<1>. QED  BY <1>1, <1>2, OutsideNames

LEMMA RestartNames ==
    ASSUME BaseInv, BaseInv', NamesInv, Restart PROVE NamesInv'
<1>1. /\ UNCHANGED <<google, rows, events, suggestions, relinked, asked>>
      /\ memory' = [n \in Ids |-> NoId] /\ request' = [r \in Requests |-> Idle]
    BY DEF Restart
<1>2. torn => torn'
  <2>1. UNCHANGED faults \/ Tear
      BY DEF Restart, Commit, faults
  <2>. QED  BY <2>1 DEF faults, Tear
<1>3. Len(events) <= Len(events')
    BY <1>1, StepTypes
<1>. QED  BY <1>1, <1>2, <1>3, OutsideNames

\* What suggestions and requests have names that stand for an event, whatever
\* overlaps or fails.
THEOREM NamesInvAlways == Spec => []NamesInv
<1>1. Init => NamesInv
  <2>. SUFFICES ASSUME Init PROVE NamesInv
      OBVIOUS
  <2>1. /\ Idle.op = "none" /\ Idle.pc = "idle" /\ Idle.pid = NoId /\ Idle.target = NoId
      BY DEF Idle
  <2>2. \A r \in Requests : request[r] = Idle
      BY DEF Init
  <2>3. \A s \in Suggestions : suggestions[s].event = NoId
      BY DEF Init
  <2>4. \A n \in Ids : rows[n] = NoId /\ memory[n] = NoId
      BY DEF Init
  <2>5. google = {} /\ asked = {}
      BY DEF Init
  <2>6. GoogleNamesInv
      BY <2>1, <2>2, <2>3, Pids DEF GoogleNamesInv, AtGoogle
  <2>7. ASSUME NEW n \in Ids PROVE ~MemBorn(n) /\ ~GoogleBorn(n)
      BY <2>1, <2>2, <2>4, <2>5, Pids DEF MemBorn, GoogleBorn, HasPid
  <2>8. \A n \in Ids, r \in Requests : ~Undecided(r, n)
      BY <2>1, <2>2 DEF Undecided, Making, Untold
  <2>9. \A n \in Ids : EventDecided(n)
      BY <2>4, <2>7, <2>8 DEF EventDecided
  <2>10. LocalNames
      BY <2>1, <2>2, <2>3, <2>9, Pids DEF LocalNames
  <2>. QED  BY <2>6, <2>10 DEF NamesInv, LocalNamesInv
<1>2. NamesInv /\ BaseInv /\ BaseInv' /\ [Next]_vars => NamesInv'
  <2>. SUFFICES ASSUME NamesInv, BaseInv, BaseInv', [Next]_vars PROVE NamesInv'
      OBVIOUS
  <2>1. ASSUME NEW r \in Requests, Steps(r) PROVE NamesInv'
      BY <2>1, QuietNames, QuietListing, QuietTokens, QuietRefusal, QuietRefresh, QuietEnd,
         ListLocalNames, InsertAtGoogleNames, InsertLostNames, SearchLocalNames, StoreNames,
         RepoCreateNames, FinishApproveNames, SyncNextNames, RelinkNames, DeleteAtGoogleNames,
         DeleteLocalNames DEF Steps
  <2>2. ASSUME NEW r \in Requests, NEW k \in Keys, BeginCreate(r, k) PROVE NamesInv'
      BY <2>2, BeginCreateNames
  <2>3. ASSUME NEW r \in Requests, NEW s \in Suggestions, NEW o, BeginApprove(r, s, o)
        PROVE  NamesInv'
      BY <2>3, BeginApproveNames
  <2>4. ASSUME NEW r \in Requests, BeginSync(r) PROVE NamesInv'
      BY <2>4, BeginSyncNames
  <2>5. ASSUME NEW r \in Requests, NEW t \in Targets, BeginDelete(r, t) PROVE NamesInv'
      BY <2>5, BeginDeleteNames
  <2>6. ASSUME NEW s \in Suggestions, RejectSuggestion(s) PROVE NamesInv'
      BY <2>6, RejectNames
  <2>7. ASSUME NEW k \in Keys, AddAtGoogle(Utc[k]) PROVE NamesInv'
    <3>1. Utc[k] \in Keys
        BY ZonesAssumption
    <3>. QED  BY <2>7, <3>1, AddAtGoogleNames
  <2>8. ASSUME UNCHANGED vars PROVE NamesInv'
    <3>1. UNCHANGED <<database, connected, google, rows, memory, times, events, suggestions, request,
                      failures, overlapped, torn, relinked, asked, deleted>>
        BY <2>8, StutterParts
    <3>2. Len(events) <= Len(events')
        BY <3>1, StepTypes
    <3>. QED  BY <3>1, <3>2, OutsideNames
  <2>. QED  BY <2>1, <2>2, <2>3, <2>4, <2>5, <2>6, <2>7, <2>8, ConnectionNames, RestartNames
            DEF Next, Targets
<1>. QED  BY <1>1, <1>2, BaseInvAlways, PTL DEF Spec

\* An approved suggestion never names an event of Google's that is not there, and
\* a local one is stored as a row, unless someone asked to delete it.
THEOREM SuggestionsName == Spec => []SuggestionNamesEvent
<1>1. BaseInv /\ NamesInv => SuggestionNamesEvent
  <2>. SUFFICES ASSUME BaseInv, NamesInv, NEW s \in Suggestions,
                       suggestions[s].event \notin asked
                PROVE  /\ IsGoogle(suggestions[s].event) => suggestions[s].event[2] \in google
                       /\ IsMem(suggestions[s].event) /\ ~torn /\ ~relinked
                            => suggestions[s].event \in Names(rows)
      BY DEF SuggestionNamesEvent
  <2>1. PICK e : e = suggestions[s].event
      OBVIOUS
  <2>2. e \in ProviderIds \cup {NoId} /\ AtGoogle(e)
      BY <2>1 DEF BaseInv, TypeOK, SuggestionRecords, NamesInv, GoogleNamesInv
  <2>3. IsGoogle(e) => e[2] \in google
      BY <2>1, <2>2 DEF AtGoogle
  <2>4. ASSUME IsMem(e), ~torn, ~relinked PROVE e \in Names(rows)
    <3>1. PICK n \in Ids : e = MemId(n)
        BY <2>2, <2>4, PidKinds
    <3>2. StoredOrAsked(n)
        BY <2>1, <2>4, <3>1 DEF NamesInv, LocalNamesInv, LocalNames
    <3>3. rows[n] = e /\ Stored(rows[n])
        BY <2>1, <3>1, <3>2, Pids DEF StoredOrAsked
    <3>. QED  BY <3>3 DEF Names
  <2>. QED  BY <2>1, <2>3, <2>4
<1>. QED  BY <1>1, BaseInvAlways, NamesInvAlways, PTL

----------------------------------------------------------------------------
(* Every step keeps OrderlyInv *)

\* What holds of the request r, in hand or about to be; and what a step that
\* makes it q has to establish.
InOrder(r) ==
    /\ RowsApart /\ SentOnce(request[r])
    /\ request[r].pc # "idle" => Relies(request[r])
Keeps(q) == RowsApart' /\ SentOnce(q)' /\ (q.pc # "idle" => Relies(q)')
OthersIdle(r) == \A t \in Requests \ {r} : request[t].pc = "idle"

\* The request that takes a step has what it relies on, and is alone.
LEMMA OrderHand ==
    ASSUME BaseInv, OrderlyInv, Orderly, NEW r \in Requests, request[r].pc # "idle" \/ ~Busy
    PROVE  InOrder(r) /\ OthersIdle(r)
<1>1. RowsApart /\ OneAtATime
    BY DEF OrderlyInv
<1>2. OthersIdle(r)
    BY <1>1 DEF OthersIdle, OneAtATime, Busy
<1>3. CASE request[r].pc # "idle"
    BY <1>1, <1>2, <1>3 DEF OrderlyInv, InOrder
<1>4. CASE ~Busy
  <2>1. SentOnce(Idle) /\ Idle.pc = "idle" /\ request[r].pc = "idle"
      BY <1>4 DEF OrderlyInv, Idle, Busy
  <2>2. SentOnce(request[r])
      BY <2>1 DEF SentOnce, Carries
  <2>. QED  BY <1>1, <1>2, <2>1, <2>2 DEF InOrder
<1>. QED  BY <1>3, <1>4

\* A step of the one request to q keeps the invariant if it keeps what q needs.
LEMMA OrderFrame ==
    ASSUME BaseInv, NEW r \in Requests, NEW q, request' = [request EXCEPT ![r] = q],
           OthersIdle(r), Keeps(q)
    PROVE  OrderlyInv'
<1>1. request'[r] = q /\ \A t \in Requests \ {r} : request'[t] = request[t]
    BY OneRequest
<1>2. \A t \in Requests \ {r} : request'[t].pc = "idle"
    BY <1>1 DEF OthersIdle
<1>3. OneAtATime'
    BY <1>2 DEF OneAtATime
<1>4. \A t \in Requests : request'[t].pc # "idle" => t = r /\ request'[t] = q
    BY <1>1, <1>2
<1>5. ASSUME ~Busy' PROVE SentOnce(Idle)'
  <2>1. q.pc = "idle" /\ Idle.pc = "idle"
      BY <1>1, <1>5 DEF Busy, Idle
  <2>2. \A n, op, pcs : ~Carries(q, n, op, pcs \ {"idle"})
      BY <2>1 DEF Carries
  <2>3. SentOnce(q)'
      BY DEF Keeps
  <2>. QED  BY <2>1, <2>3 DEF SentOnce, Carries
<1>6. ASSUME NEW t \in Requests, request'[t].pc # "idle"
      PROVE  (Relies(request[t]) /\ SentOnce(request[t]))'
  <2>1. request'[t] = q
      BY <1>4, <1>6
  <2>2. Relies(q)' /\ SentOnce(q)'
      BY <1>6, <2>1 DEF Keeps
  <2>3. Relies(request[t])'
      BY <2>1, <2>2 DEF Relies
  <2>4. SentOnce(request[t])'
      BY <2>1, <2>2 DEF SentOnce, Carries
  <2>. QED  BY <2>3, <2>4
<1>. QED  BY <1>3, <1>5, <1>6 DEF OrderlyInv, Keeps

\* A row that is stored is of an event.
LEMMA RowsInRange ==
    ASSUME BaseInv
    PROVE  /\ \A n \in Ids : Stored(rows[n]) => n \in 1..Len(events)
           /\ \A n \in Ids : IsMem(rows[n]) => Stored(rows[n]) /\ rows[n] = MemId(n)
           /\ \A n \in Ids : rows[n] \in ProviderIds \cup {NoId}
           /\ \A i : IsMem(i) \/ IsGoogle(i) => Stored(i)
<1>1. \A i : IsMem(i) \/ IsGoogle(i) => Stored(i)
    BY DEF IsMem, IsGoogle, Stored, NoId
<1>2. \A n \in Ids : Stored(rows[n]) => n \in 1..Len(events)
    BY StepTypes DEF BaseInv, StoresInv, Ids
<1>3. \A n \in Ids : rows[n] \in ProviderIds \cup {NoId}
    BY DEF BaseInv, TypeOK
<1>. QED  BY <1>1, <1>2, <1>3 DEF BaseInv, StoresInv

\* The events that were there are what they were.
EventsStay ==
    /\ database' = database
    /\ Len(events) <= Len(events')
    /\ \A n \in 1..Len(events) : events'[n] = events[n]
\* Building an event leaves the others what they are.
LEMMA BuildStays ==
    ASSUME BaseInv, BaseInv', NEW key, NEW by, NEW of, Build(key, by, of), database' = database
    PROVE  /\ EventsStay /\ Len(events') = Len(events) + 1
           /\ Len(events) + 1 \in 1..Len(events')
           /\ events'[Len(events) + 1] = [key |-> key, by |-> by, of |-> of]
<1>1. PICK e : e = [key |-> key, by |-> by, of |-> of]
    OBVIOUS
<1>2. events' = Append(events, e) /\ Len(events) \in Nat /\ events \in Seq(EventRecords)
    BY <1>1 DEF Build, BaseInv, TypeOK
<1>3. \A n \in 1..Len(events) : events'[n] = events[n]
    BY <1>2
<1>4. Len(events') = Len(events) + 1 /\ events'[Len(events) + 1] = e
    BY <1>2
<1>5. Len(events) <= Len(events') /\ Len(events) + 1 \in 1..Len(events')
    BY <1>2, <1>4
<1>. QED  BY <1>1, <1>3, <1>4, <1>5 DEF EventsStay
LEMMA SameStay ==
    ASSUME BaseInv, UNCHANGED <<database, events>> PROVE EventsStay
BY StepTypes DEF EventsStay
\* So are their rows' keys.
LEMMA RowKeysStay ==
    ASSUME EventsStay PROVE \A n \in 1..Len(events) : RowKey(n)' = RowKey(n)
BY DEF EventsStay, RowKey, Kept

\* So are the rows that are found.
LEMMA FoundBefore ==
    ASSUME BaseInv, BaseInv', EventsStay, RowsFound' PROVE RowsFound
<1>1. \A n \in 1..Len(events) : n \in 1..Len(events') /\ events'[n] = events[n]
    BY DEF EventsStay, BaseInv, TypeOK
<1>. QED  BY <1>1, RowKeysStay DEF RowsFound

\* Rows stay apart when they stay what they are, or go.
LEMMA RowsStayApart ==
    ASSUME BaseInv, BaseInv', RowsApart, EventsStay,
           \A n \in Ids : rows'[n] \in {rows[n], NoId}
    PROVE  RowsApart'
<1>1. \A n \in Ids : /\ Stored(rows'[n]) => /\ rows'[n] = rows[n] /\ Stored(rows[n])
                                            /\ n \in 1..Len(events) /\ events'[n] = events[n]
                     /\ IsMem(rows'[n]) => Stored(rows'[n])
                     /\ n \in 1..Len(events) => RowKey(n)' = RowKey(n)
    BY RowsInRange, RowKeysStay, Pids DEF EventsStay
<1>2. ASSUME NEW m \in Ids, NEW n \in Ids, IsMem(rows'[m]), IsMem(rows'[n]),
             RowKey(m)' = RowKey(n)'
      PROVE  m = n
    BY <1>1, <1>2 DEF RowsApart
<1>3. ASSUME NEW n \in Ids, NEW m \in Ids, rows'[n] = GoogleId(m)
      PROVE  /\ m <= Len(events')
             /\ m = n \/ (events'[m].by = "sync" /\ events'[m].of = n)
  <2>1. rows[n] = GoogleId(m)
      BY <1>1, <1>3, Pids
  <2>2. m <= Len(events) /\ (m = n \/ (events[m].by = "sync" /\ events[m].of = n))
      BY <2>1 DEF RowsApart
  <2>3. m \in 1..Len(events) /\ Len(events) \in Nat /\ Len(events') \in Nat
      BY <2>2, StepTypes DEF Ids, BaseInv, TypeOK
  <2>. QED  BY <2>2, <2>3 DEF EventsStay
<1>4. ASSUME NEW n \in 1..Len(events'), events'[n].by = "sync" PROVE rows'[n] = NoId
  <2>1. n \in Ids
    <3>1. Len(events') \in Nat /\ Len(events') <= MaxEvents /\ MaxEvents \in Nat
        BY BoundsAssumption DEF BaseInv, TypeOK
    <3>. QED  BY <3>1 DEF Ids
  <2>2. CASE n \in 1..Len(events)
    <3>1. rows[n] = NoId
        BY <1>4, <2>2 DEF RowsApart, EventsStay
    <3>. QED  BY <2>1, <3>1
  <2>3. CASE n \notin 1..Len(events)
      BY <1>1, <2>1, <2>3 DEF Stored
  <2>. QED  BY <2>2, <2>3
<1>5. ASSUME NEW m \in Ids, NEW n \in Ids, Stored(rows'[m]), Stored(rows'[n]),
             events'[m].key = events'[n].key, Plain(events'[m].key),
             events'[m].by = "create", events'[n].by = "create"
      PROVE  m = n
    BY <1>1, <1>5 DEF RowsApart
<1>. QED  BY <1>2, <1>3, <1>4, <1>5 DEF RowsApart, Plain

\* What Google was sent stays sent once, when nothing new is sent and what p
\* carried is carried on by q, or has come back.
LEMMA SentStays ==
    ASSUME BaseInv, NEW p, NEW q, SentOnce(p), EventsStay, google' \subseteq google,
           \A n \in 1..(Len(events) - 1) : IsMem(rows'[n]) => IsMem(rows[n]),
           \A s \in Suggestions : IsGoogle(suggestions[s].event) => IsGoogle(suggestions'[s].event),
           \A n \in google : Carries(p, n, "sync", {"search", "relink"}) =>
               \/ Carries(q, n, "sync", {"search", "relink"})
               \/ events[n].by = "sync" => ~IsMem(rows'[events[n].of]),
           \A n \in google : Carries(p, n, "approve", {"search", "store", "finish"}) =>
               \/ Carries(q, n, "approve", {"search", "store", "finish"})
               \/ events[n].by = "approve" => IsGoogle(suggestions'[events[n].of].event)
    PROVE  SentOnce(q)'
<1>1. /\ google \subseteq 1..Len(events) /\ Len(events) \in Nat
      /\ \A n \in google' : n \in google /\ events'[n] = events[n]
    BY StepTypes DEF EventsStay
<1>2. ASSUME NEW n \in google', events'[n].by = "sync"
      PROVE  ~IsMem(rows'[events'[n].of]) \/ Carries(q, n, "sync", {"search", "relink"})
  <2>1. n \in google /\ events'[n] = events[n] /\ n \in 1..Len(events)
      BY <1>1
  <2>2. events[n].of \in 1..(n - 1)
      BY <1>2, <2>1 DEF BaseInv, EventsInv
  <2>3. events[n].of \in 1..(Len(events) - 1)
      BY <1>1, <2>1, <2>2
  <2>. QED  BY <1>2, <2>1, <2>3 DEF SentOnce
<1>3. ASSUME NEW n \in google', events'[n].by = "approve"
      PROVE  \/ IsGoogle(suggestions'[events'[n].of].event)
             \/ Carries(q, n, "approve", {"search", "store", "finish"})
  <2>1. n \in google /\ events'[n] = events[n] /\ n \in 1..Len(events)
      BY <1>1
  <2>2. events[n].of \in Suggestions
      BY <1>3, <2>1 DEF BaseInv, EventsInv
  <2>. QED  BY <1>3, <2>1, <2>2 DEF SentOnce
<1>4. ASSUME NEW m \in google', NEW n \in google', events'[m].by = events'[n].by,
             events'[m].by \in {"sync", "approve"}, events'[m].of = events'[n].of
      PROVE  m = n
    BY <1>1, <1>4 DEF SentOnce
<1>. QED  BY <1>2, <1>3, <1>4 DEF SentOnce, Carries

\* Steps of a request that leave rows, suggestions and Google alone, and that p
\* carries nothing through.
LEMMA SteadyKept ==
    ASSUME BaseInv, BaseInv', NEW p, NEW q, SentOnce(p), RowsApart, EventsStay,
           google' \subseteq google, UNCHANGED <<rows, suggestions>>,
           p.pc \notin {"search", "relink", "store", "finish"} \/ p.op \notin {"sync", "approve"}
    PROVE  RowsApart' /\ SentOnce(q)'
<1>1. RowsApart'
    BY RowsStayApart
<1>2. SentOnce(q)'
    BY SentStays DEF Carries
<1>. QED  BY <1>1, <1>2

\* A request that only goes on relies on what it relied on.
LEMMA QuietOrder ==
    ASSUME BaseInv, BaseInv', NEW r \in Requests, InOrder(r), NEW q, Quiet(r, q)
    PROVE  Keeps(q)
<1>1. PICK p : p = request[r] /\ Shape(p, events) /\ p \in RequestRecords
    BY InHandFields
<1>2. /\ UNCHANGED <<database, google, rows, events, suggestions>>
      /\ \/ p.pc \in {"list", "next"} /\ q = Idle
         \/ p.pc = "list" /\ q.pc = "listlocal" /\ Moved(p, q)
         \/ p.pc \in Untold /\ q.pc \in Untold \cup {"search"} /\ Moved(p, q)
    BY <1>1 DEF Quiet
<1>3. p.pc \in {"list", "next"} \cup Untold
    BY <1>2
<1>4. RowsApart' /\ SentOnce(q)'
    BY <1>1, <1>2, <1>3, SameStay, SteadyKept DEF InOrder, Untold
<1>5. Relies(p) /\ Idle.pc = "idle"
    BY <1>1, <1>3 DEF InOrder, Untold, Idle
<1>6. ASSUME q.pc # "idle" PROVE Relies(q)'
  <2>1. /\ q.op = p.op /\ q.key = p.key /\ q.of = p.of /\ q.id = p.id /\ q.pid = p.pid
        /\ q.loaded = p.loaded /\ q.todo = p.todo
        /\ \/ p.pc = "list" /\ q.pc = "listlocal"
           \/ p.pc \in Untold /\ q.pc \in Untold \cup {"search"}
      BY <1>2, <1>5, <1>6 DEF Moved
  <2>2. CASE p.pc = "list" /\ q.pc = "listlocal"
    <3>1. q.op = "create" /\ q.pc \notin Making
        BY <1>1, <2>1, <2>2 DEF Shape, OpAt, Making, Untold
    <3>. QED  BY <2>2, <3>1 DEF Relies
  <2>3. CASE p.pc \in Untold /\ q.pc \in Untold \cup {"search"}
    <3>1. p.pc \in Making /\ q.pc \in Making /\ q.pc \notin {"repo", "store", "next"} /\ p.pc # "next"
        BY <2>3 DEF Making, Untold
    <3>2. \A n : RowKey(n)' = RowKey(n)
        BY <1>2 DEF RowKey, Kept
    <3>. QED  BY <1>2, <1>5, <2>1, <3>1, <3>2 DEF Relies
  <2>. QED  BY <2>1, <2>2, <2>3
<1>. QED  BY <1>4, <1>6 DEF Keeps

\* The steps below go from request[r] to some q.
Orders(r) == \E q : request' = [request EXCEPT ![r] = q] /\ Keeps(q)

\* The local listing found no row of this time: the one request now relies on it.
LEMMA ListLocalOrder ==
    ASSUME BaseInv, BaseInv', ~torn', NEW r \in Requests, InOrder(r), ListLocal(r)
    PROVE  Orders(r)
<1>1. PICK p : p = request[r] /\ Shape(p, events) /\ p.pc = "listlocal"
    BY InHandFields, Clashed
<1>2. UNCHANGED <<google, rows, suggestions>>
    BY Clashed DEF stores, local
<1>3. CASE Step(r, "listlocal", Idle) /\ UNCHANGED events
  <2>1. RowsApart' /\ SentOnce(Idle)'
      BY <1>1, <1>2, <1>3, SameStay, SteadyKept DEF InOrder, Step
  <2>2. Keeps(Idle)
      BY <2>1 DEF Keeps, Idle
  <2>. QED  BY <1>3, <2>2 DEF Orders, Step
<1>4. CASE ~(Step(r, "listlocal", Idle) /\ UNCHANGED events)
  <2>1. PICK q : /\ q \in RequestRecords /\ Step(r, "listlocal", q)
                 /\ q.op = "create" /\ q.key = request[r].key /\ q.of = 0
                 /\ q.key \in Keys
                 /\ q.target = request[r].target /\ q.todo = request[r].todo
                 /\ q.gone = request[r].gone /\ q.pid = NoId
                 /\ q.pc = "tokens" /\ q.id = Len(events) + 1
                 /\ Build(q.key, "create", 0)
                 /\ ~torn' => Clashes(q.key, TRUE) = {}
      BY <1>4, Clashed
  <2>2. EventsStay /\ Len(events') = Len(events) + 1
      BY <2>1, BuildStays DEF Step
  <2>3. RowsApart' /\ SentOnce(q)'
      BY <1>1, <1>2, <2>2, SteadyKept DEF InOrder
  <2>4. ASSUME Plain(q.key), NEW n \in Ids, Stored(rows'[n]) PROVE RowKey(n)' # q.key
    <3>1. Stored(rows[n]) /\ RowKey(n)' = RowKey(n)
        BY <1>2, <2>2, <2>4, RowsInRange, RowKeysStay
    <3>2. \A m \in Ids : Stored(rows[m]) => RowKey(m) # q.key
        BY <2>1, <2>4 DEF Clashes, Plain
    <3>. QED  BY <3>1, <3>2
  <2>5. Relies(q)'
      BY <2>1, <2>2, <2>4 DEF Relies
  <2>. QED  BY <2>1, <2>3, <2>5 DEF Orders, Keeps, Step
<1>. QED  BY <1>3, <1>4

\* A row that is still local is built anew for Google.
LEMMA SyncNextOrder ==
    ASSUME BaseInv, BaseInv', NEW r \in Requests, InOrder(r), SyncNext(r) PROVE Orders(r)
<1>1. PICK p : p = request[r] /\ Shape(p, events) /\ p.op = "sync" /\ p.pc = "next"
    BY InHandFields, Syncing
<1>2. UNCHANGED <<google, rows, suggestions>>
    BY Syncing DEF stores, local
<1>3. PICK n \in p.todo : \E q :
          /\ q \in RequestRecords /\ Step(r, "next", q)
          /\ q.op = "sync" /\ q.pc = "tokens" /\ q.of = n /\ q.key = RowKey(n)
          /\ q.target = p.target /\ q.id = Len(events) + 1 /\ q.pid = NoId
          /\ q.todo = p.todo \ {n} /\ q.gone = p.gone
          /\ n \in 1..Len(events) /\ Build(q.key, "sync", n)
    BY <1>1, Syncing
<1>4. PICK q : /\ Step(r, "next", q) /\ q.op = "sync" /\ q.pc = "tokens" /\ q.of = n
               /\ q.key = RowKey(n) /\ q.id = Len(events) + 1 /\ q.pid = NoId
               /\ q.todo = p.todo \ {n} /\ n \in 1..Len(events) /\ Build(q.key, "sync", n)
    BY <1>3
<1>5. EventsStay /\ Len(events') = Len(events) + 1
    BY <1>4, BuildStays DEF Step
<1>6. RowsApart' /\ SentOnce(q)'
    BY <1>1, <1>2, <1>5, SteadyKept DEF InOrder
<1>7. \A m \in p.todo : IsMem(rows[m])
    BY <1>1 DEF InOrder, Relies
<1>8. Relies(q)'
  <2>1. RowKey(n)' = RowKey(n)
      BY <1>4, <1>5, RowKeysStay
  <2>. QED  BY <1>2, <1>4, <1>5, <1>7, <2>1 DEF Relies, EventsStay
<1>. QED  BY <1>4, <1>6, <1>8 DEF Orders, Keeps, Step

\* Google has no event of this row or suggestion yet: the row would carry its id,
\* and the suggestion name it.
LEMMA InsertAtGoogleOrder ==
    ASSUME BaseInv, BaseInv', NEW r \in Requests, InOrder(r), InsertAtGoogle(r) PROVE Orders(r)
<1>1. PICK p : p = request[r] /\ p \in RequestRecords /\ Shape(p, events) /\ p.pc = "insert"
    BY InHandFields DEF InsertAtGoogle, Step
<1>2. PICK q : q = [p EXCEPT !.pc = "search", !.pid = GoogleId(p.id)]
    OBVIOUS
<1>3. /\ request' = [request EXCEPT ![r] = q] /\ google' = google \cup {p.id}
      /\ UNCHANGED <<database, rows, events, suggestions>>
    BY <1>1, <1>2 DEF InsertAtGoogle, Step, faults, local
<1>4. /\ q.op = p.op /\ q.key = p.key /\ q.of = p.of /\ q.id = p.id /\ q.pid = GoogleId(p.id)
      /\ q.pc = "search" /\ q.loaded = p.loaded /\ q.todo = p.todo
    BY <1>1, <1>2 DEF RequestRecords
<1>5. /\ p.pc \in Making /\ q.pc \in Making /\ q.pc \notin {"next", "repo", "store"}
      /\ p.pc # "next"
    BY <1>1, <1>4 DEF Making, Untold
<1>6. events[p.id] = [key |-> p.key, by |-> p.op, of |-> p.of]
    BY <1>1, <1>5 DEF Shape
<1>7. Relies(p) /\ SentOnce(p)
    BY <1>1 DEF InOrder
<1>8. RowsApart'
    BY <1>3, SameStay, RowsStayApart DEF InOrder
<1>9. Relies(q)'
  <2>1. \A n : RowKey(n)' = RowKey(n)
      BY <1>3 DEF RowKey, Kept
  <2>. QED  BY <1>3, <1>4, <1>5, <1>7, <2>1 DEF Relies
<1>10. \A n, op, pcs : ~Carries(p, n, op, pcs \ {"insert"})
    BY <1>1 DEF Carries
<1>11. /\ \A n \in google : events[n].by = "sync" => ~IsMem(rows[events[n].of])
       /\ \A n \in google : events[n].by = "approve" => IsGoogle(suggestions[events[n].of].event)
    BY <1>1, <1>7 DEF SentOnce, Carries
<1>12. ASSUME NEW n \in google, events[n].by = p.op, p.op \in {"sync", "approve"},
              events[n].of = p.of
       PROVE  FALSE
  <2>1. CASE p.op = "sync"
    <3>1. IsMem(rows[p.of])
        BY <1>5, <1>7, <2>1 DEF Relies
    <3>. QED  BY <1>11, <1>12, <2>1, <3>1
  <2>2. CASE p.op = "approve"
    <3>1. ~IsGoogle(suggestions[p.of].event)
        BY <1>5, <1>7, <2>2 DEF Relies
    <3>. QED  BY <1>11, <1>12, <2>2, <3>1
  <2>. QED  BY <1>12, <2>1, <2>2
<1>13. ASSUME NEW n \in google'
       PROVE  /\ events[n].by = "sync" => 
                   ~IsMem(rows[events[n].of]) \/ Carries(q, n, "sync", {"search", "relink"})
              /\ events[n].by = "approve" =>
                   \/ IsGoogle(suggestions[events[n].of].event)
                   \/ Carries(q, n, "approve", {"search", "store", "finish"})
    BY <1>3, <1>4, <1>6, <1>11 DEF Carries
<1>14. ASSUME NEW m \in google', NEW n \in google', events[m].by = events[n].by,
              events[m].by \in {"sync", "approve"}, events[m].of = events[n].of
       PROVE  m = n
  <2>1. CASE m \in google /\ n \in google
      BY <1>7, <1>14, <2>1 DEF SentOnce
  <2>2. CASE m \notin google
      BY <1>3, <1>6, <1>12, <1>14, <2>2
  <2>3. CASE n \notin google
      BY <1>3, <1>6, <1>12, <1>14, <2>3
  <2>. QED  BY <2>1, <2>2, <2>3
<1>15. SentOnce(q)'
    BY <1>3, <1>13, <1>14 DEF SentOnce, Carries
<1>. QED  BY <1>3, <1>8, <1>9, <1>15 DEF Orders, Keeps

\* Rows that are only local and of one time are one.
LEMMA OneDuplicate ==
    ASSUME BaseInv, RowsApart, NEW k, NEW n \in Duplicates(k)
    PROVE  Duplicates(k) = {n} /\ Cardinality(Duplicates(k)) = 1
<1>1. \A m \in Duplicates(k) : m = n
    BY DEF Duplicates, RowsApart
<1>2. Duplicates(k) = {n}
    BY <1>1
<1>. QED  BY <1>2, FS_Singleton

\* The search never meets two rows of one time, so that it finds the one there is;
\* a created event meets none if it was asked for in UTC, and a synced one its
\* own row.
LEMMA SearchLocalOrder ==
    ASSUME BaseInv, BaseInv', ~torn', RowsFound, NEW r \in Requests, InOrder(r), SearchLocal(r)
    PROVE  Orders(r)
<1>1. PICK p : p = request[r] /\ Shape(p, events)
    BY InHandFields
<1>2. PICK q : /\ q \in RequestRecords /\ Step(r, "search", q)
               /\ q.op = p.op /\ q.of = p.of
               /\ q.target = p.target /\ q.todo = p.todo
               /\ q.loaded = p.loaded /\ q.gone = p.gone
               /\ \/ /\ Stored(p.pid) /\ q.pid = p.pid
                     /\ q.id = p.id /\ q.pc = Caller(q.op) /\ q.key = p.key
                     /\ \E n \in Duplicates(q.key) : Duplicates(q.key) = {n}
                  \/ /\ ~Stored(p.pid) /\ q.id \in Ids /\ q.pid = MemId(q.id)
                     /\ rows[q.id] = MemId(q.id) /\ q.key = RowKey(q.id)
                     /\ q.id \in 1..Len(events) /\ q.pc = Caller(q.op)
                     /\ Duplicates(p.key) = {q.id}
                  \/ /\ q.id = p.id /\ q.pc = "store" /\ q.key = p.key
                     /\ q.pid = IF Stored(p.pid) THEN p.pid
                                ELSE MemId(p.id)
                     /\ ~torn' => Cardinality(Duplicates(q.key)) # 1
    BY <1>1, Searched
<1>3. /\ p.pc = "search" /\ request' = [request EXCEPT ![r] = q]
      /\ UNCHANGED <<database, google, rows, events, suggestions>>
    BY <1>1, <1>2 DEF Step, SearchLocal, stores, local
<1>4. p.op \in {"create", "approve", "sync"} /\ p.pc \in Making
    BY <1>1, <1>3 DEF Shape, OpAt, Making, Untold
<1>5. Relies(p) /\ SentOnce(p) /\ RowsApart
    BY <1>1, <1>3 DEF InOrder
<1>6. RowsApart'
    BY <1>3, <1>5, SameStay, RowsStayApart
<1>7. p.op = "create" /\ Plain(p.key) => \A n \in Ids : Stored(rows[n]) => RowKey(n) # p.key
    BY <1>4, <1>5 DEF Relies
<1>8. p.op = "sync" => p.of \in Duplicates(p.key)
  <2>. SUFFICES ASSUME p.op = "sync" PROVE p.of \in Duplicates(p.key)
      OBVIOUS
  <2>1. p.of \in Ids /\ p.of \in 1..Len(events)
      BY <1>1, <1>3, StepTypes DEF Shape
  <2>2. IsMem(rows[p.of]) /\ RowKey(p.of) = p.key
      BY <1>3, <1>5 DEF Relies
  <2>3. Plain(RowKey(p.of))
      BY <2>1, EventTyped, KeptKeys DEF RowKey
  <2>. QED  BY <2>1, <2>2, <2>3 DEF Duplicates, Plain
<1>9. p.op = "create" /\ Plain(p.key) => Duplicates(p.key) = {}
    BY <1>7, RowsInRange DEF Duplicates, Plain
<1>10. p.op = "approve" => /\ p.loaded.event = suggestions[p.of].event
                           /\ ~IsGoogle(suggestions[p.of].event)
    BY <1>4, <1>5 DEF Relies
<1>0. \A n : RowKey(n)' = RowKey(n)
    BY <1>3 DEF RowKey, Kept
<1>11. CASE q.pc = Caller(q.op) /\ q.pc # "store"
  <2>1. q.op \in {"create", "approve", "sync"}
      BY <1>2, <1>4
  <2>2. /\ q.op = "create" => q.pc = "repo"
        /\ q.op = "approve" => q.pc = "finish"
        /\ q.op = "sync" => q.pc = "relink"
      BY <1>11 DEF Caller
  <2>3. q.pc \in {"repo", "finish", "relink"}
      BY <2>1, <2>2
  <2>4. Relies(q)'
    <3>1. q.op = "sync" => /\ q.of \notin q.todo /\ IsMem(rows[q.of]) /\ RowKey(q.of) = q.key
                           /\ \A n \in q.todo : IsMem(rows[n])
      <4>1. q.op = "sync" => /\ p.of \notin p.todo /\ IsMem(rows[p.of]) /\ RowKey(p.of) = p.key
                             /\ \A n \in p.todo : IsMem(rows[n])
          BY <1>2, <1>3, <1>5 DEF Relies
      <4>2. q.op = "sync" => RowKey(q.of) = q.key
          BY <1>2, <1>8, <1>11, <4>1
      <4>. QED  BY <1>2, <4>1, <4>2
    <3>2. q.pc \notin Making /\ q.pc \notin {"store", "next"}
        BY <2>3 DEF Making, Untold
    <3>3. q.pc = "repo" => rows[q.id] = q.pid \/ (IsGoogle(q.pid) /\ ~Plain(q.key))
      <4>. SUFFICES ASSUME q.pc = "repo" PROVE rows[q.id] = q.pid \/ (IsGoogle(q.pid) /\ ~Plain(q.key))
          OBVIOUS
      <4>1. p.op = "create"
          BY <1>2, <2>1, <2>2
      <4>2. CASE Stored(p.pid) /\ q.pid = p.pid /\ q.key = p.key /\ Duplicates(q.key) # {}
        <5>1. IsGoogle(q.pid)
            BY <1>1, <1>3, <4>2, Pids DEF Shape
        <5>. QED  BY <1>9, <4>1, <4>2, <5>1
      <4>. QED  BY <1>2, <2>3, <4>2
    <3>. QED  BY <1>0, <1>2, <1>3, <1>10, <2>3, <3>1, <3>2, <3>3 DEF Relies
  <2>5. SentOnce(q)'
    <3>1. ASSUME NEW n, p.pid = GoogleId(n) PROVE q.pid = p.pid /\ q.id = p.id
      <4>1. Stored(p.pid)
          BY <3>1, Pids
      <4>2. q.pc # "store"
          BY <2>3
      <4>. QED  BY <1>2, <4>1, <4>2
    <3>2. /\ \A n : Carries(p, n, "sync", {"search", "relink"}) =>
                    Carries(q, n, "sync", {"search", "relink"})
          /\ \A n : Carries(p, n, "approve", {"search", "store", "finish"}) =>
                    Carries(q, n, "approve", {"search", "store", "finish"})
        BY <1>2, <2>2, <3>1 DEF Carries
    <3>. QED  BY <1>3, <1>5, <3>2, SameStay, SentStays
  <2>. QED  BY <1>3, <1>6, <2>4, <2>5 DEF Orders, Keeps
<1>12. CASE /\ q.id = p.id /\ q.pc = "store" /\ q.key = p.key
            /\ q.pid = IF Stored(p.pid) THEN p.pid ELSE MemId(p.id)
            /\ Cardinality(Duplicates(q.key)) # 1
  <2>1. Duplicates(p.key) = {}
      BY <1>5, <1>12, OneDuplicate
  <2>2. p.op # "sync"
      BY <1>8, <2>1
  <2>3. \A n \in Ids : IsMem(rows[n]) => RowKey(n) # RowKey(p.id)
    <3>1. p.id \in 1..Len(events) /\ events[p.id].key = p.key
        BY <1>1, <1>4 DEF Shape
    <3>2. RowKey(p.id) = Digits[p.key]
        BY <3>1 DEF RowsFound
    <3>. QED  BY <2>1, <3>2 DEF Duplicates
  <2>4. q.pc \in Making /\ q.pc = "store"
      BY <1>12 DEF Making
  <2>5. p.id = Len(events)
      BY <1>4, <1>5 DEF Relies
  <2>6. Relies(q)'
      BY <1>0, <1>2, <1>3, <1>7, <1>10, <1>12, <2>2, <2>3, <2>4, <2>5 DEF Relies, Plain
  <2>7. SentOnce(q)'
    <3>1. ASSUME NEW n, p.pid = GoogleId(n) PROVE q.pid = p.pid /\ q.id = p.id
        BY <1>12, <3>1, Pids
    <3>2. /\ \A n : ~Carries(p, n, "sync", {"search", "relink"})
          /\ \A n : Carries(p, n, "approve", {"search", "store", "finish"}) =>
                    Carries(q, n, "approve", {"search", "store", "finish"})
        BY <1>2, <1>12, <2>2, <3>1 DEF Carries
    <3>. QED  BY <1>3, <1>5, <3>2, SameStay, SentStays
  <2>. QED  BY <1>3, <1>6, <2>6, <2>7 DEF Orders, Keeps
<1>13. q.pc = Caller(q.op) => q.pc # "store"
    BY <1>2, <1>4 DEF Caller
<1>. QED  BY <1>2, <1>11, <1>12, <1>13

\* The row is new, and no other carries its provider id.
LEMMA StoreOrder ==
    ASSUME BaseInv, BaseInv', ~torn', NEW r \in Requests, InOrder(r), Store(r) PROVE Orders(r)
<1>1. PICK p : p = request[r] /\ p \in RequestRecords /\ Shape(p, events)
    BY InHandFields
<1>2. PICK q : q = [p EXCEPT !.pc = Caller(p.op)]
    OBVIOUS
<1>3. Keep(r, "store", q)
    BY <1>1, <1>2 DEF Store
<1>4. /\ p.pc = "store" /\ p.id \in 1..Len(events) /\ p.pid \in {MemId(p.id), GoogleId(p.id)}
      /\ p.pid \in ProviderIds /\ rows' = Saved(p.id, p.pid)
    BY <1>1, <1>3, KeepTyped
<1>5. /\ request' = [request EXCEPT ![r] = q] /\ UNCHANGED <<database, google, events, suggestions>>
    BY <1>3 DEF Keep, Step
<1>6. Relies(p) /\ SentOnce(p) /\ RowsApart
    BY <1>1, <1>4 DEF InOrder
<1>7. p.op \in {"create", "approve"} /\ p.pc \in Making
    BY <1>1, <1>4, <1>6 DEF Shape, OpAt, Making, Untold, Relies
<1>8. events[p.id] = [key |-> p.key, by |-> p.op, of |-> p.of] /\ p.id = Len(events)
    BY <1>1, <1>6, <1>7 DEF Shape, Relies
<1>9. p.id \in Ids /\ rows \in [Ids -> ProviderIds \cup {NoId}]
    BY <1>4, StepTypes DEF BaseInv, TypeOK
<1>10. rows' = [rows EXCEPT ![p.id] = p.pid]
  <2>1. ASSUME NEW n \in Ids, rows[n] = p.pid PROVE n = p.id
    <3>1. CASE p.pid = MemId(p.id)
      <4>1. rows[n] = MemId(n)
          BY <2>1, <3>1, Pids, RowsInRange
      <4>. QED  BY <2>1, <3>1, <4>1, Pids
    <3>2. CASE p.pid = GoogleId(p.id)
      <4>1. p.id = n \/ events[p.id].by = "sync"
          BY <1>6, <1>9, <2>1, <3>2 DEF RowsApart
      <4>. QED  BY <1>7, <1>8, <4>1
    <3>. QED  BY <1>4, <3>1, <3>2
  <2>2. Stored(p.pid)
      BY <1>4, Pids
  <2>3. Stored(rows[p.id]) \/ ~\E n \in Ids : rows[n] = p.pid
      BY <2>1, <2>2
  <2>. QED  BY <1>4, <2>3 DEF Saved
<1>11. ASSUME NEW n \in Ids PROVE rows'[n] = IF n = p.id THEN p.pid ELSE rows[n]
    BY <1>9, <1>10
<1>12. q.pc \in {"repo", "finish"} /\ (p.op = "create" <=> q.pc = "repo")
  <2>1. Caller(p.op) \in {"repo", "finish"} /\ (p.op = "create" <=> Caller(p.op) = "repo")
      BY <1>7 DEF Caller
  <2>. QED  BY <1>1, <1>2, <2>1 DEF RequestRecords
<1>13. /\ q.op = p.op /\ q.key = p.key /\ q.of = p.of /\ q.id = p.id /\ q.pid = p.pid
       /\ q.loaded = p.loaded /\ q.todo = p.todo
    BY <1>1, <1>2 DEF RequestRecords
<1>14. Relies(q)'
  <2>1. q.pc \notin Making /\ q.pc # "store" /\ q.op # "sync"
      BY <1>7, <1>12, <1>13 DEF Making, Untold
  <2>2. q.op = "approve" => /\ q.loaded.event = suggestions[q.of].event
                            /\ ~IsGoogle(suggestions[q.of].event)
      BY <1>6, <1>7, <1>13 DEF Relies
  <2>. QED  BY <1>5, <1>9, <1>11, <1>13, <2>1, <2>2 DEF Relies
<1>0. \A n : RowKey(n)' = RowKey(n)
    BY <1>5 DEF RowKey, Kept
<1>15. RowsApart'
  <2>1. /\ IsMem(p.pid) => \A n \in Ids : IsMem(rows[n]) => RowKey(n) # RowKey(p.id)
        /\ p.op = "create" /\ Plain(p.key) => \A n \in Ids : Stored(rows[n]) => RowKey(n) # p.key
      BY <1>4, <1>6, <1>7 DEF Relies
  <2>2. ASSUME NEW m \in Ids, NEW n \in Ids, IsMem(rows'[m]), IsMem(rows'[n]),
               RowKey(m) = RowKey(n)
        PROVE  m = n
      BY <1>6, <1>8, <1>11, <2>1, <2>2 DEF RowsApart
  <2>3. ASSUME NEW n \in Ids, NEW m \in Ids, rows'[n] = GoogleId(m)
        PROVE  m <= Len(events) /\ (m = n \/ (events[m].by = "sync" /\ events[m].of = n))
    <3>1. CASE n = p.id
      <4>1. m = p.id
          BY <1>4, <1>11, <2>3, <3>1, Pids
      <4>. QED  BY <1>8, <3>1, <4>1, StepTypes
    <3>2. CASE n # p.id
        BY <1>6, <1>11, <2>3, <3>2 DEF RowsApart
    <3>. QED  BY <3>1, <3>2
  <2>4. ASSUME NEW n \in 1..Len(events), events[n].by = "sync" PROVE rows'[n] = NoId
    <3>1. n \in Ids /\ n # p.id
        BY <1>7, <1>8, <2>4, StepTypes
    <3>. QED  BY <1>6, <1>11, <2>4, <3>1 DEF RowsApart
  <2>5. ASSUME NEW m \in Ids, NEW n \in Ids, Stored(rows'[m]), Stored(rows'[n]),
               events[m].key = events[n].key, Plain(events[m].key),
               events[m].by = "create", events[n].by = "create"
        PROVE  m = n
    <3>1. ASSUME NEW i \in Ids, i # p.id, Stored(rows[i]), events[i].key = p.key, Plain(p.key),
                 p.op = "create"
          PROVE  FALSE
      <4>1. i \in 1..Len(events)
          BY <3>1, RowsInRange
      <4>2. p.key \in Keys
          BY <3>1, <4>1, EventTyped
      <4>3. RowKey(i) = p.key
          BY <3>1, <4>2, KeptKeys DEF RowKey
      <4>. QED  BY <2>1, <3>1, <4>3
    <3>2. CASE m # p.id /\ n # p.id
        BY <1>6, <1>11, <2>5, <3>2 DEF RowsApart
    <3>. QED  BY <1>8, <1>11, <2>5, <3>1, <3>2
  <2>. QED  BY <1>0, <1>5, <2>2, <2>3, <2>4, <2>5 DEF RowsApart, Plain
<1>16. SentOnce(q)'
  <2>1. ASSUME NEW n \in 1..(Len(events) - 1), IsMem(rows'[n]) PROVE IsMem(rows[n])
    <3>1. n \in Ids /\ n # p.id
        BY <1>8, StepTypes DEF Ids
    <3>. QED  BY <1>11, <2>1, <3>1
  <2>2. /\ \A n : ~Carries(p, n, "sync", {"search", "relink"})
        /\ \A n : Carries(p, n, "approve", {"search", "store", "finish"}) =>
                  Carries(q, n, "approve", {"search", "store", "finish"})
      BY <1>7, <1>12, <1>13 DEF Carries
  <2>. QED  BY <1>5, <1>6, <2>1, <2>2, SameStay, SentStays
<1>. QED  BY <1>5, <1>14, <1>15, <1>16 DEF Orders, Keeps

\* The second write finds its own row and changes nothing, or makes the row of an
\* event of Google's whose time the local look-up took for another row's.
LEMMA RepoCreateOrder ==
    ASSUME BaseInv, BaseInv', ~torn', NEW r \in Requests, InOrder(r), RepoCreate(r)
    PROVE  Orders(r)
<1>1. PICK p : p = request[r] /\ Shape(p, events)
    BY InHandFields
<1>2. /\ p.pc = "repo" /\ p.id \in 1..Len(events) /\ p.pid \in {MemId(p.id), GoogleId(p.id)}
      /\ rows' = Saved(p.id, p.pid)
    BY <1>1, KeepTyped DEF RepoCreate
<1>3. /\ request' = [request EXCEPT ![r] = Idle]
      /\ UNCHANGED <<database, google, events, suggestions>>
    BY DEF RepoCreate, Keep, Step
<1>4. /\ rows[p.id] = p.pid \/ (IsGoogle(p.pid) /\ ~Plain(p.key))
      /\ p.op = "create"
    BY <1>1, <1>2 DEF InOrder, Relies, Shape, OpAt, Making, Untold
<1>5. p.id \in Ids /\ rows \in [Ids -> ProviderIds \cup {NoId}]
    BY <1>2, StepTypes DEF BaseInv, TypeOK
<1>6. RowsApart /\ SentOnce(p) /\ EventsStay
    BY <1>1, <1>3, SameStay DEF InOrder
<1>7. CASE rows' = rows
  <2>1. RowsApart' /\ SentOnce(Idle)'
      BY <1>3, <1>4, <1>6, <1>7, SteadyKept
  <2>2. Keeps(Idle)
      BY <2>1 DEF Keeps, Idle
  <2>. QED  BY <1>3, <2>2 DEF Orders
<1>8. CASE rows' # rows
  <2>1. rows' = [rows EXCEPT ![p.id] = p.pid] /\ IsGoogle(p.pid) /\ ~Plain(p.key)
      BY <1>2, <1>4, <1>5, <1>8 DEF Saved
  <2>2. p.pid = GoogleId(p.id) /\ ~IsMem(p.pid)
      BY <1>2, <2>1, Pids
  <2>3. events[p.id] = [key |-> p.key, by |-> "create", of |-> p.of]
      BY <1>1, <1>4, <2>1 DEF Shape
  <2>4. ASSUME NEW n \in Ids PROVE rows'[n] = IF n = p.id THEN p.pid ELSE rows[n]
      BY <1>5, <2>1
  <2>5. \A n : RowKey(n)' = RowKey(n)
      BY <1>3 DEF RowKey, Kept
  <2>6. RowsApart'
    <3>1. ASSUME NEW m \in Ids, NEW n \in Ids, IsMem(rows'[m]), IsMem(rows'[n]),
                 RowKey(m) = RowKey(n)
          PROVE  m = n
        BY <1>6, <2>2, <2>4, <3>1 DEF RowsApart
    <3>2. ASSUME NEW n \in Ids, NEW m \in Ids, rows'[n] = GoogleId(m)
          PROVE  m <= Len(events) /\ (m = n \/ (events[m].by = "sync" /\ events[m].of = n))
      <4>1. CASE n = p.id
        <5>1. m = p.id
            BY <2>2, <2>4, <3>2, <4>1, Pids
        <5>. QED  BY <1>2, <4>1, <5>1, StepTypes
      <4>2. CASE n # p.id
          BY <1>6, <2>4, <3>2, <4>2 DEF RowsApart
      <4>. QED  BY <4>1, <4>2
    <3>3. ASSUME NEW n \in 1..Len(events), events[n].by = "sync" PROVE rows'[n] = NoId
      <4>1. n \in Ids /\ n # p.id
          BY <2>3, <3>3, StepTypes
      <4>. QED  BY <1>6, <2>4, <3>3, <4>1 DEF RowsApart
    <3>4. ASSUME NEW m \in Ids, NEW n \in Ids, Stored(rows'[m]), Stored(rows'[n]),
                 events[m].key = events[n].key, Plain(events[m].key),
                 events[m].by = "create", events[n].by = "create"
          PROVE  m = n
      <4>1. m # p.id /\ n # p.id
          BY <2>1, <2>3, <3>4
      <4>. QED  BY <1>6, <2>4, <3>4, <4>1 DEF RowsApart
    <3>. QED  BY <1>3, <2>5, <3>1, <3>2, <3>3, <3>4 DEF RowsApart, Plain
  <2>7. SentOnce(Idle)'
    <3>1. \A n \in 1..(Len(events) - 1) : IsMem(rows'[n]) => IsMem(rows[n])
      <4>1. \A n \in 1..(Len(events) - 1) : n \in Ids
          BY StepTypes DEF Ids
      <4>. QED  BY <2>2, <2>4, <4>1
    <3>2. /\ \A n : ~Carries(p, n, "sync", {"search", "relink"})
          /\ \A n : ~Carries(p, n, "approve", {"search", "store", "finish"})
        BY <1>4 DEF Carries
    <3>. QED  BY <1>3, <1>6, <3>1, <3>2, SentStays
  <2>8. Keeps(Idle)
      BY <2>6, <2>7 DEF Keeps, Idle
  <2>. QED  BY <1>3, <2>8 DEF Orders
<1>. QED  BY <1>7, <1>8

\* The suggestion takes the event that Google has of it before the request ends.
LEMMA FinishApproveOrder ==
    ASSUME BaseInv, BaseInv', ~torn', NEW r \in Requests, InOrder(r), FinishApprove(r)
    PROVE  Orders(r)
<1>1. PICK p : p = request[r] /\ Shape(p, events)
    BY InHandFields
<1>2. /\ p.op = "approve" /\ p.pc = "finish" /\ p.of \in Suggestions
      /\ request' = [request EXCEPT ![r] = Idle] /\ UNCHANGED <<database, google, rows, events>>
    BY <1>1, Approved DEF Step, stores, local
<1>3. PICK w : /\ suggestions' = [suggestions EXCEPT ![p.of] = w]
               /\ w.event = IF Stored(p.pid) /\ p.pid # p.loaded.event
                            THEN p.pid ELSE suggestions[p.of].event
    BY <1>1, Approved
<1>4. /\ p.loaded.event = suggestions[p.of].event
      /\ Stored(p.pid) => ~IsGoogle(suggestions[p.of].event)
    BY <1>1, <1>2 DEF InOrder, Relies
<1>5. w.event = IF Stored(p.pid) THEN p.pid ELSE suggestions[p.of].event
    BY <1>3, <1>4
<1>6. suggestions'[p.of] = w /\ \A s \in Suggestions \ {p.of} : suggestions'[s] = suggestions[s]
    BY <1>2, <1>3 DEF BaseInv, TypeOK
<1>7. \A s \in Suggestions : IsGoogle(suggestions[s].event) => IsGoogle(suggestions'[s].event)
    BY <1>4, <1>5, <1>6
<1>8. ASSUME NEW n \in google, Carries(p, n, "approve", {"search", "store", "finish"})
      PROVE  IsGoogle(suggestions'[events[n].of].event)
  <2>1. p.id = n /\ IsGoogle(p.pid) /\ Stored(p.pid)
      BY <1>8, Pids DEF Carries
  <2>2. events[n].of = p.of
      BY <1>1, <2>1 DEF Shape
  <2>. QED  BY <1>5, <1>6, <2>1, <2>2
<1>9. \A n : ~Carries(p, n, "sync", {"search", "relink"})
    BY <1>2 DEF Carries
<1>10. RowsApart'
    BY <1>2, SameStay, RowsStayApart DEF InOrder
<1>11. SentOnce(Idle)'
    BY <1>1, <1>2, <1>7, <1>8, <1>9, SameStay, SentStays DEF InOrder
<1>12. Keeps(Idle)
    BY <1>10, <1>11 DEF Keeps, Idle
<1>. QED  BY <1>2, <1>12 DEF Orders

\* The row takes Google's id before the next call reads it.
LEMMA RelinkOrder ==
    ASSUME BaseInv, BaseInv', ~torn', NEW r \in Requests, InOrder(r), Relink(r)
    PROVE  Orders(r)
<1>1. PICK p : p = request[r] /\ p \in RequestRecords /\ Shape(p, events)
    BY InHandFields
<1>2. PICK q : q = [p EXCEPT !.pc = "next"]
    OBVIOUS
<1>3. /\ p.op = "sync" /\ p.pc = "relink" /\ p.of \in 1..Len(events)
      /\ request' = [request EXCEPT ![r] = q] /\ UNCHANGED <<database, google, events, suggestions>>
      /\ rows' = Relinked(p)
    BY <1>1, <1>2, Renamed DEF Step
<1>4. q.pc = "next" /\ q.op = "sync" /\ q.todo = p.todo
    BY <1>1, <1>2, <1>3 DEF RequestRecords
<1>5. SentOnce(p) /\ RowsApart /\ Relies(p)
    BY <1>1, <1>3 DEF InOrder
<1>6. /\ p.of \notin p.todo /\ IsMem(rows[p.of]) /\ p.todo \subseteq Ids
      /\ \A n \in p.todo : IsMem(rows[n])
    BY <1>1, <1>3, <1>5, RequestFields DEF Relies
<1>7. p.of \in Ids /\ rows \in [Ids -> ProviderIds \cup {NoId}]
    BY <1>3, StepTypes DEF BaseInv, TypeOK
<1>8. ASSUME NEW n \in Ids
      PROVE  rows'[n] = IF n = p.of /\ IsGoogle(p.pid) THEN p.pid ELSE rows[n]
    BY <1>3, <1>6, <1>7, RowsInRange DEF Relinked
<1>9. IsGoogle(p.pid) => /\ p.pid = GoogleId(p.id) /\ p.id \in 1..Len(events)
                         /\ events[p.id].by = "sync" /\ events[p.id].of = p.of
                         /\ ~IsMem(p.pid) /\ Stored(p.pid)
    BY <1>1, <1>3, Pids DEF Shape
<1>10. \A n \in Ids : /\ IsMem(rows'[n]) => IsMem(rows[n])
                      /\ Stored(rows'[n]) => Stored(rows[n])
    BY <1>6, <1>8, <1>9, RowsInRange
<1>11. RowsApart'
  <2>1. ASSUME NEW m \in Ids, NEW n \in Ids, IsMem(rows'[m]), IsMem(rows'[n]),
               RowKey(m) = RowKey(n)
        PROVE  m = n
      BY <1>5, <1>10, <2>1 DEF RowsApart
  <2>2. ASSUME NEW n \in Ids, NEW m \in Ids, rows'[n] = GoogleId(m)
        PROVE  m <= Len(events) /\ (m = n \/ (events[m].by = "sync" /\ events[m].of = n))
    <3>1. CASE n = p.of /\ IsGoogle(p.pid)
      <4>1. m = p.id
          BY <1>8, <1>9, <2>2, <3>1, Pids
      <4>. QED  BY <1>9, <3>1, <4>1, StepTypes
    <3>2. CASE ~(n = p.of /\ IsGoogle(p.pid))
        BY <1>5, <1>8, <2>2, <3>2 DEF RowsApart
    <3>. QED  BY <3>1, <3>2
  <2>3. ASSUME NEW n \in 1..Len(events), events[n].by = "sync" PROVE rows'[n] = NoId
    <3>1. n \in Ids /\ rows[n] = NoId
        BY <1>5, <2>3, StepTypes DEF RowsApart
    <3>2. n # p.of
        BY <1>6, <3>1, Pids
    <3>. QED  BY <1>8, <3>1, <3>2
  <2>4. ASSUME NEW m \in Ids, NEW n \in Ids, Stored(rows'[m]), Stored(rows'[n]),
               events[m].key = events[n].key, Plain(events[m].key),
               events[m].by = "create", events[n].by = "create"
        PROVE  m = n
      BY <1>5, <1>10, <2>4 DEF RowsApart
  <2>5. \A n : RowKey(n)' = RowKey(n)
      BY <1>3 DEF RowKey, Kept
  <2>. QED  BY <1>3, <2>1, <2>2, <2>3, <2>4, <2>5 DEF RowsApart, Plain
<1>12. SentOnce(q)'
  <2>1. \A n \in 1..(Len(events) - 1) : IsMem(rows'[n]) => IsMem(rows[n])
    <3>1. \A n \in 1..(Len(events) - 1) : n \in Ids
        BY StepTypes DEF Ids
    <3>. QED  BY <1>10, <3>1
  <2>2. ASSUME NEW n \in google, Carries(p, n, "sync", {"search", "relink"})
        PROVE  ~IsMem(rows'[events[n].of])
    <3>1. p.id = n /\ IsGoogle(p.pid)
        BY <2>2, Pids DEF Carries
    <3>2. events[n].of = p.of /\ rows'[p.of] = p.pid
        BY <1>7, <1>8, <1>9, <3>1
    <3>. QED  BY <1>9, <3>1, <3>2
  <2>3. \A n : ~Carries(p, n, "approve", {"search", "store", "finish"})
      BY <1>3 DEF Carries
  <2>. QED  BY <1>3, <1>5, <2>1, <2>2, <2>3, SameStay, SentStays
<1>13. Relies(q)'
  <2>1. q.pc \notin Making
      BY <1>4 DEF Making, Untold
  <2>2. \A n \in q.todo : IsMem(rows'[n])
      BY <1>4, <1>6, <1>8
  <2>. QED  BY <1>4, <2>1, <2>2 DEF Relies
<1>. QED  BY <1>3, <1>11, <1>12, <1>13 DEF Orders, Keeps

\* A deletion leaves fewer events and rows.
LEMMA DeleteAtGoogleOrder ==
    ASSUME BaseInv, BaseInv', NEW r \in Requests, InOrder(r), DeleteAtGoogle(r)
    PROVE  Orders(r)
<1>1. PICK p : p = request[r] /\ p \in RequestRecords /\ Shape(p, events)
    BY InHandFields
<1>2. PICK g : g = (connected /\ IsGoogle(p.target) /\ p.target[2] \in google)
    OBVIOUS
<1>3. PICK v, q : v = [p EXCEPT !.pc = "dellocal"] /\ q = [p EXCEPT !.pc = "dellocal", !.gone = g]
    OBVIOUS
<1>4. /\ p.pc = "delgoogle" /\ google' \subseteq google 
      /\ UNCHANGED <<database, rows, events, suggestions>>
      /\ \/ request' = [request EXCEPT ![r] = q]
         \/ request' = [request EXCEPT ![r] = v]
    BY <1>1, <1>2, <1>3 DEF DeleteAtGoogle, Step
<1>5. p.op = "delete"
    BY <1>1, <1>4 DEF Shape, OpAt, Making, Untold
<1>6. v.op = "delete" /\ v.pc = "dellocal" /\ q.op = "delete" /\ q.pc = "dellocal"
    BY <1>1, <1>3, <1>5 DEF RequestRecords
<1>7. ASSUME NEW u, u.op = "delete", u.pc = "dellocal" PROVE Keeps(u)
  <2>1. RowsApart' /\ SentOnce(u)'
      BY <1>1, <1>4, SameStay, SteadyKept DEF InOrder
  <2>2. Relies(u)'
      BY <1>7 DEF Relies, Making, Untold
  <2>. QED  BY <2>1, <2>2 DEF Keeps
<1>. QED  BY <1>4, <1>6, <1>7 DEF Orders

LEMMA DeleteLocalOrder ==
    ASSUME BaseInv, BaseInv', NEW r \in Requests, InOrder(r), DeleteLocal(r)
    PROVE  Orders(r)
<1>1. PICK p : p = request[r]
    OBVIOUS
<1>2. /\ p.pc = "dellocal" /\ request' = [request EXCEPT ![r] = Idle]
      /\ UNCHANGED <<database, google, events, suggestions>>
      /\ \A n \in Ids : rows'[n] \in {rows[n], NoId}
    BY <1>1, Deleted DEF Step
<1>3. RowsApart'
    BY <1>2, SameStay, RowsStayApart DEF InOrder
<1>4. \A n \in 1..(Len(events) - 1) : IsMem(rows'[n]) => IsMem(rows[n])
  <2>1. \A n \in 1..(Len(events) - 1) : n \in Ids
      BY StepTypes DEF Ids
  <2>. QED  BY <1>2, <2>1, Pids
<1>5. SentOnce(Idle)'
  <2>1. \A n, op : ~Carries(p, n, op, {"search", "relink"}) /\ ~Carries(p, n, op, {"search", "store", "finish"})
      BY <1>2 DEF Carries
  <2>. QED  BY <1>1, <1>2, <1>4, <2>1, SameStay, SentStays DEF InOrder
<1>6. Keeps(Idle)
    BY <1>3, <1>5 DEF Keeps, Idle
<1>. QED  BY <1>2, <1>6 DEF Orders

\* A request is taken up when nothing else is in hand.
LEMMA BeginOrder ==
    ASSUME BaseInv, BaseInv', OrderlyInv, Orderly', NEW r \in Requests, NEW q, Begin(r, q),
           EventsStay, Relies(q)'
    PROVE  OrderlyInv'
<1>1. /\ request[r].pc = "idle" /\ request' = [request EXCEPT ![r] = q]
      /\ overlapped' = (overlapped \/ Busy) /\ UNCHANGED <<database, google, rows, suggestions, torn>>
    BY DEF Begin, stores, local, faults
<1>2. ~overlapped /\ ~Busy /\ ~torn
    BY <1>1 DEF Orderly, Undisturbed
<1>3. InOrder(r) /\ OthersIdle(r)
    BY <1>2, FoundBefore, OrderHand DEF Orderly, Undisturbed
<1>4. RowsApart' /\ SentOnce(q)'
    BY <1>1, <1>3, SteadyKept DEF InOrder
<1>. QED  BY <1>1, <1>3, <1>4, OrderFrame DEF Keeps

LEMMA BeginCreateOrder ==
    ASSUME BaseInv, BaseInv', OrderlyInv, Orderly', NEW r \in Requests, NEW key, BeginCreate(r, key)
    PROVE  OrderlyInv'
<1>1. PICK q : q = [Idle EXCEPT !.op = "create", !.pc = "list", !.key = key]
    OBVIOUS
<1>2. q.op = "create" /\ q.pc = "list"
    BY <1>1 DEF Idle
<1>3. Begin(r, q) /\ UNCHANGED <<database, events>>
    BY <1>1 DEF BeginCreate, Begin
<1>4. Relies(q)'
    BY <1>2 DEF Relies, Making, Untold
<1>. QED  BY <1>3, <1>4, SameStay, BeginOrder

LEMMA BeginSyncOrder ==
    ASSUME BaseInv, BaseInv', OrderlyInv, Orderly', NEW r \in Requests, BeginSync(r)
    PROVE  OrderlyInv'
<1>1. PICK td, q : /\ td = {n \in Ids : IsMem(rows[n])}
                   /\ q = [Idle EXCEPT !.op = "sync", !.pc = "next", !.todo = td]
    OBVIOUS
<1>2. q.op = "sync" /\ q.pc = "next" /\ q.todo = td
    BY <1>1 DEF Idle
<1>3. Begin(r, q) /\ UNCHANGED <<database, events>> /\ rows' = rows
    BY <1>1 DEF BeginSync, Begin, stores, local
<1>4. Relies(q)'
    BY <1>1, <1>2, <1>3 DEF Relies, Making, Untold
<1>. QED  BY <1>3, <1>4, SameStay, BeginOrder

LEMMA BeginApproveOrder ==
    ASSUME BaseInv, BaseInv', OrderlyInv, Orderly', NEW r \in Requests, NEW s \in Suggestions,
           NEW o, BeginApprove(r, s, o)
    PROVE  OrderlyInv'
<1>1. PICK q : /\ q \in RequestRecords /\ Begin(r, q) /\ UNCHANGED asked
               /\ q.op = "approve" /\ q.of = s /\ q.key = suggestions[s].key
               /\ q.loaded = suggestions[s] /\ q.target = NoId /\ q.pid = NoId
               /\ q.todo = {} /\ q.gone = FALSE
               /\ \/ q.pc = "finish" /\ q.id = 0 /\ UNCHANGED events
                  \/ /\ q.pc = "tokens" /\ q.id = Len(events) + 1
                     /\ Build(q.key, "approve", s) /\ ~IsGoogle(suggestions[s].event)
    BY Approving
<1>2. UNCHANGED <<database, suggestions>>
    BY <1>1 DEF Begin
<1>3. CASE q.pc = "finish" /\ UNCHANGED events
  <2>1. Relies(q)'
      BY <1>1, <1>2, <1>3, Pids DEF Relies, Making, Untold
  <2>. QED  BY <1>1, <1>2, <1>3, <2>1, SameStay, BeginOrder
<1>4. CASE /\ q.pc = "tokens" /\ q.id = Len(events) + 1
           /\ Build(q.key, "approve", s) /\ ~IsGoogle(suggestions[s].event)
  <2>1. EventsStay /\ Len(events') = Len(events) + 1
      BY <1>2, <1>4, BuildStays
  <2>2. Relies(q)'
      BY <1>1, <1>2, <1>4, <2>1 DEF Relies
  <2>. QED  BY <1>1, <2>1, <2>2, BeginOrder
<1>. QED  BY <1>1, <1>3, <1>4

LEMMA BeginDeleteOrder ==
    ASSUME BaseInv, BaseInv', OrderlyInv, Orderly', NEW r \in Requests, NEW t \in Targets,
           BeginDelete(r, t)
    PROVE  OrderlyInv'
<1>1. PICK q : /\ q \in RequestRecords /\ Begin(r, q)
               /\ q.op = "delete" /\ q.pc = "delgoogle" /\ q.key = NoKey /\ q.of = 0
               /\ q.target = t /\ q.id = 0 /\ q.pid = NoId /\ q.todo = {} /\ q.gone = FALSE
    BY Deleting
<1>2. UNCHANGED <<database, events>>
    BY Deleting DEF Begin
<1>3. Relies(q)'
    BY <1>1 DEF Relies, Making, Untold
<1>. QED  BY <1>1, <1>2, <1>3, SameStay, BeginOrder

\* While nothing is in hand it is the rows and Google's events that count.
LEMMA NobodyOrder ==
    ASSUME RowsApart', SentOnce(Idle)', \A r \in Requests : request'[r].pc = "idle"
    PROVE  OrderlyInv'
BY DEF OrderlyInv, OneAtATime, Busy

\* A step outside the requests, while none is in hand.
LEMMA OutsideOrder ==
    ASSUME BaseInv, BaseInv', OrderlyInv, Orderly, ~Busy, EventsStay, google' \subseteq google,
           UNCHANGED rows, \A r \in Requests : request'[r].pc = "idle",
           \A s \in Suggestions : IsGoogle(suggestions[s].event) => IsGoogle(suggestions'[s].event)
    PROVE  OrderlyInv'
<1>1. RowsApart /\ SentOnce(Idle)
    BY DEF OrderlyInv
<1>2. RowsApart'
    BY <1>1, RowsStayApart
<1>3. \A n, op : ~Carries(Idle, n, op, {"search", "relink"})
                 /\ ~Carries(Idle, n, op, {"search", "store", "finish"})
    BY DEF Carries, Idle
<1>4. SentOnce(Idle)'
    BY <1>1, <1>3, SentStays
<1>. QED  BY <1>2, <1>4, NobodyOrder

LEMMA RejectOrder ==
    ASSUME BaseInv, BaseInv', OrderlyInv, Orderly', NEW s \in Suggestions, RejectSuggestion(s)
    PROVE  OrderlyInv'
<1>1. /\ UNCHANGED <<database, google, rows, events, request, torn>> /\ overlapped' = (overlapped \/ Busy)
      /\ suggestions' = [suggestions EXCEPT ![s].status = "rejected"]
    BY DEF RejectSuggestion, stores, local, faults
<1>2. Orderly /\ ~Busy
    BY <1>1, SameStay, FoundBefore DEF Orderly, Undisturbed
<1>3. \A t \in Suggestions : suggestions'[t].event = suggestions[t].event
    BY <1>1 DEF BaseInv, TypeOK, SuggestionRecords
<1>4. \A r \in Requests : request'[r].pc = "idle"
    BY <1>1, <1>2 DEF Busy
<1>. QED  BY <1>1, <1>2, <1>3, <1>4, SameStay, OutsideOrder

LEMMA ConnectionOrder ==
    ASSUME BaseInv, BaseInv', OrderlyInv, Orderly', Connect \/ Disconnect
    PROVE  OrderlyInv'
<1>1. /\ UNCHANGED <<database, google, rows, events, suggestions, request, torn>>
      /\ overlapped' = (overlapped \/ Busy)
    BY DEF Connect, Disconnect, stores, local, faults
<1>2. Orderly /\ ~Busy
    BY <1>1, SameStay, FoundBefore DEF Orderly, Undisturbed
<1>3. \A r \in Requests : request'[r].pc = "idle"
    BY <1>1, <1>2 DEF Busy
<1>. QED  BY <1>1, <1>2, <1>3, SameStay, OutsideOrder

LEMMA RestartOrder ==
    ASSUME BaseInv, BaseInv', OrderlyInv, Orderly', Restart PROVE OrderlyInv'
<1>1. /\ UNCHANGED <<database, google, rows, events, suggestions, overlapped>>
      /\ request' = [r \in Requests |-> Idle]
    BY DEF Restart
<1>2. ~Busy /\ torn' = torn
    BY DEF Restart, Commit, Tear, Orderly, Undisturbed
<1>3. Orderly
    BY <1>1, <1>2, SameStay, FoundBefore DEF Orderly, Undisturbed
<1>4. \A r \in Requests : request'[r].pc = "idle"
    BY <1>1 DEF Idle
<1>. QED  BY <1>1, <1>2, <1>3, <1>4, SameStay, OutsideOrder

\* An event of the user's own is of no row and no suggestion.
LEMMA AddAtGoogleOrder ==
    ASSUME BaseInv, BaseInv', OrderlyInv, Orderly', NEW key \in Keys, AddAtGoogle(key)
    PROVE  OrderlyInv'
<1>1. /\ UNCHANGED <<database, rows, suggestions, request, torn>> /\ overlapped' = (overlapped \/ Busy)
      /\ google' = google \cup {Len(events) + 1} /\ Build(key, "google", 0)
    BY DEF AddAtGoogle, faults, local
<1>2. ~overlapped /\ ~torn /\ ~Busy
    BY <1>1 DEF Orderly, Undisturbed
<1>4. EventsStay /\ events'[Len(events) + 1].by = "google"
  <2>1. EventsStay /\ events'[Len(events) + 1] = [key |-> key, by |-> "google", of |-> 0]
      BY <1>1, BuildStays
  <2>. QED  BY <2>1
<1>3. RowsApart /\ SentOnce(Idle)
    BY <1>2, <1>4, FoundBefore DEF OrderlyInv, Orderly, Undisturbed
<1>5. RowsApart'
    BY <1>1, <1>3, <1>4, RowsStayApart
<1>6. \A n \in google' : events'[n].by \in {"sync", "approve"} =>
          n \in google /\ n \in 1..Len(events) /\ events'[n] = events[n]
    BY <1>1, <1>4, StepTypes DEF EventsStay
<1>7. ASSUME NEW n \in google' 
      PROVE  /\ events'[n].by = "sync" => 
                   ~IsMem(rows'[events'[n].of]) \/ Carries(Idle, n, "sync", {"search", "relink"})
             /\ events'[n].by = "approve" =>
                  \/ IsGoogle(suggestions'[events'[n].of].event)
                  \/ Carries(Idle, n, "approve", {"search", "store", "finish"})
    BY <1>1, <1>3, <1>6 DEF SentOnce
<1>8. ASSUME NEW m \in google', NEW n \in google', events'[m].by = events'[n].by,
             events'[m].by \in {"sync", "approve"}, events'[m].of = events'[n].of
      PROVE  m = n
    BY <1>3, <1>6, <1>8 DEF SentOnce
<1>9. SentOnce(Idle)'
    BY <1>7, <1>8 DEF SentOnce, Carries, Idle
<1>10. \A r \in Requests : request'[r].pc = "idle"
    BY <1>1, <1>2 DEF Busy
<1>. QED  BY <1>5, <1>9, <1>10, NobodyOrder

\* A request builds one event at most and leaves the others what they are.
LEMMA StepsStay ==
    ASSUME BaseInv, BaseInv', NEW r \in Requests, Steps(r) PROVE EventsStay
<1>1. CASE ListLocal(r)
    BY <1>1, Clashed, SameStay, BuildStays DEF Step
<1>2. CASE SyncNext(r)
    BY <1>2, Syncing, BuildStays DEF Step
<1>3. CASE FinishApprove(r)
    BY <1>3, Approved, SameStay DEF Step
<1>4. CASE DeleteLocal(r)
    BY <1>4, Deleted, SameStay DEF Step
<1>5. CASE Relink(r)
    BY <1>5, Renamed, SameStay DEF Step
<1>6. CASE DeleteAtGoogle(r)
    BY <1>6, SameStay DEF DeleteAtGoogle, Step
<1>7. CASE SearchLocal(r)
    BY <1>7, SameStay DEF SearchLocal, Step
<1>8. CASE Store(r) \/ RepoCreate(r)
    BY <1>8, SameStay DEF Store, RepoCreate, Keep, Step
<1>9. CASE InsertAtGoogle(r) \/ InsertRefused(r) \/ InsertLost(r) \/ Refresh(r)
    BY <1>9, SameStay DEF InsertAtGoogle, InsertRefused, InsertLost, Refresh, Step
<1>10. CASE ListGoogle(r) \/ GetTokens(r) \/ SyncDone(r)
    BY <1>10, SameStay DEF ListGoogle, GetTokens, SyncDone, Step
<1>. QED  BY <1>1, <1>2, <1>3, <1>4, <1>5, <1>6, <1>7, <1>8, <1>9, <1>10 DEF Steps

\* A step of a request tears nothing that it does not show, and is of one that
\* is in hand.
LEMMA StepsOrderly ==
    ASSUME BaseInv, BaseInv', NEW r \in Requests, Steps(r), Orderly'
    PROVE  Orderly /\ request[r].pc # "idle" /\ ~InsertLost(r)
<1>1. UNCHANGED overlapped /\ FaultsTyped => Orderly
    BY StepsStay, FoundBefore DEF FaultsTyped, Orderly, Undisturbed
<1>0. ~InsertLost(r)
    BY Faults DEF InsertLost, Orderly, Undisturbed
<1>2. CASE ListGoogle(r)
    BY <1>0, <1>1, <1>2, Faults DEF ListGoogle, Step
<1>3. CASE ListLocal(r)
    BY <1>0, <1>1, <1>3, Faults DEF ListLocal, Step
<1>4. CASE GetTokens(r)
    BY <1>0, <1>1, <1>4, Faults DEF GetTokens, Step
<1>5. CASE InsertAtGoogle(r)
    BY <1>0, <1>1, <1>5, Faults DEF InsertAtGoogle, Step
<1>6. CASE InsertRefused(r)
    BY <1>0, <1>1, <1>6, Faults DEF InsertRefused, Step
<1>8. CASE Refresh(r)
    BY <1>0, <1>1, <1>8, Faults DEF Refresh, Step
<1>9. CASE SearchLocal(r)
    BY <1>0, <1>1, <1>9, Faults DEF SearchLocal, Step
<1>10. CASE Store(r)
    BY <1>0, <1>1, <1>10, Faults DEF Store, Keep, Step
<1>11. CASE RepoCreate(r)
    BY <1>0, <1>1, <1>11, Faults DEF RepoCreate, Keep, Step
<1>12. CASE FinishApprove(r)
    BY <1>0, <1>1, <1>12, Approved DEF Step
<1>13. CASE SyncNext(r)
    BY <1>0, <1>1, <1>13, Faults DEF SyncNext, Step
<1>14. CASE SyncDone(r)
    BY <1>0, <1>1, <1>14, Faults DEF SyncDone, Step
<1>15. CASE Relink(r)
    BY <1>0, <1>1, <1>15, Renamed DEF Step
<1>16. CASE DeleteAtGoogle(r)
    BY <1>0, <1>1, <1>16, Faults DEF DeleteAtGoogle, Step
<1>17. CASE DeleteLocal(r)
    BY <1>0, <1>1, <1>17, Deleted DEF Step
<1>. QED  BY <1>2, <1>3, <1>4, <1>5, <1>0, <1>6, <1>8, <1>9, <1>10, <1>11, <1>12, <1>13,
              <1>14, <1>15, <1>16, <1>17 DEF Steps

\* Every step of the one request keeps the invariant.
LEMMA StepsOrder ==
    ASSUME BaseInv, BaseInv', OrderlyInv, Orderly', NEW r \in Requests, Steps(r)
    PROVE  OrderlyInv'
<1>1. InOrder(r) /\ OthersIdle(r) /\ ~torn' /\ RowsFound /\ ~InsertLost(r)
    BY StepsOrderly, OrderHand DEF Orderly, Undisturbed
<1>2. ASSUME \E q : Quiet(r, q) PROVE Orders(r)
    BY <1>1, <1>2, QuietOrder DEF Orders, Quiet
<1>3. Orders(r)
    BY <1>1, <1>2, QuietListing, QuietTokens, QuietRefusal, QuietRefresh, QuietEnd,
       ListLocalOrder, InsertAtGoogleOrder, SearchLocalOrder, StoreOrder, RepoCreateOrder,
       FinishApproveOrder, SyncNextOrder, RelinkOrder, DeleteAtGoogleOrder, DeleteLocalOrder
       DEF Steps
<1>. QED  BY <1>1, <1>3, OrderFrame DEF Orders

\* While requests come one at a time and nothing is torn, the rows stay apart and
\* Google is sent each event once.
THEOREM OrderlyInvAlways == Spec => []OrderlyInv
<1>1. Init => OrderlyInv
  <2>. SUFFICES ASSUME Init PROVE OrderlyInv
      OBVIOUS
  <2>1. /\ google = {} /\ Len(events) = 0 /\ \A n \in Ids : rows[n] = NoId
        /\ \A r \in Requests : request[r].pc = "idle"
      BY DEF Init, Idle
  <2>2. SentOnce(Idle)
      BY <2>1 DEF SentOnce
  <2>3. RowsApart
      BY <2>1, Pids DEF RowsApart
  <2>. QED  BY <2>1, <2>2, <2>3 DEF OrderlyInv, OneAtATime, Busy
<1>2. OrderlyInv /\ BaseInv /\ BaseInv' /\ [Next]_vars => OrderlyInv'
  <2>. SUFFICES ASSUME OrderlyInv, BaseInv, BaseInv', [Next]_vars, Orderly' PROVE OrderlyInv'
      BY DEF OrderlyInv
  <2>1. ASSUME NEW r \in Requests, Steps(r) PROVE OrderlyInv'
      BY <2>1, StepsOrder
  <2>2. ASSUME NEW r \in Requests, NEW k \in Keys, BeginCreate(r, k) PROVE OrderlyInv'
      BY <2>2, BeginCreateOrder
  <2>3. ASSUME NEW r \in Requests, NEW s \in Suggestions, NEW o, BeginApprove(r, s, o)
        PROVE  OrderlyInv'
      BY <2>3, BeginApproveOrder
  <2>4. ASSUME NEW r \in Requests, BeginSync(r) PROVE OrderlyInv'
      BY <2>4, BeginSyncOrder
  <2>5. ASSUME NEW r \in Requests, NEW t \in Targets, BeginDelete(r, t) PROVE OrderlyInv'
      BY <2>5, BeginDeleteOrder
  <2>6. ASSUME NEW s \in Suggestions, RejectSuggestion(s) PROVE OrderlyInv'
      BY <2>6, RejectOrder
  <2>7. ASSUME NEW k \in Keys, AddAtGoogle(Utc[k]) PROVE OrderlyInv'
      BY <2>7, ZonesAssumption, AddAtGoogleOrder
  <2>8. ASSUME UNCHANGED vars PROVE OrderlyInv'
    <3>1. UNCHANGED <<database, connected, google, rows, memory, times, events, suggestions, request,
                      failures, overlapped, torn, relinked, asked, deleted>>
        BY <2>8, StutterParts
    <3>2. /\ RowsApart' <=> RowsApart
          /\ OneAtATime' <=> OneAtATime
          /\ Busy' <=> Busy
          /\ Orderly' <=> Orderly
        BY <3>1 DEF RowsApart, OneAtATime, Busy, Orderly, Undisturbed, RowsFound, RowKey, Kept, Plain
    <3>3. SentOnce(Idle)' <=> SentOnce(Idle)
        BY <3>1 DEF SentOnce, Carries, Idle
    <3>4. ASSUME NEW r \in Requests
          PROVE  /\ SentOnce(request[r])' <=> SentOnce(request[r])
                 /\ Relies(request[r])' <=> Relies(request[r])
        BY <3>1 DEF SentOnce, Carries, Relies, RowKey, Kept, Plain
    <3>5. request' = request
        BY <3>1
    <3>. QED  BY <3>2, <3>3, <3>4, <3>5 DEF OrderlyInv
  <2>. QED  BY <2>1, <2>2, <2>3, <2>4, <2>5, <2>6, <2>7, <2>8, ConnectionOrder, RestartOrder
            DEF Next, Targets
<1>. QED  BY <1>1, <1>2, BaseInvAlways, PTL DEF Spec

----------------------------------------------------------------------------
(* What the runs check of orderly behaviours *)

\* At most one of what is always the same.
LEMMA AtMostOne ==
    ASSUME NEW S, \A m, n \in S : m = n PROVE Cardinality(S) <= 1
<1>1. CASE S = {}
    BY <1>1, FS_EmptySet
<1>2. CASE S # {}
  <2>1. PICK n : n \in S
      BY <1>2
  <2>2. S = {n}
      BY <2>1
  <2>3. Cardinality(S) = 1
      BY <2>2, FS_Singleton
  <2>. QED  BY <2>3
<1>. QED  BY <1>1, <1>2

\* Whatever is in hand, Google has one event of each synced row and suggestion.
LEMMA GoogleOnce ==
    ASSUME OrderlyInv, Orderly, NEW m \in google, NEW n \in google,
           events[m].by = events[n].by, events[m].by \in {"sync", "approve"},
           events[m].of = events[n].of
    PROVE  m = n
<1>1. \E q : SentOnce(q)
    BY DEF OrderlyInv, Busy
<1>. QED  BY <1>1 DEF SentOnce

\* Approving a suggestion again makes no second event of it at Google and none
\* that is only local.
THEOREM OneEventOfSuggestion == Spec => []OneEventPerSuggestion
<1>1. BaseInv /\ OrderlyInv => OneEventPerSuggestion
  <2>. DEFINE Of(s) == {n \in 1..Len(events) : events[n].by = "approve" /\ events[n].of = s}
  <2>. SUFFICES ASSUME BaseInv, OrderlyInv, Orderly, NEW s \in Suggestions
                PROVE  /\ Cardinality({n \in Of(s) : n \in google}) <= 1
                       /\ Cardinality({n \in Of(s) : IsMem(rows[n])}) <= 1
      BY DEF OneEventPerSuggestion
  <2>1. \A m, n \in {k \in Of(s) : k \in google} : m = n
      BY GoogleOnce
  <2>2. ASSUME NEW m \in {k \in Of(s) : IsMem(rows[k])}, NEW n \in {k \in Of(s) : IsMem(rows[k])}
        PROVE  m = n
    <3>1. /\ m \in Ids /\ n \in Ids
          /\ RowKey(m) = Kept(suggestions[s].key) /\ RowKey(n) = Kept(suggestions[s].key)
        BY StepTypes DEF BaseInv, EventsInv
    <3>. QED  BY <3>1 DEF OrderlyInv, RowsApart
  <2>. QED  BY <2>1, <2>2, AtMostOne
<1>. QED  BY <1>1, BaseInvAlways, OrderlyInvAlways, PTL

\* Of the rows of one time at most one was created by hand of a time given in
\* UTC or without a zone.
THEOREM CreatedOnce == Spec => []CreatedOncePerTime
<1>1. BaseInv /\ OrderlyInv => CreatedOncePerTime
  <2>. SUFFICES ASSUME BaseInv, OrderlyInv, Orderly, NEW k \in Keys
                PROVE  Cardinality({n \in CreatedAt(k) : Plain(events[n].key)}) <= 1
      BY DEF CreatedOncePerTime
  <2>1. RowsApart /\ 1..Len(events) \subseteq Ids
      BY StepTypes DEF OrderlyInv
  <2>2. ASSUME NEW m \in {n \in CreatedAt(k) : Plain(events[n].key)},
               NEW n \in {l \in CreatedAt(k) : Plain(events[l].key)}
        PROVE  m = n
    <3>1. events[m].key = k /\ events[n].key = k
        BY DEF CreatedAt, Plain
    <3>. QED  BY <2>1, <3>1 DEF RowsApart, CreatedAt
  <2>. QED  BY <2>2, AtMostOne
<1>. QED  BY <1>1, BaseInvAlways, OrderlyInvAlways, PTL

\* sync-local-to-google sends a row to Google once.
THEOREM SentToGoogleOnce == Spec => []SyncedOnce
<1>1. OrderlyInv => SyncedOnce
    BY GoogleOnce DEF SyncedOnce
<1>. QED  BY <1>1, OrderlyInvAlways, PTL

\* No two rows carry one provider id.
THEOREM RowsDiffer == Spec => []RowsNameDifferentEvents
<1>1. BaseInv /\ OrderlyInv => RowsNameDifferentEvents
  <2>. SUFFICES ASSUME BaseInv, OrderlyInv, Orderly, NEW m \in Ids, NEW n \in Ids,
                       Stored(rows[m]), rows[m] = rows[n]
                PROVE  m = n
      BY DEF RowsNameDifferentEvents
  <2>1. RowsApart
      BY DEF OrderlyInv
  <2>2. PICK k \in Ids : rows[m] \in {MemId(k), GoogleId(k)}
      BY Pids, PidKinds, RowsInRange
  <2>3. CASE rows[m] = MemId(k)
    <3>1. IsMem(rows[m]) /\ IsMem(rows[n])
        BY <2>3, Pids
    <3>2. rows[m] = MemId(m) /\ rows[n] = MemId(n)
        BY <3>1, RowsInRange
    <3>. QED  BY <3>2, Pids
  <2>4. CASE rows[m] = GoogleId(k)
    <3>1. /\ k <= Len(events)
          /\ m = k \/ (events[k].by = "sync" /\ events[k].of = m)
          /\ n = k \/ (events[k].by = "sync" /\ events[k].of = n)
        BY <2>1, <2>4 DEF RowsApart
    <3>2. k \in 1..Len(events)
        BY <3>1, StepTypes DEF Ids
    <3>3. events[k].by = "sync" => rows[k] = NoId
        BY <2>1, <3>2 DEF RowsApart
    <3>. QED  BY <2>4, <3>1, <3>3, Pids
  <2>. QED  BY <2>2, <2>3, <2>4
<1>. QED  BY <1>1, BaseInvAlways, OrderlyInvAlways, PTL
===============================================================================
