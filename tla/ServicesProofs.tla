---------------------------- MODULE ServicesProofs ----------------------------
(***************************************************************************)
(* For every number of users, meetings, visitors, tasks and messages: what *)
(* links and pages offer is free, what an onboarding leaves behind, and    *)
(* that a WhatsApp message makes one event; and that the four services     *)
(* together keep what each of them keeps alone.                            *)
(***************************************************************************)
EXTENDS MCServices, UserAccountsProofs, SequenceTheorems, FiniteSetTheorems,
        WellFoundedInduction, TLAPS

-----------------------------------------------------------------------------
(* Numbers *)

\* A set that holds zero and the successor of each of its numbers holds them all.
LEMMA AllNumbers ==
    ASSUME NEW S, 0 \in S, \A n \in Nat : n \in S => n + 1 \in S
    PROVE  Nat \subseteq S
<1> DEFINE R == OpToRel(<, Nat)
           Missing == Nat \ S
<1>1. IsWellFoundedOn(R, Nat)
  BY NatLessThanWellFounded
<1>2. \A x, y \in Nat : y < x => <<y, x>> \in R
  BY DEF OpToRel
<1> SUFFICES ASSUME Missing # {} PROVE FALSE
  OBVIOUS
<1> HIDE DEF R
<1>3. PICK x \in Missing : \A y \in Missing : ~ (<<y, x>> \in R)
  BY <1>1, WFMin
<1>4. x \in Nat /\ x # 0 /\ x - 1 \in Nat /\ x - 1 < x
  BY <1>3
<1>5. x - 1 \in S
  BY <1>2, <1>3, <1>4
<1>6. (x - 1) + 1 \in S
  BY <1>4, <1>5
<1> QED
  BY <1>3, <1>4, <1>6

\* A finite set of numbers that is not empty has a largest one.
LEMMA LargestOfFinite ==
    ASSUME NEW S \in SUBSET Nat, IsFiniteSet(S), S # {}
    PROVE  \E x \in S : \A y \in S : y <= x
<1> DEFINE HasLargest(T) == T # {} => \E x \in T : \A y \in T : y <= x
           Sizes == {n \in Nat : \A T \in SUBSET Nat :
                       IsFiniteSet(T) /\ Cardinality(T) = n => HasLargest(T)}
<1>1. 0 \in Sizes
  BY FS_EmptySet
<1>2. ASSUME NEW n \in Nat, n \in Sizes PROVE n + 1 \in Sizes
  <2> SUFFICES ASSUME NEW T \in SUBSET Nat, IsFiniteSet(T), Cardinality(T) = n + 1, T # {}
               PROVE  \E z \in T : \A y \in T : y <= z
    BY <1>2
  <2>0. PICK x \in T : TRUE
    OBVIOUS
  <2>1. IsFiniteSet(T \ {x}) /\ Cardinality(T \ {x}) = n
    <3>1. IsFiniteSet(T \ {x}) /\ Cardinality(T \ {x}) = Cardinality(T) - 1
      BY FS_RemoveElement
    <3>2. (n + 1) - 1 = n
      OBVIOUS
    <3> QED
      BY <3>1, <3>2
  <2>2. HasLargest(T \ {x})
    BY <1>2, <2>1
  <2>3. CASE T \ {x} = {}
    BY <2>3
  <2>4. CASE T \ {x} # {}
    <3>1. PICK z \in T \ {x} : \A y \in T \ {x} : y <= z
      BY <2>2, <2>4
    <3>2. \A y \in T : y <= IF x <= z THEN z ELSE x
      BY <3>1
    <3> QED
      BY <3>1, <3>2
  <2> QED
    BY <2>3, <2>4
<1>3. Nat \subseteq Sizes
  <2> HIDE DEF Sizes
  <2> QED
    BY <1>1, <1>2, AllNumbers
<1>4. Cardinality(S) \in Nat
  BY FS_CardinalityType
<1> QED
  BY <1>3, <1>4

-----------------------------------------------------------------------------
(* Gaps: find_free_slots *)

Windows == Nat \X Nat

\* The times and sizes of the model are numbers.
LEMMA TimesAreNumbers ==
    /\ Now \in Nat /\ Days \in Nat /\ LinkDuration \in Nat /\ LinkDuration > 0
    /\ MaxSlots \in Nat /\ PageSize \in Nat
    /\ PageEnd \in Nat /\ FirstHour \in Nat /\ LinkEnd \in Nat
BY LinkAssumption DEF PageEnd, FirstHour, LinkEnd

\* Events of the calendar as the loops take them.
Calendar(S) == S \in SUBSET Nat /\ IsFiniteSet(S) /\ \A i \in S : Span(i) \in Windows

\* None of them ends before it begins.
Forward(S) == \A i \in S : agenda[i].from <= agenda[i].to

\* Those that come before i.
Sooner(i, S) == {j \in S : Earlier(j, i)}

\* The gap after the last event.
GapAfter(S) == <<Cursor(S), PageEnd>>

\* The events before one of a calendar are a calendar.
LEMMA SoonerIsCalendar ==
    ASSUME NEW S, Calendar(S), NEW i
    PROVE  Calendar(Sooner(i, S))
<1>1. Sooner(i, S) \subseteq S
  BY DEF Sooner
<1>2. IsFiniteSet(Sooner(i, S))
  BY <1>1, FS_Subset DEF Calendar
<1> QED
  BY <1>1, <1>2 DEF Calendar

\* Two events come one after the other.
LEMMA OneIsEarlier ==
    ASSUME NEW S, Calendar(S)
    PROVE  /\ \A i \in S : agenda[i].from \in Nat /\ agenda[i].to \in Nat
           /\ \A i, k \in S : i # k => Earlier(i, k) \/ Earlier(k, i)
           /\ \A i, k \in S : ~Earlier(i, k) => agenda[k].from <= agenda[i].from
<1>1. \A i \in S : i \in Nat /\ agenda[i].from \in Nat /\ agenda[i].to \in Nat
  BY DEF Calendar, Windows, Span
<1> QED
  BY <1>1 DEF Earlier

\* The cursor is past all events it has seen, and never before now.
LEMMA CursorIsPast ==
    ASSUME NEW S, Calendar(S)
    PROVE  Cursor(S) \in Nat /\ Now <= Cursor(S) /\ \A i \in S : agenda[i].to <= Cursor(S)
<1> DEFINE Ends == {Now} \cup {b[2] : b \in Spans(S)}
<1>1. IsFiniteSet({b[2] : b \in Spans(S)})
  <2> DEFINE f == [i \in S |-> Span(i)[2]]
  <2>1. f \in Surjection(S, {b[2] : b \in Spans(S)})
    BY DEF Surjection, Spans
  <2> QED
    BY <2>1, FS_Surjection DEF Calendar
<1>2. IsFiniteSet(Ends)
  BY <1>1, FS_AddElement
<1>3. Ends \in SUBSET Nat /\ Ends # {}
  BY TimesAreNumbers DEF Calendar, Spans, Windows
<1>4. PICK t \in Ends : \A y \in Ends : y <= t
  BY <1>2, <1>3, LargestOfFinite
<1>5. Now <= t /\ \A b \in Spans(S) : b[2] <= t
  BY <1>4
<1>6. Cursor(S) \in Ends /\ Now <= Cursor(S) /\ \A b \in Spans(S) : b[2] <= Cursor(S)
  BY <1>5 DEF Cursor
<1>7. ASSUME NEW i \in S PROVE agenda[i].to <= Cursor(S)
  <2>1. Span(i) \in Spans(S)
    BY DEF Spans
  <2>2. Span(i)[2] <= Cursor(S)
    BY <1>6, <2>1
  <2> QED
    BY <2>2 DEF Span
<1> QED
  BY <1>3, <1>6, <1>7

\* A gap lies before an event and after those that come before it, or after all.
LEMMA GapsAre ==
    ASSUME NEW S, NEW w \in Gaps(S)
    PROVE  /\ w[1] + PageDuration <= w[2]
           /\ (\E i \in S : w = GapBefore(i, S)) \/ w = GapAfter(S)
<1>1. LongGap(w) /\ w \in {GapBefore(i, S) : i \in S} \cup {GapAfter(S)}
  BY DEF Gaps, GapAfter
<1> QED
  BY <1>1 DEF LongGap

\* What the gaps are made of: windows that begin after now and after the events
\* before them.
LEMMA GapsFollow ==
    ASSUME NEW S, Calendar(S)
    PROVE  /\ \A i \in S :
                /\ GapBefore(i, S) \in Windows
                /\ Now <= GapBefore(i, S)[1] /\ GapBefore(i, S)[2] = agenda[i].from
                /\ \A k \in S : Earlier(k, i) => agenda[k].to <= GapBefore(i, S)[1]
           /\ GapAfter(S) \in Windows /\ Now <= GapAfter(S)[1]
           /\ \A k \in S : agenda[k].to <= GapAfter(S)[1]
<1>1. ASSUME NEW i \in S
      PROVE  /\ GapBefore(i, S) \in Windows
             /\ Now <= GapBefore(i, S)[1] /\ GapBefore(i, S)[2] = agenda[i].from
             /\ \A k \in S : Earlier(k, i) => agenda[k].to <= GapBefore(i, S)[1]
  <2>1. /\ Cursor(Sooner(i, S)) \in Nat /\ Now <= Cursor(Sooner(i, S))
        /\ \A k \in Sooner(i, S) : agenda[k].to <= Cursor(Sooner(i, S))
    BY SoonerIsCalendar, CursorIsPast
  <2>2. GapBefore(i, S) = <<Cursor(Sooner(i, S)), agenda[i].from>>
    BY DEF GapBefore, Sooner
  <2>3. \A k \in S : Earlier(k, i) => k \in Sooner(i, S)
    BY DEF Sooner
  <2>4. agenda[i].from \in Nat
    BY OneIsEarlier
  <2> QED
    BY <2>1, <2>2, <2>3, <2>4 DEF Windows
<1>2. /\ GapAfter(S) \in Windows /\ Now <= GapAfter(S)[1]
      /\ \A k \in S : agenda[k].to <= GapAfter(S)[1]
  BY CursorIsPast, TimesAreNumbers DEF GapAfter, Windows
<1> QED
  BY <1>1, <1>2

\* All of them are windows.
LEMMA GapsAreWindows ==
    ASSUME NEW S, Calendar(S)
    PROVE  Gaps(S) \in SUBSET Windows
BY GapsAre, GapsFollow

\* The gaps lie between now and the last moment, if the events begin before that.
LEMMA GapsInReach ==
    ASSUME NEW S, Calendar(S), \A i \in S : agenda[i].from < PageEnd, NEW w \in Gaps(S)
    PROVE  Now <= w[1] /\ w[2] <= PageEnd
<1>1. ASSUME NEW i \in S, w = GapBefore(i, S) PROVE Now <= w[1] /\ w[2] <= PageEnd
  BY <1>1, GapsFollow, OneIsEarlier, TimesAreNumbers
<1>2. ASSUME w = GapAfter(S) PROVE Now <= w[1] /\ w[2] <= PageEnd
  BY <1>2, GapsFollow, TimesAreNumbers DEF GapAfter
<1> QED
  BY <1>1, <1>2, GapsAre

\* The gaps are free of the events they were computed from.
LEMMA GapsAreFree ==
    ASSUME NEW S, Calendar(S), NEW w \in Gaps(S), NEW k \in S
    PROVE  ~Overlap(w, Span(k))
<1>t. /\ w \in Windows /\ agenda[k].from \in Nat /\ agenda[k].to \in Nat
      /\ Span(k)[1] = agenda[k].from /\ Span(k)[2] = agenda[k].to
  BY GapsAreWindows, OneIsEarlier DEF Span
<1>1. CASE w = GapAfter(S)
  <2>1. agenda[k].to <= w[1]
    BY <1>1, GapsFollow
  <2> QED
    BY <1>t, <2>1 DEF Overlap, Windows
<1>2. ASSUME NEW i \in S, w = GapBefore(i, S) PROVE ~Overlap(w, Span(k))
  <2>1. Earlier(k, i) => agenda[k].to <= w[1]
    BY <1>2, GapsFollow
  <2>2. ~Earlier(k, i) => w[2] <= agenda[k].from
    BY <1>2, GapsFollow, OneIsEarlier
  <2> QED
    BY <1>t, <2>1, <2>2 DEF Overlap, Windows
<1> QED
  BY <1>1, <1>2, GapsAre

\* They are free of one another if no event ends before it begins.
LEMMA GapsAreApart ==
    ASSUME NEW S, Calendar(S), Forward(S)
    PROVE  \A w, x \in Gaps(S) : w # x => ~Overlap(w, x)
<1>t. /\ \A i \in S : /\ GapBefore(i, S) \in Windows /\ GapBefore(i, S)[2] = agenda[i].from
                      /\ agenda[i].from \in Nat /\ agenda[i].to \in Nat
                      /\ agenda[i].from <= agenda[i].to
      /\ GapAfter(S) \in Windows
  BY GapsFollow, OneIsEarlier DEF Forward
<1>2. ASSUME NEW w \in Windows, NEW i \in S, w[1] >= agenda[i].to
      PROVE  ~Overlap(w, GapBefore(i, S)) /\ ~Overlap(GapBefore(i, S), w)
  BY <1>t, <1>2 DEF Overlap, Windows
<1>3. ASSUME NEW i \in S, NEW k \in S, Earlier(i, k)
      PROVE  /\ ~Overlap(GapBefore(i, S), GapBefore(k, S))
             /\ ~Overlap(GapBefore(k, S), GapBefore(i, S))
  <2>1. agenda[i].to <= GapBefore(k, S)[1]
    BY <1>3, GapsFollow
  <2>2. GapBefore(k, S)[1] >= agenda[i].to
    BY <1>t, <2>1 DEF Windows
  <2> QED
    BY <1>t, <1>2, <2>2
<1>4. ASSUME NEW i \in S, NEW k \in S, GapBefore(i, S) # GapBefore(k, S)
      PROVE  ~Overlap(GapBefore(i, S), GapBefore(k, S))
  BY <1>3, <1>4, OneIsEarlier
<1>5. ASSUME NEW i \in S
      PROVE  /\ ~Overlap(GapBefore(i, S), GapAfter(S))
             /\ ~Overlap(GapAfter(S), GapBefore(i, S))
  <2>1. agenda[i].to <= GapAfter(S)[1]
    BY GapsFollow
  <2>2. GapAfter(S)[1] >= agenda[i].to
    BY <1>t, <2>1 DEF Windows
  <2> QED
    BY <1>t, <1>2, <2>2
<1>6. ASSUME NEW w \in Gaps(S), NEW x \in Gaps(S), w # x PROVE ~Overlap(w, x)
  BY <1>4, <1>5, <1>6, GapsAre
<1> QED
  BY <1>6

-----------------------------------------------------------------------------
(* Slots: _compute_free_slots *)

\* One round of the loop, which goes on with g.
Round(g, busy, at) ==
    LET t == at[1]  left == at[2]
    IN IF t >= LinkEnd \/ left = 0 THEN {}
       ELSE IF ~OfficeHours(t) THEN g[<<t + 4, left>>]
       ELSE IF \E b \in busy : Overlap(<<t, t + LinkDuration>>, b)
         THEN g[<<t + 2, left>>]
       ELSE {<<t, t + LinkDuration>>} \cup g[<<t + LinkDuration, left - 1>>]

\* g is what the loop adds from each of its rounds on.
Loops(g, busy) == g = [at \in Progress |-> Round(g, busy, at)]

\* The rounds that may be left: the last n starts.
Rounds(n) == {at \in Progress : LinkEnd + LinkDuration + 3 < at[1] + n}

\* A round asks only for later ones.
LEMMA RoundsGoOn ==
    ASSUME NEW at \in Progress, at[1] < LinkEnd, at[2] # 0
    PROVE  /\ <<at[1] + 4, at[2]>> \in Progress /\ <<at[1] + 2, at[2]>> \in Progress
           /\ <<at[1] + LinkDuration, at[2] - 1>> \in Progress
           /\ \A n \in Nat : at \in Rounds(n + 1) =>
                /\ <<at[1] + 4, at[2]>> \in Rounds(n) /\ <<at[1] + 2, at[2]>> \in Rounds(n)
                /\ <<at[1] + LinkDuration, at[2] - 1>> \in Rounds(n)
<1>1. /\ at[1] \in Nat /\ at[1] >= FirstHour /\ at[2] \in Nat /\ at[2] <= MaxSlots
      /\ at[1] <= LinkEnd + LinkDuration + 3
  BY TimesAreNumbers DEF Progress
<1>2. /\ <<at[1] + 4, at[2]>> \in Progress /\ <<at[1] + 2, at[2]>> \in Progress
      /\ <<at[1] + LinkDuration, at[2] - 1>> \in Progress
  BY <1>1, TimesAreNumbers DEF Progress
<1> QED
  BY <1>1, <1>2, TimesAreNumbers DEF Rounds

\* What a round adds depends on the later rounds only.
LEMMA RoundsAgree ==
    ASSUME NEW busy, NEW g, NEW h, NEW n \in Nat, NEW at \in Rounds(n + 1),
           \A p \in Rounds(n) : g[p] = h[p]
    PROVE  Round(g, busy, at) = Round(h, busy, at)
<1>1. at \in Progress
  BY DEF Rounds
<1>2. CASE at[1] >= LinkEnd \/ at[2] = 0
  BY <1>2 DEF Round
<1>3. CASE ~(at[1] >= LinkEnd \/ at[2] = 0)
  <2>1. at[1] \in Nat /\ LinkEnd \in Nat
    BY <1>1, TimesAreNumbers DEF Progress
  <2>2. /\ g[<<at[1] + 4, at[2]>>] = h[<<at[1] + 4, at[2]>>]
        /\ g[<<at[1] + 2, at[2]>>] = h[<<at[1] + 2, at[2]>>]
        /\ g[<<at[1] + LinkDuration, at[2] - 1>>] = h[<<at[1] + LinkDuration, at[2] - 1>>]
    BY <1>1, <1>3, <2>1, RoundsGoOn
  <2> QED
    BY <1>3, <2>2 DEF Round
<1> QED
  BY <1>2, <1>3

\* The loop ends: its rounds are well defined.
LEMMA LoopEnds ==
    ASSUME NEW busy
    PROVE  \E g : Loops(g, busy)
<1> DEFINE Defined == {n \in Nat : \E g : g = [at \in Rounds(n) |-> Round(g, busy, at)]}
<1>1. 0 \in Defined
  <2>1. Rounds(0) = {}
    BY TimesAreNumbers DEF Rounds, Progress
  <2>2. <<>> = [at \in Rounds(0) |-> Round(<<>>, busy, at)]
    BY <2>1
  <2> QED
    BY <2>2
<1>2. ASSUME NEW n \in Nat, n \in Defined PROVE n + 1 \in Defined
  <2>1. PICK g : g = [at \in Rounds(n) |-> Round(g, busy, at)]
    BY <1>2
  <2> DEFINE h == [at \in Rounds(n + 1) |-> Round(g, busy, at)]
  <2>2. Rounds(n) \subseteq Rounds(n + 1)
    BY TimesAreNumbers DEF Rounds, Progress
  <2>3. \A p \in Rounds(n) : g[p] = h[p]
    BY <2>1, <2>2, Zenon
  <2>4. \A at \in Rounds(n + 1) : Round(g, busy, at) = Round(h, busy, at)
    <3> HIDE DEF h
    <3> QED
      BY <2>3, RoundsAgree
  <2>5. h = [at \in Rounds(n + 1) |-> Round(h, busy, at)]
    BY <2>4, Zenon
  <2>6. n + 1 \in Nat
    OBVIOUS
  <2> HIDE DEF h
  <2> QED
    BY <2>5, <2>6
<1>3. Nat \subseteq Defined
  <2> HIDE DEF Defined
  <2> QED
    BY <1>1, <1>2, AllNumbers
<1> DEFINE all == LinkEnd + LinkDuration + 4
<1>4. all \in Nat /\ Rounds(all) = Progress
  BY TimesAreNumbers DEF Rounds, Progress
<1>5. all \in Defined
  BY <1>3, <1>4
<1>6. \E g : g = [at \in Rounds(all) |-> Round(g, busy, at)]
  BY <1>5
<1> QED
  BY <1>4, <1>6 DEF Loops

\* What is offered from a round on: windows of the link's length that begin later,
\* where OfficeHours allows, free of the events and of one another, and not too many.
Offered(slots, busy, at) ==
    /\ \A w \in slots :
         /\ w \in Windows /\ w[1] >= at[1] /\ w[2] = w[1] + LinkDuration /\ OfficeHours(w[1])
         /\ \A b \in busy : ~Overlap(w, b)
    /\ \A v, w \in slots : v # w => ~Overlap(v, w)
    /\ IsFiniteSet(slots) /\ Cardinality(slots) <= at[2]

\* One more slot before those of the later rounds.
LEMMA OneMoreSlot ==
    ASSUME NEW busy, NEW at \in Progress, NEW slots, at[2] # 0, OfficeHours(at[1]),
           \A b \in busy : ~Overlap(<<at[1], at[1] + LinkDuration>>, b),
           Offered(slots, busy, <<at[1] + LinkDuration, at[2] - 1>>)
    PROVE  Offered({<<at[1], at[1] + LinkDuration>>} \cup slots, busy, at)
<1> DEFINE new == <<at[1], at[1] + LinkDuration>>
<1>1. at[1] \in Nat /\ at[2] \in Nat /\ at[2] - 1 \in Nat
  BY TimesAreNumbers DEF Progress
<1>2. new \in Windows /\ new[1] = at[1] /\ new[2] = at[1] + LinkDuration
  BY <1>1, TimesAreNumbers DEF Windows
<1>3. \A w \in slots : w \in Windows /\ w[1] >= at[1] + LinkDuration
  BY DEF Offered
<1>4. \A w \in slots : ~Overlap(new, w) /\ ~Overlap(w, new)
  BY <1>1, <1>2, <1>3, TimesAreNumbers DEF Overlap, Windows
<1>5. /\ IsFiniteSet({new} \cup slots)
      /\ Cardinality({new} \cup slots) <= at[2]
  <2>1. IsFiniteSet(slots) /\ Cardinality(slots) <= at[2] - 1 /\ Cardinality(slots) \in Nat
    BY FS_CardinalityType DEF Offered
  <2>2. /\ IsFiniteSet(slots \cup {new})
        /\ Cardinality(slots \cup {new}) = IF new \in slots THEN Cardinality(slots)
                                           ELSE Cardinality(slots) + 1
    BY <2>1, FS_AddElement
  <2>3. {new} \cup slots = slots \cup {new}
    OBVIOUS
  <2>4. Cardinality(slots \cup {new}) <= Cardinality(slots) + 1
    <3> HIDE DEF new
    <3>1. CASE new \in slots
      BY <2>1, <2>2, <3>1
    <3>2. CASE new \notin slots
      BY <2>1, <2>2, <3>2
    <3> QED
      BY <3>1, <3>2
  <2>5. \A n, k \in Nat : n <= at[2] - 1 /\ k <= n + 1 => k <= at[2]
    BY <1>1
  <2>6. Cardinality(slots \cup {new}) \in Nat
    BY <2>2, FS_CardinalityType
  <2> QED
    BY <2>1, <2>2, <2>3, <2>4, <2>5, <2>6
<1>6. ASSUME NEW w \in {new} \cup slots
      PROVE  /\ w \in Windows /\ w[1] >= at[1] /\ w[2] = w[1] + LinkDuration /\ OfficeHours(w[1])
             /\ \A b \in busy : ~Overlap(w, b)
  <2>1. CASE w = new
    BY <1>1, <1>2, <2>1
  <2>2. CASE w \in slots
    <3>1. w[1] \in Nat
      BY <1>3, <2>2 DEF Windows
    <3>2. w[1] >= at[1]
      BY <1>1, <1>3, <2>2, <3>1, TimesAreNumbers
    <3> QED
      BY <1>3, <2>2, <3>2 DEF Offered
  <2> QED
    BY <2>1, <2>2
<1>7. \A v, w \in {new} \cup slots : v # w => ~Overlap(v, w)
  <2>1. \A v, w \in slots : v # w => ~Overlap(v, w)
    BY DEF Offered
  <2> HIDE DEF new
  <2> QED
    BY <1>4, <2>1
<1> HIDE DEF new
<1>8. Offered({new} \cup slots, busy, at)
  BY <1>5, <1>6, <1>7 DEF Offered
<1> QED
  BY <1>8 DEF new

\* Less of what is offered later is offered from an earlier round.
LEMMA OfferedEarlier ==
    ASSUME NEW busy, NEW at \in Progress, NEW p \in Progress, NEW slots,
           Offered(slots, busy, p), p[1] >= at[1], p[2] <= at[2]
    PROVE  Offered(slots, busy, at)
<1>1. at[1] \in Nat /\ at[2] \in Nat /\ p[1] \in Nat /\ p[2] \in Nat
  BY TimesAreNumbers DEF Progress
<1>2. \A w \in slots : w[1] >= at[1]
  <2>1. \A w \in slots : w[1] \in Nat /\ w[1] >= p[1]
    BY DEF Offered, Windows
  <2> QED
    BY <1>1, <2>1
<1>3. Cardinality(slots) <= at[2]
  <2>1. Cardinality(slots) \in Nat /\ Cardinality(slots) <= p[2]
    BY FS_CardinalityType DEF Offered
  <2> QED
    BY <1>1, <2>1
<1> QED
  BY <1>2, <1>3 DEF Offered

\* Nothing is offered when the loop has ended.
LEMMA NothingOffered ==
    ASSUME NEW busy, NEW at \in Progress
    PROVE  Offered({}, busy, at)
<1>1. IsFiniteSet({}) /\ Cardinality({}) = 0 /\ at[2] \in Nat
  BY FS_EmptySet, TimesAreNumbers DEF Progress
<1> QED
  BY <1>1 DEF Offered

\* From every round on the slots are as they should be.
LEMMA LoopOffers ==
    ASSUME NEW busy, NEW g, Loops(g, busy), NEW at \in Progress
    PROVE  Offered(g[at], busy, at)
<1> DEFINE Good == {n \in Nat : \A p \in Rounds(n) : Offered(g[p], busy, p)}
<1>g. \A p \in Progress : g[p] = Round(g, busy, p)
  BY Zenon DEF Loops
<1>1. 0 \in Good
  <2>1. Rounds(0) = {}
    BY TimesAreNumbers DEF Rounds, Progress
  <2> QED
    BY <2>1
<1>2. ASSUME NEW n \in Nat, n \in Good PROVE n + 1 \in Good
  <2> SUFFICES ASSUME NEW p \in Rounds(n + 1) PROVE Offered(Round(g, busy, p), busy, p)
    BY <1>g DEF Rounds
  <2> DEFINE t == p[1]
             left == p[2]
  <2>1. p \in Progress /\ t \in Nat /\ left \in Nat /\ LinkEnd \in Nat /\ LinkDuration \in Nat
    BY TimesAreNumbers DEF Rounds, Progress
  <2>2. CASE t >= LinkEnd \/ left = 0
    <3>1. Round(g, busy, p) = {}
      BY <2>2 DEF Round
    <3> QED
      BY <2>1, <3>1, NothingOffered
  <2>3. CASE ~(t >= LinkEnd \/ left = 0)
    <3>1. t < LinkEnd /\ left # 0
      BY <2>1, <2>3
    <3>2. /\ Offered(g[<<t + 4, left>>], busy, <<t + 4, left>>)
          /\ Offered(g[<<t + 2, left>>], busy, <<t + 2, left>>)
          /\ Offered(g[<<t + LinkDuration, left - 1>>], busy, <<t + LinkDuration, left - 1>>)
          /\ <<t + 4, left>> \in Progress /\ <<t + 2, left>> \in Progress
      BY <1>2, <2>1, <3>1, RoundsGoOn
    <3>3. CASE ~OfficeHours(t)
      <4>1. Round(g, busy, p) = g[<<t + 4, left>>]
        BY <2>3, <3>3 DEF Round
      <4> QED
        BY <2>1, <3>2, <4>1, OfferedEarlier
    <3>4. CASE OfficeHours(t) /\ \E b \in busy : Overlap(<<t, t + LinkDuration>>, b)
      <4>1. Round(g, busy, p) = g[<<t + 2, left>>]
        BY <2>3, <3>4 DEF Round
      <4> QED
        BY <2>1, <3>2, <4>1, OfferedEarlier
    <3>5. CASE OfficeHours(t) /\ ~\E b \in busy : Overlap(<<t, t + LinkDuration>>, b)
      <4>1. Round(g, busy, p) = {<<t, t + LinkDuration>>} \cup g[<<t + LinkDuration, left - 1>>]
        BY <2>3, <3>5 DEF Round
      <4> QED
        BY <2>1, <3>1, <3>2, <3>5, <4>1, OneMoreSlot
    <3> QED
      BY <3>3, <3>4, <3>5
  <2> QED
    BY <2>2, <2>3
<1>3. Nat \subseteq Good
  <2> HIDE DEF Good
  <2> QED
    BY <1>1, <1>2, AllNumbers
<1> DEFINE all == LinkEnd + LinkDuration + 4
<1>4. all \in Nat /\ Rounds(all) = Progress
  BY TimesAreNumbers DEF Rounds, Progress
<1>5. all \in Good
  BY <1>3, <1>4
<1> QED
  BY <1>4, <1>5

\* What a link offers is free of what was listed, apart, and not too much.
LEMMA FreeSlotsAreFree ==
    ASSUME NEW busy
    PROVE  Offered(FreeSlots(busy), busy, <<FirstHour, MaxSlots>>)
<1> DEFINE g == CHOOSE g : Loops(g, busy)
<1>1. FreeSlots(busy) = g[<<FirstHour, MaxSlots>>]
  BY DEF FreeSlots, Loops, Round
<1>2. Loops(g, busy)
  BY LoopEnds
<1>3. <<FirstHour, MaxSlots>> \in Progress
  BY TimesAreNumbers DEF Progress, LinkEnd
<1> HIDE DEF g
<1> QED
  BY <1>1, <1>2, <1>3, LoopOffers

-----------------------------------------------------------------------------
(* Links, pages and bookings: the inductive invariant *)

Events == [from : Nat, to : Nat, at : {"google", "local", "both"},
           by : Visitors \cup {"host"}, allDay : BOOLEAN]

LinkRecords == [mode : {"suggested", "availability"}, windows : SUBSET Windows,
                seen : SUBSET Nat, status : {"open", "used", "expired", "lost"}]

Screens == [pc : {"away", "link", "page"}, windows : SUBSET Windows, seen : SUBSET Nat]

SchedulingTypes ==
    /\ database \in Databases
    /\ agenda \in Seq(Events)
    /\ \A i \in DOMAIN agenda : Span(i) \in Meetings \cup Wishes
    /\ links \in Seq(LinkRecords)
    /\ visit \in [Visitors -> Screens]
    /\ bookings \in 0..MaxBookings

Apart(windows) == \A a, b \in windows : a # b => ~Overlap(a, b)

\* A window is free of an event, however far that is away; or of one that is listed.
FreeOf(w, i) == ~Overlap(w, Span(i))
FreeOfListed(w, i) == Overlap(w, Span(i)) => ~Within(Span(i))

\* No event ends before it begins.
AllForward == \A i \in DOMAIN agenda : agenda[i].from <= agenda[i].to

\* What a page shows: free time, in pieces that are apart.
PageOK(windows, seen) ==
    /\ seen \subseteq DOMAIN agenda
    /\ \A w \in windows, i \in seen : FreeOf(w, i)
    /\ AllForward => Apart(windows)

\* What a link offers.
SlotsOK(windows, seen) ==
    /\ seen \subseteq DOMAIN agenda
    /\ \A w \in windows, i \in seen : FreeOfListed(w, i)
    /\ Apart(windows)
    /\ Cardinality(windows) <= MaxSlots

SchedulingInv ==
    /\ SchedulingTypes
    /\ \A v \in Visitors : visit[v].pc = "page" => PageOK(visit[v].windows, visit[v].seen)
    /\ \A n \in DOMAIN links :
         links[n].mode = "availability" => SlotsOK(links[n].windows, links[n].seen)

-----------------------------------------------------------------------------
(* Links, pages and bookings: what a listing tells *)

\* A page takes all of a set that fits it.
LEMMA AllFitsPage ==
    ASSUME SchedulingTypes, NEW S \in SUBSET (DOMAIN agenda), Cardinality(S) <= PageSize
    PROVE  FirstPage(S) = S
<1>1. DOMAIN agenda = 1..Len(agenda) /\ Len(agenda) \in Nat
  BY LenProperties DEF SchedulingTypes
<1>2. IsFiniteSet(S) /\ Cardinality(S) \in Nat
  <2>1. IsFiniteSet(1..Len(agenda))
    BY <1>1, FS_Interval
  <2> QED
    BY <1>1, <2>1, FS_Subset, FS_CardinalityType
<1>3. ASSUME NEW i \in S
      PROVE  Cardinality(Sooner(i, S)) < PageSize
  <2> DEFINE E == Sooner(i, S)
  <2>1. IsFiniteSet(S \ {i}) /\ Cardinality(S \ {i}) = Cardinality(S) - 1
    BY <1>2, FS_RemoveElement
  <2>2. E \subseteq S \ {i}
    <3>1. i \in Nat /\ agenda[i].from \in Nat
      <4>1. i \in 1..Len(agenda)
        BY <1>1
      <4>2. agenda[i] \in Events
        BY <4>1, ElementOfSeq DEF SchedulingTypes
      <4> QED
        BY <1>1, <4>1, <4>2 DEF Events
    <3> QED
      BY <3>1 DEF Sooner, Earlier
  <2> HIDE DEF E
  <2>3. Cardinality(E) <= Cardinality(S \ {i}) /\ Cardinality(E) \in Nat
    BY <2>1, <2>2, FS_Subset, FS_CardinalityType
  <2>4. Cardinality(E) < PageSize
    <3>1. \A e, r, s \in Int : e <= r /\ r = s - 1 /\ s <= PageSize => e < PageSize
      BY TimesAreNumbers
    <3>2. Cardinality(S \ {i}) \in Nat
      BY <2>1, FS_CardinalityType
    <3> QED
      BY <1>2, <2>1, <2>3, <3>1, <3>2
  <2> QED
    BY <2>4 DEF E
<1> QED
  BY <1>3 DEF FirstPage, Sooner

\* An event lies in a window.
LEMMA SpanIsWindow ==
    ASSUME SchedulingTypes, NEW i \in DOMAIN agenda
    PROVE  Span(i) \in Windows
BY LinkAssumption DEF SchedulingTypes, Windows

\* What is listed is a calendar for the loops, of events within reach, and what is
\* known is in it or out of reach.
LEMMA ListingTells ==
    ASSUME SchedulingTypes, NEW answers \in BOOLEAN
    PROVE  /\ Calendar(Listed(answers)) /\ (AllForward => Forward(Listed(answers)))
           /\ \A i \in Listed(answers) : Within(Span(i))
           /\ Known(answers) \subseteq DOMAIN agenda
           /\ \A i \in Known(answers) : Within(Span(i)) => i \in Listed(answers)
<1>1. DOMAIN agenda = 1..Len(agenda) /\ Len(agenda) \in Nat
  BY LenProperties DEF SchedulingTypes
<1>2. /\ AtGoogle \subseteq DOMAIN agenda /\ InRows \subseteq DOMAIN agenda
      /\ \A i \in AtGoogle \cup InRows : Within(Span(i))
  BY DEF AtGoogle, InRows
<1>3. \A S : FirstPage(S) \subseteq S
  BY DEF FirstPage
<1>4. Listed(answers) \subseteq AtGoogle \cup InRows
  BY <1>3 DEF Listed, FromGoogle
<1>5. IsFiniteSet(Listed(answers))
  <2>1. IsFiniteSet(1..Len(agenda))
    BY <1>1, FS_Interval
  <2> QED
    BY <1>1, <1>2, <1>4, <2>1, FS_Subset
<1>6. \A i \in DOMAIN agenda : Span(i) \in Windows
  BY SpanIsWindow
<1>7. Calendar(Listed(answers)) /\ \A i \in Listed(answers) : Within(Span(i))
  BY <1>1, <1>2, <1>4, <1>5, <1>6 DEF Calendar
<1>8. ASSUME AllForward PROVE Forward(Listed(answers))
  BY <1>2, <1>4, <1>8 DEF AllForward, Forward
<1>9. ASSUME NEW i \in Known(answers)
       PROVE  i \in DOMAIN agenda /\ (Within(Span(i)) => i \in Listed(answers))
  <2>1. CASE Cardinality(InRows) <= PageSize /\ i \in DOMAIN agenda /\ agenda[i].at # "google"
    <3>1. FirstPage(InRows) = InRows
      BY <1>2, <2>1, AllFitsPage
    <3> QED
      BY <2>1, <3>1 DEF Listed, InRows
  <2>2. CASE answers /\ Cardinality(AtGoogle) <= PageSize /\ i \in DOMAIN agenda
               /\ agenda[i].at # "local"
    <3>1. FirstPage(AtGoogle) = AtGoogle
      BY <1>2, <2>2, AllFitsPage
    <3> QED
      BY <2>2, <3>1 DEF Listed, FromGoogle, AtGoogle
  <2> QED
    BY <1>9, <2>1, <2>2 DEF Known
<1> QED
  BY <1>7, <1>8, <1>9

\* A page opened now shows free time.
LEMMA PageShowsFreeTime ==
    ASSUME SchedulingTypes, NEW answers \in BOOLEAN
    PROVE  /\ PageOK(Gaps(Listed(answers)), Known(answers))
           /\ Gaps(Listed(answers)) \in SUBSET Windows
<1>1. /\ Calendar(Listed(answers)) /\ (AllForward => Forward(Listed(answers)))
      /\ \A i \in Listed(answers) : Within(Span(i))
      /\ Known(answers) \subseteq DOMAIN agenda
      /\ \A i \in Known(answers) : Within(Span(i)) => i \in Listed(answers)
  BY ListingTells
<1>2. Gaps(Listed(answers)) \in SUBSET Windows
  BY <1>1, GapsAreWindows
<1>3. ASSUME NEW w \in Gaps(Listed(answers)), NEW i \in Known(answers)
      PROVE  ~Overlap(w, Span(i))
  <2>1. CASE Within(Span(i))
    BY <1>1, <2>1, GapsAreFree
  <2>2. CASE ~Within(Span(i))
    <3>1. \A k \in Listed(answers) : agenda[k].from < PageEnd
      BY <1>1 DEF Within, Span
    <3>2. Now <= w[1] /\ w[2] <= PageEnd
      BY <1>1, <3>1, GapsInReach
    <3>3. w \in Windows /\ Span(i) \in Windows
      BY <1>1, <1>2, SpanIsWindow
    <3> QED
      BY <2>2, <3>2, <3>3, TimesAreNumbers DEF Within, Overlap, Windows
  <2> QED
    BY <2>1, <2>2
<1> QED
  BY <1>1, <1>2, <1>3, GapsAreApart DEF PageOK, Apart, FreeOf

\* A link made now offers free slots.
LEMMA LinkOffersFreeTime ==
    ASSUME SchedulingTypes, NEW answers \in BOOLEAN
    PROVE  /\ SlotsOK(FreeSlots(Busy(answers)), Known(answers))
           /\ FreeSlots(Busy(answers)) \in SUBSET Windows
<1>1. /\ Known(answers) \subseteq DOMAIN agenda
      /\ \A i \in Known(answers) : Within(Span(i)) => Span(i) \in Busy(answers)
  BY ListingTells DEF Busy, Spans
<1>2. Offered(FreeSlots(Busy(answers)), Busy(answers), <<FirstHour, MaxSlots>>)
  BY FreeSlotsAreFree
<1> QED
  BY <1>1, <1>2 DEF Offered, SlotsOK, Apart, FreeOfListed

\* Where nothing is shown, nothing is wrong.
LEMMA NothingShown ==
    ASSUME NEW seen \in SUBSET (DOMAIN agenda)
    PROVE  PageOK({}, seen) /\ SlotsOK({}, seen)
<1>1. Cardinality({}) = 0
  BY FS_EmptySet
<1> QED
  BY <1>1, TimesAreNumbers DEF PageOK, SlotsOK, Apart

-----------------------------------------------------------------------------
(* Links, pages and bookings: each step keeps the invariant *)

\* The agenda only grows.
AgendaGrows == \A i \in DOMAIN agenda : i \in DOMAIN agenda' /\ agenda'[i] = agenda[i]

\* Windows in which the host meets, or people book.
Held == Meetings \cup Wishes

\* Events that are added at the end.
LEMMA AgendaAdds ==
    ASSUME SchedulingTypes, NEW new \in Seq(Events), agenda' = agenda \o new,
           \A k \in DOMAIN new : <<new[k].from, new[k].to>> \in Held
    PROVE  /\ AgendaGrows
           /\ agenda' \in Seq(Events) /\ \A i \in DOMAIN agenda' : Span(i)' \in Held
<1>1. /\ agenda \in Seq(Events) /\ agenda' \in Seq(Events)
      /\ Len(agenda') = Len(agenda) + Len(new)
      /\ \A i \in 1..(Len(agenda) + Len(new)) :
           agenda'[i] = IF i <= Len(agenda) THEN agenda[i] ELSE new[i - Len(agenda)]
  BY ConcatProperties DEF SchedulingTypes
<1>2. /\ Len(agenda) \in Nat /\ Len(new) \in Nat
      /\ DOMAIN agenda = 1..Len(agenda) /\ DOMAIN new = 1..Len(new)
      /\ DOMAIN agenda' = 1..(Len(agenda) + Len(new))
  BY <1>1, LenProperties
<1>3. AgendaGrows
  BY <1>1, <1>2 DEF AgendaGrows
<1>4. \A i \in DOMAIN agenda' \ DOMAIN agenda :
        i - Len(agenda) \in DOMAIN new /\ agenda'[i] = new[i - Len(agenda)]
  BY <1>1, <1>2
<1>5. ASSUME NEW i \in DOMAIN agenda' PROVE <<agenda'[i].from, agenda'[i].to>> \in Held
  <2>1. CASE i \in DOMAIN agenda
    BY <1>3, <2>1 DEF AgendaGrows, SchedulingTypes, Span, Held
  <2>2. CASE i \notin DOMAIN agenda
    BY <1>4, <2>2
  <2> QED
    BY <2>1, <2>2
<1> QED
  BY <1>1, <1>3, <1>5 DEF Span

\* A step that leaves the links alone, and shows nobody anything new.
LEMMA LinksStay ==
    ASSUME SchedulingInv, SchedulingTypes', AgendaGrows, links' = links,
           \A v \in Visitors : visit'[v].pc = "page" => visit'[v] = visit[v]
    PROVE  SchedulingInv'
<1>1. ASSUME NEW v \in Visitors, visit'[v].pc = "page"
      PROVE  PageOK(visit[v].windows, visit[v].seen)'
  <2>1. PageOK(visit[v].windows, visit[v].seen) /\ visit'[v] = visit[v]
    BY <1>1 DEF SchedulingInv
  <2>2. AllForward' => AllForward
    BY DEF AllForward, AgendaGrows
  <2> QED
    BY <2>1, <2>2 DEF PageOK, FreeOf, AgendaGrows, Span
<1>2. ASSUME NEW n \in DOMAIN links, links[n].mode = "availability"
      PROVE  SlotsOK(links[n].windows, links[n].seen)'
  <2>1. SlotsOK(links[n].windows, links[n].seen)
    BY <1>2 DEF SchedulingInv
  <2> QED
    BY <2>1 DEF SlotsOK, FreeOfListed, AgendaGrows, Span
<1> QED
  BY <1>1, <1>2 DEF SchedulingInv

LEMMA InitSchedulingInv == LinksInit => SchedulingInv
<1> SUFFICES ASSUME LinksInit PROVE SchedulingInv
  OBVIOUS
<1>1. Away \in Screens /\ Away.pc = "away"
  BY DEF Away, Screens
<1>2. /\ agenda \in Seq(Events) /\ DOMAIN agenda = {}
      /\ links \in Seq(LinkRecords) /\ DOMAIN links = {}
  <2>1. << >> \in Seq(Events) /\ << >> \in Seq(LinkRecords) /\ DOMAIN << >> = {}
    OBVIOUS
  <2> QED
    BY <2>1 DEF LinksInit
<1>3. bookings \in 0..MaxBookings
  BY LinkAssumption DEF LinksInit
<1>4. SchedulingTypes
  BY <1>1, <1>2, <1>3 DEF SchedulingTypes, LinksInit
<1> QED
  BY <1>1, <1>2, <1>4 DEF SchedulingInv, LinksInit

\* A meeting of the host's.
LEMMA MeetingKeeps ==
    ASSUME SchedulingInv, NEW m \in Meetings, NEW at \in {"google", "both", "local"},
           AddMeeting(m, at)
    PROVE  SchedulingInv'
<1> DEFINE e == Event(m, at, "host")
<1>1. SchedulingTypes
  BY DEF SchedulingInv
<1>2. e \in Events /\ <<e.from, e.to>> \in Held
  BY LinkAssumption DEF Event, Events, Held
<1>3. agenda' = agenda \o <<e>> /\ <<e>> \in Seq(Events) /\ DOMAIN <<e>> = {1} /\ <<e>>[1] = e
  <2> HIDE DEF e
  <2>1. agenda' = Append(agenda, e)
    BY DEF AddMeeting, e
  <2>2. Append(agenda, e) = agenda \o <<e>>
    BY <1>1, <1>2, AppendIsConcat DEF SchedulingTypes
  <2> QED
    BY <1>2, <2>1, <2>2
<1> HIDE DEF e
<1> DEFINE new == <<e>>
<1>4. /\ new \in Seq(Events) /\ agenda' = agenda \o new
      /\ \A k \in DOMAIN new : <<new[k].from, new[k].to>> \in Held
  BY <1>2, <1>3
<1> HIDE DEF new
<1>5. /\ AgendaGrows /\ agenda' \in Seq(Events)
      /\ \A i \in DOMAIN agenda' : Span(i)' \in Held
  BY <1>1, <1>4, AgendaAdds
<1>6. UNCHANGED <<database, links, visit, bookings>>
  BY DEF AddMeeting
<1>7. SchedulingTypes'
  BY <1>1, <1>5, <1>6 DEF SchedulingTypes, Held
<1> QED
  BY <1>5, <1>6, <1>7, LinksStay

\* A link that is saved or lost.
LEMMA SaveLinkKeeps ==
    ASSUME SchedulingInv, NEW mode \in {"suggested", "availability"}, NEW windows \in SUBSET Windows,
           NEW seen \in SUBSET (DOMAIN agenda), NEW saved \in BOOLEAN,
           SaveLink(mode, windows, seen, saved),
           mode = "availability" => SlotsOK(windows, seen)
    PROVE  SchedulingInv'
<1> DEFINE new == [mode |-> mode, windows |-> windows, seen |-> seen,
                   status |-> IF saved THEN "open" ELSE "lost"]
<1>1. /\ SchedulingTypes /\ links \in Seq(LinkRecords)
      /\ UNCHANGED <<database, agenda, visit, bookings>> /\ links' = Append(links, new)
  BY DEF SchedulingInv, SchedulingTypes, SaveLink
<1>2. new \in LinkRecords /\ (new.mode = "availability" => SlotsOK(new.windows, new.seen))
  <2>1. seen \in SUBSET Nat
    BY <1>1, LenProperties DEF SchedulingTypes
  <2> QED
    BY <2>1 DEF LinkRecords
<1> HIDE DEF new
<1>3. /\ links' \in Seq(LinkRecords) /\ Len(links') = Len(links) + 1
      /\ \A n \in 1..Len(links) : links'[n] = links[n]
      /\ links'[Len(links) + 1] = new
  BY <1>1, <1>2, AppendProperties
<1>4. /\ DOMAIN links' = 1..(Len(links) + 1) /\ DOMAIN links = 1..Len(links)
      /\ Len(links) \in Nat
  BY <1>1, <1>3, LenProperties
<1>5. SchedulingTypes'
  BY <1>1, <1>3 DEF SchedulingTypes, Span
<1>6. ASSUME NEW n \in DOMAIN links', links'[n].mode = "availability"
      PROVE  SlotsOK(links'[n].windows, links'[n].seen)
  <2>1. n \in DOMAIN links \/ n = Len(links) + 1
    BY <1>4
  <2> QED
    BY <1>2, <1>3, <1>4, <1>6, <2>1 DEF SchedulingInv
<1>7. \A w, s : (PageOK(w, s)' <=> PageOK(w, s)) /\ (SlotsOK(w, s)' <=> SlotsOK(w, s))
  BY <1>1 DEF PageOK, SlotsOK, FreeOf, FreeOfListed, AllForward, Span
<1> QED
  BY <1>1, <1>5, <1>6, <1>7 DEF SchedulingInv

\* A link that is used, deleted or lapses offers what it offered.
LEMMA LinkStatusKeeps ==
    ASSUME SchedulingInv, NEW n \in DOMAIN links, NEW st \in {"used", "expired"},
           links' = [links EXCEPT ![n].status = st],
           UNCHANGED <<database, agenda, visit, bookings>>
    PROVE  SchedulingInv'
<1>1. SchedulingTypes /\ links \in Seq(LinkRecords) /\ DOMAIN links = 1..Len(links)
  BY LenProperties DEF SchedulingInv, SchedulingTypes
<1> DEFINE new == [links[n] EXCEPT !.status = st]
<1>2. new \in LinkRecords /\ new.mode = links[n].mode
      /\ new.windows = links[n].windows /\ new.seen = links[n].seen
  <2>1. links[n] \in LinkRecords
    BY <1>1, ElementOfSeq
  <2> QED
    BY <2>1 DEF LinkRecords
<1>3. links' = [links EXCEPT ![n] = new]
  OBVIOUS
<1> HIDE DEF new
<1>4. /\ links' \in Seq(LinkRecords) /\ Len(links') = Len(links)
      /\ \A k \in 1..Len(links) : links'[k] = IF k = n THEN new ELSE links[k]
  BY <1>1, <1>2, <1>3, ExceptSeq
<1>5. DOMAIN links' = DOMAIN links
  BY <1>1, <1>4, LenProperties
<1>6. SchedulingTypes'
  BY <1>1, <1>4 DEF SchedulingTypes, Span
<1>7. \A k \in DOMAIN links : links'[k].mode = "availability"
        => SlotsOK(links'[k].windows, links'[k].seen)
  BY <1>1, <1>2, <1>4 DEF SchedulingInv
<1>8. \A w, s : (PageOK(w, s)' <=> PageOK(w, s)) /\ (SlotsOK(w, s)' <=> SlotsOK(w, s))
  BY DEF PageOK, SlotsOK, FreeOf, FreeOfListed, AllForward, Span
<1> QED
  BY <1>5, <1>6, <1>7, <1>8 DEF SchedulingInv

\* A visitor whose screen changes, to a page only if the page is as it should be.
LEMMA ScreenKeeps ==
    ASSUME SchedulingInv, NEW v \in Visitors, NEW s \in Screens,
           s.pc = "page" => PageOK(s.windows, s.seen),
           visit' = [visit EXCEPT ![v] = s],
           UNCHANGED <<database, agenda, links, bookings>>
    PROVE  SchedulingInv'
<1>1. SchedulingTypes /\ SchedulingTypes'
  BY DEF SchedulingInv, SchedulingTypes, Span
<1>2. \A w, x : (PageOK(w, x)' <=> PageOK(w, x)) /\ (SlotsOK(w, x)' <=> SlotsOK(w, x))
  BY DEF PageOK, SlotsOK, FreeOf, FreeOfListed, AllForward, Span
<1>3. \A u \in Visitors : visit'[u] = IF u = v THEN s ELSE visit[u]
  BY <1>1 DEF SchedulingTypes
<1> QED
  BY <1>1, <1>2, <1>3 DEF SchedulingInv

\* Somebody who is away sees no page.
LEMMA AwayIsScreen == Away \in Screens /\ Away.pc = "away"
BY DEF Away, Screens

\* A link shows what it offers, a page what is free now.
LEMMA OpenLinkKeeps ==
    ASSUME SchedulingInv, NEW v \in Visitors, NEW n \in 1..MaxLinks, OpenLink(v, n)
    PROVE  SchedulingInv'
<1> DEFINE s == [pc |-> "link", windows |-> links[n].windows, seen |-> links[n].seen]
<1>1. n \in 1..Len(links) /\ links \in Seq(LinkRecords)
  BY LenProperties DEF SchedulingInv, SchedulingTypes, OpenLink, Opens
<1>2. s \in Screens
  <2>1. links[n] \in LinkRecords
    BY <1>1, ElementOfSeq
  <2> QED
    BY <2>1 DEF LinkRecords, Screens
<1>3. /\ visit' = [visit EXCEPT ![v] = s] /\ s.pc = "link"
      /\ UNCHANGED <<database, agenda, links, bookings>>
  BY DEF OpenLink, Show
<1> HIDE DEF s
<1> QED
  BY <1>2, <1>3, ScreenKeeps

LEMMA OpenPageKeeps ==
    ASSUME SchedulingInv, NEW v \in Visitors, NEW answers \in BOOLEAN, OpenPage(v, answers)
    PROVE  SchedulingInv'
<1> DEFINE windows == IF Comparable(answers) THEN Gaps(Listed(answers)) ELSE {}
           seen == Known(answers)
           s == [pc |-> "page", windows |-> windows, seen |-> seen]
<1>1. SchedulingTypes
  BY DEF SchedulingInv
<1>2. seen \in SUBSET (DOMAIN agenda) /\ seen \in SUBSET Nat
  <2>1. seen \subseteq DOMAIN agenda
    BY <1>1, ListingTells
  <2> QED
    BY <1>1, <2>1, LenProperties DEF SchedulingTypes
<1>3. PageOK(windows, seen) /\ windows \in SUBSET Windows
  <2> HIDE DEF seen
  <2>1. PageOK({}, seen) /\ {} \in SUBSET Windows
    BY <1>2, NothingShown
  <2>2. PageOK(Gaps(Listed(answers)), seen) /\ Gaps(Listed(answers)) \in SUBSET Windows
    BY <1>1, PageShowsFreeTime DEF seen
  <2> QED
    BY <2>1, <2>2
<1>4. /\ visit' = [visit EXCEPT ![v] = s]
      /\ UNCHANGED <<database, agenda, links, bookings>>
  BY DEF OpenPage, Show
<1> HIDE DEF windows, seen
<1>5. s \in Screens /\ PageOK(s.windows, s.seen)
  BY <1>2, <1>3 DEF Screens
<1> HIDE DEF s
<1> QED
  BY <1>4, <1>5, ScreenKeeps

\* A new link offers what is free now; or the meeting it was made for.
LEMMA AvailabilityKeeps ==
    ASSUME SchedulingInv, NEW answers \in BOOLEAN, NEW saved \in BOOLEAN,
           CreateAvailabilityLink(answers, saved)
    PROVE  SchedulingInv'
<1> DEFINE windows == IF Comparable(answers) THEN FreeSlots(Busy(answers)) ELSE {}
           seen == Known(answers)
<1>1. SchedulingTypes
  BY DEF SchedulingInv
<1>2. seen \in SUBSET (DOMAIN agenda)
  BY <1>1, ListingTells
<1>3. SlotsOK(windows, seen) /\ windows \in SUBSET Windows
  <2> HIDE DEF seen
  <2>1. SlotsOK({}, seen) /\ {} \in SUBSET Windows
    BY <1>2, NothingShown
  <2>2. SlotsOK(FreeSlots(Busy(answers)), seen) /\ FreeSlots(Busy(answers)) \in SUBSET Windows
    BY <1>1, LinkOffersFreeTime DEF seen
  <2> QED
    BY <2>1, <2>2
<1>4. SaveLink("availability", windows, seen, saved)
  BY DEF CreateAvailabilityLink
<1> HIDE DEF windows, seen
<1> QED
  BY <1>2, <1>3, <1>4, SaveLinkKeeps

LEMMA SuggestedKeeps ==
    ASSUME SchedulingInv, NEW m \in Meetings, NEW saved \in BOOLEAN, CreateSuggestedLink(m, saved)
    PROVE  SchedulingInv'
<1>1. {m} \in SUBSET Windows /\ {} \in SUBSET (DOMAIN agenda)
  BY LinkAssumption DEF Windows
<1>2. SaveLink("suggested", {m}, {}, saved)
  BY DEF CreateSuggestedLink
<1> QED
  BY <1>1, <1>2, SaveLinkKeeps

\* Three facts about sequences and numbers.
LEMMA IsSequence ==
    ASSUME NEW S, NEW n \in Nat, NEW f \in [1..n -> S]
    PROVE  f \in Seq(S)
BY SeqDef

LEMMA PairIsSequence ==
    ASSUME NEW S, NEW a \in S, NEW b \in S
    PROVE  << >> \in Seq(S) /\ <<a>> \in Seq(S) /\ <<a, b>> \in Seq(S)
OBVIOUS

LEMMA OneMoreFits ==
    ASSUME NEW n \in Nat, NEW k \in 0..n, k < n
    PROVE  k + 1 \in 0..n
OBVIOUS

\* The events a booking adds.
Booked(v, w, google, saved) ==
    [k \in DOMAIN Copies(google, saved) |-> Event(w, Copies(google, saved)[k], v)]

\* A copy of a booking is an event with the times that were asked for.
LEMMA BookedEvent ==
    ASSUME NEW v \in Visitors, NEW w \in Wishes, NEW c \in {"google", "local", "both"}
    PROVE  LET e == Event(w, c, v) IN e \in Events /\ <<e.from, e.to>> \in Held
<1>1. PICK a \in Nat, b \in Nat : w = <<a, b>>
  BY LinkAssumption
<1>2. Event(w, c, v) = [from |-> a, to |-> b, at |-> c, by |-> v,
                        allDay |-> v = "host" /\ w \in AllDays]
  BY <1>1 DEF Event
<1>3. Event(w, c, v) \in Events
  BY <1>2 DEF Events
<1>4. w \in Held
  BY DEF Held
<1> QED
  BY <1>1, <1>2, <1>3, <1>4

LEMMA BookedEvents ==
    ASSUME NEW v \in Visitors, NEW w \in Wishes, NEW saved \in BOOLEAN,
           NEW google \in {"answers", "fails", "answer lost"}
    PROVE  LET new == Booked(v, w, google, saved)
           IN  /\ new \in Seq(Events)
               /\ \A k \in DOMAIN new : <<new[k].from, new[k].to>> \in Held
<1> DEFINE copies == Copies(google, saved)
           new == [k \in DOMAIN copies |-> Event(w, copies[k], v)]
           Places == {"google", "local", "both"}
<1>1. copies \in Seq(Places)
  <2>1. \/ copies = <<"both">> \/ copies = <<"google">> \/ copies = <<"local">>
        \/ copies = << >> \/ copies = <<"google", "local">>
    BY DEF Copies
  <2>2. /\ << >> \in Seq(Places) /\ <<"both">> \in Seq(Places) /\ <<"google">> \in Seq(Places)
        /\ <<"local">> \in Seq(Places) /\ <<"google", "local">> \in Seq(Places)
    BY PairIsSequence
  <2> HIDE DEF copies
  <2> QED
    BY <2>1, <2>2
<1> HIDE DEF copies, Places
<1>2. /\ DOMAIN copies = 1..Len(copies) /\ Len(copies) \in Nat
      /\ \A k \in DOMAIN copies : copies[k] \in Places
  BY <1>1, LenProperties, ElementOfSeq
<1>3. ASSUME NEW c \in Places
      PROVE  LET e == Event(w, c, v) IN e \in Events /\ <<e.from, e.to>> \in Held
  BY BookedEvent DEF Places
<1>4. new \in [1..Len(copies) -> Events]
  BY <1>2, <1>3
<1>5. \A k \in DOMAIN new : <<new[k].from, new[k].to>> \in Held
  BY <1>2, <1>3
<1>6. new = Booked(v, w, google, saved)
  BY DEF Booked, copies
<1> HIDE DEF new
<1>7. new \in Seq(Events)
  BY <1>2, <1>4, IsSequence
<1> QED
  BY <1>5, <1>6, <1>7

\* A booking, at any time and for any while, is one more, and no page shows more.
LEMMA ConfirmKeeps ==
    ASSUME SchedulingInv, NEW v \in Visitors, NEW w \in Wishes,
           NEW google \in {"answers", "fails", "answer lost"}, NEW answered \in BOOLEAN,
           Confirm(v, w, google, answered)
    PROVE  SchedulingInv'
<1>1. SchedulingTypes
  BY DEF SchedulingInv
<1>2. PICK saved \in BOOLEAN : agenda' = agenda \o Booked(v, w, google, saved)
  BY DEF Confirm, Booked
<1> DEFINE new == Booked(v, w, google, saved)
<1>3. /\ new \in Seq(Events) /\ agenda' = agenda \o new
      /\ \A k \in DOMAIN new : <<new[k].from, new[k].to>> \in Held
  BY <1>2, BookedEvents
<1> HIDE DEF new
<1>4. /\ AgendaGrows /\ agenda' \in Seq(Events)
      /\ \A i \in DOMAIN agenda' : Span(i)' \in Held
  BY <1>1, <1>3, AgendaAdds
<1>5. /\ database' = database /\ links' = links
      /\ bookings < MaxBookings /\ bookings' = bookings + 1
      /\ visit' = [visit EXCEPT ![v] = IF answered THEN Away ELSE visit[v]]
  BY DEF Confirm
<1>6. bookings' \in 0..MaxBookings
  <2>1. MaxBookings \in Nat /\ bookings \in 0..MaxBookings
    BY <1>1, LinkAssumption DEF SchedulingTypes
  <2> QED
    BY <1>5, <2>1, OneMoreFits
<1>7. /\ visit' \in [Visitors -> Screens]
      /\ \A u \in Visitors : visit'[u].pc = "page" => visit'[u] = visit[u]
  BY <1>1, <1>5, AwayIsScreen DEF SchedulingTypes
<1>8. SchedulingTypes'
  BY <1>1, <1>4, <1>5, <1>6, <1>7 DEF SchedulingTypes, Held
<1> QED
  BY <1>4, <1>5, <1>7, <1>8, LinksStay

\* Every step keeps the invariant.
LEMMA LinkStep ==
    ASSUME SchedulingInv, LinksNext
    PROVE  SchedulingInv'
<1>1. ASSUME NEW m \in Meetings, NEW at \in {"google", "both", "local"}, AddMeeting(m, at)
      PROVE  SchedulingInv'
  BY <1>1, MeetingKeeps
<1>2. ASSUME NEW m \in Meetings, NEW saved \in BOOLEAN, CreateSuggestedLink(m, saved)
      PROVE  SchedulingInv'
  BY <1>2, SuggestedKeeps
<1>3. ASSUME NEW answers \in BOOLEAN, NEW saved \in BOOLEAN,
             CreateAvailabilityLink(answers, saved)
      PROVE  SchedulingInv'
  BY <1>3, AvailabilityKeeps
<1>4. ASSUME NEW n, DeleteLink(n) \/ LinkLapses(n)
      PROVE  SchedulingInv'
  BY <1>4, LinkStatusKeeps DEF DeleteLink, LinkLapses
<1>5. ASSUME NEW v \in Visitors, NEW n \in 1..MaxLinks, OpenLink(v, n)
      PROVE  SchedulingInv'
  BY <1>5, OpenLinkKeeps
<1>6. ASSUME NEW v \in Visitors, BookByLink(v) \/ Leave(v)
      PROVE  SchedulingInv'
  BY <1>6, ScreenKeeps, AwayIsScreen DEF BookByLink, Leave
<1>7. ASSUME NEW v \in Visitors, NEW answers \in BOOLEAN, OpenPage(v, answers)
      PROVE  SchedulingInv'
  BY <1>7, OpenPageKeeps
<1>8. ASSUME NEW v \in Visitors, NEW w \in Wishes,
             NEW google \in {"answers", "fails", "answer lost"}, NEW answered \in BOOLEAN,
             Confirm(v, w, google, answered)
      PROVE  SchedulingInv'
  BY <1>8, ConfirmKeeps
<1> QED
  BY <1>1, <1>2, <1>3, <1>4, <1>5, <1>6, <1>7, <1>8 DEF LinksNext

LEMMA StepKeepsSchedulingInv == SchedulingInv /\ [LinksNext]_linkVars => SchedulingInv'
<1> SUFFICES ASSUME SchedulingInv, UNCHANGED linkVars PROVE SchedulingInv'
  BY LinkStep
<1> QED
  BY DEF linkVars, SchedulingInv, SchedulingTypes, PageOK, SlotsOK, FreeOf, FreeOfListed,
         AllForward, Span

-----------------------------------------------------------------------------
(* Links, pages and bookings: theorems *)

\* At every moment what a page or a link offers is free of what the listing told,
\* apart and not too much.
THEOREM SchedulingInvAlways == LinksSpec => []SchedulingInv
BY InitSchedulingInv, StepKeepsSchedulingInv, PTL DEF LinksSpec

\* Events, links, pages and the count of bookings are of their types.
THEOREM LinksTyped == LinksSpec => []LinksTypeOK
<1>1. SchedulingInv => LinksTypeOK
  <2> SUFFICES ASSUME SchedulingInv PROVE LinksTypeOK
    OBVIOUS
  <2>1. \A i \in DOMAIN agenda : agenda[i] \in Events
    BY LenProperties, ElementOfSeq DEF SchedulingInv, SchedulingTypes
  <2>2. \A n \in DOMAIN links : links[n] \in LinkRecords
    BY LenProperties, ElementOfSeq DEF SchedulingInv, SchedulingTypes
  <2> QED
    BY <2>1, <2>2 DEF SchedulingInv, SchedulingTypes, LinksTypeOK, Events, LinkRecords, Screens
<1> QED
  BY <1>1, SchedulingInvAlways, PTL

\* What a page offers is free of every event that its listing had to know, and a link
\* of those of them that a listing reaches; the windows of a page are apart unless a
\* booking ends before it begins, and the slots of a link are apart and no more than it
\* may offer: for every calendar, near or far, and whatever people book.
THEOREM OfferedTimeIsFree == LinksSpec => []OfferedSlotsFree
<1>1. SchedulingInv => OfferedSlotsFree
  BY DEF SchedulingInv, OfferedSlotsFree, PageOK, SlotsOK, Apart, FreeOf, FreeOfListed,
         AllForward
<1> QED
  BY <1>1, SchedulingInvAlways, PTL

-----------------------------------------------------------------------------
(* Onboarding: the inductive invariant *)

TaskRecords == [pc : TaskSteps, edit : BOOLEAN, next : Statuses,
                loaded : Statuses, texts : SUBSET Kinds, found : SUBSET Kinds]

\* A task that will replace the status in_progress by a final one.
WillEnd(r) ==
    /\ ~task[r].edit
    /\ \/ task[r].pc \in {"gather", "generate", "load guides", "save guides"}
       \/ task[r].pc = "load status" /\ task[r].next \in Final
       \/ task[r].pc = "save status" /\ task[r].next \in Final /\ task[r].loaded = "in_progress"

\* One save of guides at a time, which knows the rows there are, and one row of each.
GuidesOnce ==
    /\ \A k \in Kinds : guides[k] <= 1
    /\ \A r, s \in Onboardings : TaskAt(r, "save guides") /\ TaskAt(s, "save guides") => r = s
    /\ \A r \in Onboardings : TaskAt(r, "save guides") =>
         \A k \in Kinds : k \in task[r].found <=> k \in task[r].texts /\ guides[k] > 0

\* A status in_progress is in the hands of a task.
InHand == status = "in_progress" => \E r \in Onboardings : WillEnd(r)

\* An edit touches the guides only; a task is out for in_progress or for a final status.
TaskOK(t) ==
    /\ t \in TaskRecords
    /\ t.edit => t.pc \in {"load guides", "save guides"}
    /\ t.next \in {"in_progress"} \cup Final

OnboardingInv ==
    /\ OnboardingTypeOK
    /\ \A r \in Onboardings : TaskOK(task[r])
    /\ ~spoiled => GuidesOnce /\ InHand

-----------------------------------------------------------------------------
(* Onboarding: each step keeps the invariant *)

LEMMA NoTaskOK == TaskOK(NoTask) /\ NoTask.pc = "idle"
BY DEF NoTask, TaskOK, TaskRecords, TaskSteps, Statuses, Final, Kinds

LEMMA InitOnboardingInv == OnboardingInit => OnboardingInv
<1> SUFFICES ASSUME OnboardingInit PROVE OnboardingInv
  OBVIOUS
<1>1. /\ NoTask \in TaskRecords /\ MaxOnboardings \in Nat /\ 0 \in 0..MaxOnboardings
  BY NoTaskOK, OnboardingBounds DEF TaskOK
<1>2. OnboardingTypeOK
  BY <1>1 DEF OnboardingTypeOK, OnboardingInit, TaskRecords, Statuses
<1>3. \A r \in Onboardings : TaskOK(task[r]) /\ task[r].pc = "idle"
  BY NoTaskOK DEF OnboardingInit
<1>4. GuidesOnce
  <2>1. \A r \in Onboardings : ~TaskAt(r, "save guides")
    BY <1>3 DEF TaskAt
  <2>2. \A k \in Kinds : guides[k] <= 1
    BY DEF OnboardingInit
  <2> QED
    BY <2>1, <2>2 DEF GuidesOnce
<1>5. InHand
  BY DEF InHand, OnboardingInit
<1> QED
  BY <1>2, <1>3, <1>4, <1>5 DEF OnboardingInv

\* A step of the task at r, which becomes t: what of the types and the tasks is left
\* to say.
LEMMA TaskTypes ==
    ASSUME OnboardingInv, NEW r \in Onboardings, NEW t, TaskOK(t),
           task' = [task EXCEPT ![r] = t], status' \in Statuses, guides' \in [Kinds -> Nat],
           tasks' \in 0..MaxOnboardings, spoiled' \in BOOLEAN
    PROVE  /\ OnboardingTypeOK' /\ \A s \in Onboardings : TaskOK(task'[s])
           /\ \A s \in Onboardings : task'[s] = IF s = r THEN t ELSE task[s]
<1>1. task \in [Onboardings -> TaskRecords] /\ t \in TaskRecords
  BY DEF OnboardingInv, OnboardingTypeOK, TaskRecords, TaskOK
<1>2. \A s \in Onboardings : task'[s] = IF s = r THEN t ELSE task[s]
  BY <1>1
<1>3. task' \in [Onboardings -> TaskRecords]
  BY <1>1
<1> QED
  BY <1>2, <1>3 DEF OnboardingTypeOK, TaskRecords, OnboardingInv

\* A step that leaves status and guides alone, of a task that is not saving guides
\* before or after it, and will end the onboarding if it would before.
LEMMA QuietKeeps ==
    ASSUME OnboardingInv, NEW r \in Onboardings, NEW t, TaskOK(t),
           task' = [task EXCEPT ![r] = t], UNCHANGED <<status, guides>>,
           tasks' \in 0..MaxOnboardings, spoiled' \in BOOLEAN, spoiled => spoiled',
           t.pc # "save guides",
           ~spoiled' /\ WillEnd(r) => WillEnd(r)'
    PROVE  OnboardingInv'
<1>1. status' \in Statuses /\ guides' \in [Kinds -> Nat]
  BY DEF OnboardingInv, OnboardingTypeOK
<1>2. /\ OnboardingTypeOK' /\ \A s \in Onboardings : TaskOK(task[s])'
      /\ \A s \in Onboardings : task'[s] = IF s = r THEN t ELSE task[s]
  BY <1>1, TaskTypes
<1>3. ASSUME ~spoiled' PROVE GuidesOnce' /\ InHand'
  <2>1. GuidesOnce /\ InHand
    BY <1>3 DEF OnboardingInv
  <2>2. GuidesOnce'
    BY <1>2, <2>1 DEF GuidesOnce, TaskAt
  <2>3. \A s \in Onboardings : WillEnd(s) => WillEnd(s)'
    BY <1>2, <1>3 DEF WillEnd
  <2> QED
    BY <2>1, <2>2, <2>3 DEF InHand
<1> QED
  BY <1>2, <1>3 DEF OnboardingInv

LEMMA BeginKeepsTasks ==
    ASSUME OnboardingInv, NEW r \in Onboardings, NEW t, TaskOK(t), t.pc # "save guides",
           BeginTask(r, t)
    PROVE  OnboardingInv'
<1>1. tasks' \in 0..MaxOnboardings
  <2>1. tasks \in 0..MaxOnboardings /\ MaxOnboardings \in Nat
    BY OnboardingBounds DEF OnboardingInv, OnboardingTypeOK
  <2>2. tasks < MaxOnboardings /\ tasks' = tasks + 1
    BY DEF BeginTask
  <2> QED
    BY ONLY <2>1, <2>2
<1>2. ~WillEnd(r)
  BY DEF BeginTask, TaskAt, WillEnd
<1> QED
  BY <1>1, <1>2, QuietKeeps DEF BeginTask, OnboardingInv, OnboardingTypeOK

LEMMA LoadStatusKeeps ==
    ASSUME OnboardingInv, NEW r \in Onboardings, LoadStatus(r)
    PROVE  OnboardingInv'
<1> DEFINE t == [task[r] EXCEPT !.pc = "save status", !.loaded = status]
<1>1. TaskOK(task[r]) /\ task[r].pc = "load status" /\ ~task[r].edit
  BY DEF OnboardingInv, LoadStatus, TaskAt, TaskOK
<1>2. TaskOK(t) /\ t.pc = "save status" /\ t.next = task[r].next /\ t.loaded = status
      /\ t.edit = task[r].edit
  BY <1>1 DEF TaskOK, TaskRecords, TaskSteps, OnboardingInv, OnboardingTypeOK
<1>3. task' = [task EXCEPT ![r] = t] /\ UNCHANGED <<status, guides, tasks, spoiled>>
  BY DEF LoadStatus
<1> HIDE DEF t
<1>4. /\ OnboardingTypeOK' /\ \A s \in Onboardings : TaskOK(task[s])'
      /\ \A s \in Onboardings : task'[s] = IF s = r THEN t ELSE task[s]
  BY <1>2, <1>3, TaskTypes DEF OnboardingInv, OnboardingTypeOK
<1>5. ASSUME ~spoiled' PROVE GuidesOnce' /\ InHand'
  <2>1. GuidesOnce /\ InHand
    BY <1>3, <1>5 DEF OnboardingInv
  <2>2. GuidesOnce'
    <3>1. \A s \in Onboardings : TaskAt(s, "save guides")' =>
            TaskAt(s, "save guides") /\ task'[s] = task[s]
      BY <1>2, <1>4 DEF TaskAt
    <3> QED
      BY <1>3, <2>1, <3>1 DEF GuidesOnce
  <2>3. ASSUME status = "in_progress" PROVE \A s \in Onboardings : WillEnd(s) => WillEnd(s)'
    BY <1>1, <1>2, <1>4, <2>3 DEF WillEnd
  <2> QED
    BY <1>3, <2>1, <2>2, <2>3 DEF InHand
<1> QED
  BY <1>4, <1>5 DEF OnboardingInv

\* A final status replaces in_progress, unless somebody else has written meanwhile.
LEMMA SaveStatusKeeps ==
    ASSUME OnboardingInv, NEW r \in Onboardings, NEW committed \in BOOLEAN,
           SaveStatus(r, committed)
    PROVE  OnboardingInv'
<1> DEFINE t == IF task[r].next \in Final THEN NoTask ELSE [task[r] EXCEPT !.pc = "gather"]
<1>1. TaskOK(task[r]) /\ task[r].pc = "save status" /\ ~task[r].edit
  BY DEF OnboardingInv, SaveStatus, TaskAt, TaskOK
<1>2. TaskOK(t) /\ t.pc # "save guides"
  BY <1>1, NoTaskOK DEF TaskOK, TaskRecords, TaskSteps
<1>3. /\ task' = [task EXCEPT ![r] = t] /\ UNCHANGED <<guides, tasks>>
      /\ status' = IF committed THEN Written(r) ELSE status
      /\ spoiled' = (spoiled \/ (~committed /\ task[r].next \in Final))
  BY DEF SaveStatus
<1>4. status' \in Statuses
  BY <1>1, <1>3 DEF Written, OnboardingInv, OnboardingTypeOK, TaskOK, Statuses, Final
<1>5. task[r].next \notin Final => t.pc = "gather" /\ ~t.edit
  BY <1>1 DEF TaskOK, TaskRecords
<1> HIDE DEF t
<1>6. /\ OnboardingTypeOK' /\ \A s \in Onboardings : TaskOK(task[s])'
      /\ \A s \in Onboardings : task'[s] = IF s = r THEN t ELSE task[s]
  <2>1. spoiled' \in BOOLEAN
    BY <1>3 DEF OnboardingInv, OnboardingTypeOK
  <2> QED
    BY <1>2, <1>3, <1>4, <2>1, TaskTypes DEF OnboardingInv, OnboardingTypeOK
<1>7. ASSUME ~spoiled' PROVE GuidesOnce' /\ InHand'
  <2>1. GuidesOnce /\ InHand /\ (task[r].next \in Final => committed)
    BY <1>3, <1>7 DEF OnboardingInv
  <2>2. GuidesOnce'
    BY <1>2, <1>3, <1>6, <2>1 DEF GuidesOnce, TaskAt
  <2>3. CASE task[r].next \notin Final
    BY <1>5, <1>6, <2>2, <2>3 DEF InHand, WillEnd
  <2>4. CASE task[r].next \in Final
    <3>1. status' = Written(r) /\ task[r].next # "in_progress"
      BY <1>3, <2>1, <2>4 DEF Final
    <3>2. ASSUME status' = "in_progress" PROVE \E s \in Onboardings : WillEnd(s)'
      <4>1. status = "in_progress" /\ task[r].loaded # "in_progress"
        BY <3>1, <3>2 DEF Written
      <4>2. PICK s \in Onboardings : WillEnd(s)
        BY <2>1, <4>1 DEF InHand
      <4>3. s # r
        BY <1>1, <4>1, <4>2 DEF WillEnd
      <4> QED
        BY <1>6, <4>2, <4>3 DEF WillEnd
    <3> QED
      BY <2>2, <3>2 DEF InHand
  <2> QED
    BY <2>2, <2>3, <2>4
<1> QED
  BY <1>6, <1>7 DEF OnboardingInv

LEMMA BetweenKeeps ==
    ASSUME OnboardingInv, NEW r \in Onboardings, Gather(r) \/ Generate(r) \/ BreakOff(r)
    PROVE  OnboardingInv'
<1>1. /\ TaskOK(task[r]) /\ ~task[r].edit /\ task[r] \in TaskRecords
      /\ UNCHANGED <<status, guides, tasks, spoiled>>
      /\ tasks' \in 0..MaxOnboardings /\ spoiled' \in BOOLEAN
  BY DEF OnboardingInv, OnboardingTypeOK, Gather, Generate, BreakOff, TaskAt, TaskOK
<1>2. PICK t : /\ task' = [task EXCEPT ![r] = t] /\ TaskOK(t) /\ ~t.edit
               /\ \/ t.pc \in {"generate", "load guides"}
                  \/ t.pc = "load status" /\ t.next \in Final
  <2>1. CASE Gather(r)
    <3> DEFINE t == [task[r] EXCEPT !.pc = "generate"]
    <3>1. TaskOK(t) /\ ~t.edit /\ t.pc = "generate"
      BY <1>1 DEF TaskOK, TaskRecords, TaskSteps
    <3> QED
      BY <2>1, <3>1 DEF Gather
  <2>2. CASE Generate(r)
    <3>1. PICK texts \in SUBSET Kinds :
            task' = [task EXCEPT ![r].pc = "load guides", ![r].texts = texts]
      BY <2>2 DEF Generate
    <3> DEFINE t == [task[r] EXCEPT !.pc = "load guides", !.texts = texts]
    <3>2. TaskOK(t) /\ ~t.edit /\ t.pc = "load guides"
      BY <1>1 DEF TaskOK, TaskRecords, TaskSteps
    <3> QED
      BY <3>1, <3>2
  <2>3. CASE BreakOff(r)
    <3> DEFINE t == [task[r] EXCEPT !.pc = "load status", !.next = "failed"]
    <3>1. TaskOK(t) /\ ~t.edit /\ t.pc = "load status" /\ t.next \in Final
      BY <1>1 DEF TaskOK, TaskRecords, TaskSteps, Statuses, Final
    <3> QED
      BY <2>3, <3>1 DEF BreakOff
  <2> QED
    BY <2>1, <2>2, <2>3
<1>3. WillEnd(r)'
  <2>1. task'[r] = t
    BY <1>2 DEF OnboardingInv, OnboardingTypeOK
  <2> QED
    BY <1>2, <2>1 DEF WillEnd
<1> QED
  BY <1>1, <1>2, <1>3, QuietKeeps

LEMMA LoadGuidesKeeps ==
    ASSUME OnboardingInv, NEW r \in Onboardings, LoadGuides(r)
    PROVE  OnboardingInv'
<1> DEFINE found == {k \in task[r].texts : guides[k] > 0}
           t == [task[r] EXCEPT !.pc = "save guides", !.found = found]
<1>1. TaskOK(task[r]) /\ task[r].pc = "load guides"
  BY DEF OnboardingInv, LoadGuides, TaskAt
<1>2. /\ TaskOK(t) /\ t.pc = "save guides" /\ t.edit = task[r].edit
      /\ t.texts = task[r].texts /\ t.found = found /\ t.texts \subseteq Kinds
  <2>1. found \subseteq Kinds
    BY <1>1 DEF TaskOK, TaskRecords
  <2> HIDE DEF found
  <2> QED
    BY <1>1, <2>1 DEF TaskOK, TaskRecords, TaskSteps
<1>3. /\ task' = [task EXCEPT ![r] = t] /\ UNCHANGED <<status, guides, tasks>>
      /\ spoiled' = (spoiled \/ \E s \in Onboardings : TaskAt(s, "save guides"))
  BY DEF LoadGuides
<1>4. \A k \in Kinds : k \in t.found <=> k \in t.texts /\ guides[k] > 0
  BY <1>2
<1> HIDE DEF t, found
<1>5. /\ OnboardingTypeOK' /\ \A s \in Onboardings : TaskOK(task[s])'
      /\ \A s \in Onboardings : task'[s] = IF s = r THEN t ELSE task[s]
  <2>1. spoiled' \in BOOLEAN
    BY <1>3 DEF OnboardingInv, OnboardingTypeOK
  <2> QED
    BY <1>2, <1>3, <2>1, TaskTypes DEF OnboardingInv, OnboardingTypeOK
<1>6. ASSUME ~spoiled' PROVE GuidesOnce' /\ InHand'
  <2>1. GuidesOnce /\ InHand /\ \A s \in Onboardings : ~TaskAt(s, "save guides")
    BY <1>3, <1>6 DEF OnboardingInv
  <2>2. GuidesOnce'
    BY <1>3, <1>4, <1>5, <2>1 DEF GuidesOnce, TaskAt
  <2>3. \A s \in Onboardings : WillEnd(s) => WillEnd(s)'
    BY <1>1, <1>2, <1>5 DEF WillEnd
  <2> QED
    BY <1>3, <2>1, <2>2, <2>3 DEF InHand
<1> QED
  BY <1>5, <1>6 DEF OnboardingInv

\* The one save of guides adds rows only of kinds that have none.
LEMMA SaveGuidesKeeps ==
    ASSUME OnboardingInv, NEW r \in Onboardings, NEW committed \in BOOLEAN,
           SaveGuides(r, committed)
    PROVE  OnboardingInv'
<1> DEFINE t == IF task[r].edit THEN NoTask
                ELSE [task[r] EXCEPT !.pc = "load status", !.next = "completed"]
<1>1. TaskOK(task[r]) /\ task[r].pc = "save guides"
  BY DEF OnboardingInv, SaveGuides, TaskAt
<1>2. /\ TaskOK(t) /\ t.pc # "save guides"
      /\ ~task[r].edit => ~t.edit /\ t.pc = "load status" /\ t.next \in Final
  BY <1>1, NoTaskOK DEF TaskOK, TaskRecords, TaskSteps, Statuses, Final
<1>3. /\ task' = [task EXCEPT ![r] = t] /\ UNCHANGED <<status, tasks, spoiled>>
      /\ guides' = [k \in Kinds |->
           guides[k] + (IF committed /\ k \in task[r].texts \ task[r].found THEN 1 ELSE 0)]
  BY DEF SaveGuides
<1> HIDE DEF t
<1>4. guides' \in [Kinds -> Nat]
  BY <1>3 DEF OnboardingInv, OnboardingTypeOK
<1>5. /\ OnboardingTypeOK' /\ \A s \in Onboardings : TaskOK(task[s])'
      /\ \A s \in Onboardings : task'[s] = IF s = r THEN t ELSE task[s]
  BY <1>2, <1>3, <1>4, TaskTypes DEF OnboardingInv, OnboardingTypeOK
<1>6. ASSUME ~spoiled' PROVE GuidesOnce' /\ InHand'
  <2>1. GuidesOnce /\ InHand
    BY <1>3, <1>6 DEF OnboardingInv
  <2>2. \A s \in Onboardings : ~TaskAt(s, "save guides")'
    BY <1>1, <1>2, <1>5, <2>1 DEF GuidesOnce, TaskAt
  <2>3. \A k \in Kinds : guides'[k] <= 1
    <3> SUFFICES ASSUME NEW k \in Kinds PROVE guides'[k] <= 1
      OBVIOUS
    <3>1. guides[k] <= 1 /\ guides[k] \in Nat
      BY <2>1 DEF GuidesOnce, OnboardingInv, OnboardingTypeOK
    <3>2. k \in task[r].texts \ task[r].found => guides[k] = 0
      <4>1. TaskAt(r, "save guides") /\ task[r].texts \subseteq Kinds
        BY <1>1 DEF TaskAt, TaskOK, TaskRecords
      <4>2. k \in task[r].found <=> k \in task[r].texts /\ guides[k] > 0
        BY <2>1, <4>1 DEF GuidesOnce
      <4> QED
        BY <3>1, <4>2
    <3> QED
      BY <1>3, <3>1, <3>2
  <2>4. \A s \in Onboardings : WillEnd(s) => WillEnd(s)'
    BY <1>1, <1>2, <1>5 DEF WillEnd
  <2> QED
    BY <1>3, <2>1, <2>2, <2>3, <2>4 DEF InHand, GuidesOnce
<1> QED
  BY <1>5, <1>6 DEF OnboardingInv

LEMMA TaskDiesKeeps ==
    ASSUME OnboardingInv, NEW r \in Onboardings, TaskDies(r)
    PROVE  OnboardingInv'
<1>1. /\ task' = [task EXCEPT ![r] = NoTask] /\ UNCHANGED <<status, guides, tasks>>
      /\ spoiled' = (spoiled \/ ~task[r].edit)
  BY DEF TaskDies
<1>2. tasks' \in 0..MaxOnboardings /\ spoiled' \in BOOLEAN /\ (spoiled => spoiled')
  BY <1>1 DEF OnboardingInv, OnboardingTypeOK
<1>3. ~spoiled' => ~WillEnd(r)
  BY <1>1 DEF WillEnd
<1> QED
  BY <1>1, <1>2, <1>3, NoTaskOK, QuietKeeps

LEMMA StepKeepsOnboardingInv ==
    OnboardingInv /\ [OnboardingNext]_onboardingVars => OnboardingInv'
<1> SUFFICES ASSUME OnboardingInv, [OnboardingNext]_onboardingVars PROVE OnboardingInv'
  OBVIOUS
<1>1. CASE UNCHANGED onboardingVars
  BY <1>1 DEF onboardingVars, OnboardingInv, OnboardingTypeOK, GuidesOnce, InHand, WillEnd,
              TaskAt
<1>2. ASSUME NEW r \in Onboardings, StartOnboarding(r) PROVE OnboardingInv'
  <2> DEFINE t == [NoTask EXCEPT !.pc = "load status"]
  <2>1. TaskOK(t) /\ t.pc = "load status"
    BY DEF NoTask, TaskOK, TaskRecords, TaskSteps, Statuses, Final, Kinds
  <2>2. BeginTask(r, t)
    BY <1>2 DEF StartOnboarding
  <2> HIDE DEF t
  <2> QED
    BY <2>1, <2>2, BeginKeepsTasks
<1>3. ASSUME NEW r \in Onboardings, NEW k \in Kinds, EditGuide(r, k) PROVE OnboardingInv'
  <2> DEFINE t == [NoTask EXCEPT !.pc = "load guides", !.edit = TRUE, !.texts = {k}]
  <2>1. TaskOK(t) /\ t.pc = "load guides"
    BY DEF NoTask, TaskOK, TaskRecords, TaskSteps, Statuses, Final
  <2>2. BeginTask(r, t)
    BY <1>3 DEF EditGuide
  <2> HIDE DEF t
  <2> QED
    BY <2>1, <2>2, BeginKeepsTasks
<1>4. ASSUME NEW r \in Onboardings, TaskStep(r) \/ TaskDies(r) PROVE OnboardingInv'
  BY <1>4, LoadStatusKeeps, SaveStatusKeeps, BetweenKeeps, LoadGuidesKeeps, SaveGuidesKeeps,
     TaskDiesKeeps DEF TaskStep
<1> QED
  BY <1>1, <1>2, <1>3, <1>4 DEF OnboardingNext

-----------------------------------------------------------------------------
(* Onboarding: theorems *)

\* At every moment one save of guides at a time knows the rows there are, and somebody
\* will replace in_progress, as long as nothing is spoiled.
THEOREM OnboardingInvAlways == OnboardingSpec => []OnboardingInv
BY InitOnboardingInv, StepKeepsOnboardingInv, PTL DEF OnboardingSpec

\* At every moment, unless a task died, a final status was not saved or two saves of
\* guides overlapped, there is one row of each guide at most, and a status of
\* in_progress is in the hands of a task that will replace it: what OnboardingEnds
\* needs besides fairness.
THEOREM OnboardingInGoodHands == OnboardingSpec => [](spoiled \/ (GuidesOnce /\ InHand))
<1>1. OnboardingInv => spoiled \/ (GuidesOnce /\ InHand)
  BY DEF OnboardingInv
<1> QED
  BY <1>1, OnboardingInvAlways, PTL

\* Status, guides and tasks are of their types.
THEOREM OnboardingTyped == OnboardingSpec => []OnboardingTypeOK
<1>1. OnboardingInv => OnboardingTypeOK
  BY DEF OnboardingInv
<1> QED
  BY <1>1, OnboardingInvAlways, PTL


-----------------------------------------------------------------------------
(* Chat hooks: the inductive invariant *)

DeliveryRecords ==
    [pc : HookSteps, hook : BOOLEAN, todo : Seq(Messages), created : BOOLEAN]

\* A request is at a message unless it is idle; a hook's text passes no check and
\* no mark; only a message at its mark has made its event.
DeliveryOK(r) ==
    /\ r \in DeliveryRecords
    /\ r.todo = << >> <=> r.pc = "idle"
    /\ r.hook => r.pc \in {"read", "create"}
    /\ r.created => r.pc = "mark"

HooksTypes ==
    /\ database \in Databases
    /\ processed \subseteq Messages
    /\ delivery \in [Deliveries -> DeliveryRecords]
    /\ \A d \in Deliveries : DeliveryOK(delivery[d])
    /\ made \in [Messages -> Nat]

\* Delivery d has passed the check of m and is not done with it.
Has(d, m) ==
    ~delivery[d].hook /\ delivery[d].pc \in {"owner", "read", "create", "mark"}
    /\ Current(d) = m

\* One delivery at a time has a message; the message has made an event if it is
\* marked, or at its mark after an event, and otherwise none.
OnceSoFar(m) ==
    /\ made[m] \in {0, 1}
    /\ \A d, o \in Deliveries : Has(d, m) /\ Has(o, m) => d = o
    /\ \A d \in Deliveries : Has(d, m) =>
         m \notin processed /\ made[m] = IF delivery[d].created THEN 1 ELSE 0
    /\ m \notin processed /\ (\A d \in Deliveries : ~Has(d, m)) => made[m] = 0

\* On PostgreSQL nothing is marked, and nothing is promised of a message.
Promised(m) == database = "sqlite" /\ m \notin excused

HooksInv == HooksTypes /\ \A m \in Messages : Promised(m) => OnceSoFar(m)

-----------------------------------------------------------------------------
(* Chat hooks: steps *)

\* A step of one delivery that is not about m, or takes no event and no mark of m,
\* and after which d has m only as it had it before.
LEMMA OthersKeep ==
    ASSUME HooksTypes, NEW m \in Messages, OnceSoFar(m), NEW d \in Deliveries,
           NEW r, delivery' = [delivery EXCEPT ![d] = r],
           made'[m] = made[m], (m \in processed') <=> (m \in processed),
           Has(d, m)' <=> Has(d, m),
           Has(d, m) => r.created = delivery[d].created
    PROVE  OnceSoFar(m)'
<1>1. /\ delivery'[d] = r /\ \A o \in Deliveries \ {d} : delivery'[o] = delivery[o]
  BY DEF HooksTypes
<1>2. \A o \in Deliveries : Has(o, m)' <=> Has(o, m)
  BY <1>1 DEF Has, Current
<1>3. \A o \in Deliveries : Has(o, m) => delivery'[o].created = delivery[o].created
  BY <1>1
<1> QED
  BY <1>2, <1>3 DEF OnceSoFar

\* A delivery that gives m up, at a moment when m is marked or has no event.
LEMMA GivesUp ==
    ASSUME HooksTypes, NEW m \in Messages, OnceSoFar(m), NEW d \in Deliveries,
           NEW r, delivery' = [delivery EXCEPT ![d] = r],
           made' = made, ~Has(d, m)', Has(d, m),
           (m \in processed') \/ made[m] = 0
    PROVE  OnceSoFar(m)'
<1>1. /\ delivery'[d] = r /\ \A o \in Deliveries \ {d} : delivery'[o] = delivery[o]
  BY DEF HooksTypes
<1>2. \A o \in Deliveries : ~Has(o, m)'
  <2>1. \A o \in Deliveries \ {d} : Has(o, m)' <=> Has(o, m)
    BY <1>1 DEF Has, Current
  <2> QED
    BY <2>1 DEF OnceSoFar
<1> QED
  BY <1>2 DEF OnceSoFar

\* What NextMessage leaves.
LEMMA NextMessageOK ==
    ASSUME HooksTypes, NEW d \in Deliveries, ~HookAt(d, "idle")
    PROVE  LET rest == Tail(delivery[d].todo)
               r == IF rest = << >> THEN NoDelivery
                    ELSE [NoDelivery EXCEPT !.pc = "check", !.todo = rest]
           IN  DeliveryOK(r) /\ r.pc \in {"idle", "check"} /\ ~r.created
<1>1. delivery[d].todo \in Seq(Messages) /\ delivery[d].todo # << >>
  BY DEF HooksTypes, DeliveryOK, DeliveryRecords, HookAt
<1>2. Tail(delivery[d].todo) \in Seq(Messages)
  BY <1>1, HeadTailProperties
<1> QED
  BY <1>2 DEF NoDelivery, DeliveryOK, DeliveryRecords, HookSteps

\* What NextMessage and the steps between keep of the types.
LEMMA DeliveryTypes ==
    ASSUME HooksTypes, NEW d \in Deliveries, NEW r, DeliveryOK(r),
           delivery' = [delivery EXCEPT ![d] = r],
           processed' \subseteq Messages, made' \in [Messages -> Nat], database' = database
    PROVE  HooksTypes'
<1>1. r \in DeliveryRecords
  BY DEF DeliveryOK
<1>2. delivery' \in [Deliveries -> DeliveryRecords]
  BY <1>1 DEF HooksTypes
<1>3. \A o \in Deliveries : DeliveryOK(delivery'[o])
  BY DEF HooksTypes
<1> QED
  BY <1>2, <1>3 DEF HooksTypes

\* The current message of a request is a message.
LEMMA CurrentIsMessage ==
    ASSUME HooksTypes, NEW d \in Deliveries, ~HookAt(d, "idle")
    PROVE  Current(d) \in Messages
<1>1. delivery[d].todo \in Seq(Messages) /\ delivery[d].todo # << >>
  BY DEF HooksTypes, DeliveryOK, DeliveryRecords, HookAt
<1> QED
  BY <1>1, HeadTailProperties DEF Current

\* The whole record a step leaves.
LEMMA StepRecord ==
    ASSUME HooksTypes, NEW d \in Deliveries, NEW pc, HookGoto(d, pc)
    PROVE  delivery' = [delivery EXCEPT ![d] = [delivery[d] EXCEPT !.pc = pc]]
BY DEF HookGoto

-----------------------------------------------------------------------------
(* Chat hooks: each step keeps the invariant *)

LEMMA InitHooksInv == HooksInit => HooksInv
<1> SUFFICES ASSUME HooksInit PROVE HooksInv
  OBVIOUS
<1>1. DeliveryOK(NoDelivery) /\ NoDelivery.pc = "idle"
  BY DEF NoDelivery, DeliveryOK, DeliveryRecords, HookSteps
<1>2. HooksTypes
  BY <1>1 DEF HooksTypes, HooksInit, DeliveryOK
<1>3. \A d \in Deliveries, m \in Messages : ~Has(d, m)
  BY <1>1 DEF Has, HooksInit
<1> QED
  BY <1>2, <1>3 DEF HooksInv, OnceSoFar, HooksInit

\* A new request has nothing yet, or is a hook's.
LEMMA BeginKeeps ==
    ASSUME HooksInv, NEW d \in Deliveries, NEW r, DeliveryOK(r),
           r.hook \/ r.pc = "check", BeginDelivery(d, r)
    PROVE  HooksInv'
<1>2. HooksTypes /\ delivery' = [delivery EXCEPT ![d] = r] /\ delivery'[d] = r
  BY DEF HooksInv, BeginDelivery, HooksTypes
<1>3. HooksTypes'
  BY <1>2, DeliveryTypes DEF HooksTypes, BeginDelivery
<1>4. ASSUME NEW m \in Messages, Promised(m)' PROVE OnceSoFar(m)'
  <2>1. ~Has(d, m) /\ ~Has(d, m)'
    BY <1>2 DEF Has, BeginDelivery, HookAt
  <2>2. OnceSoFar(m) /\ made'[m] = made[m] /\ ((m \in processed') <=> (m \in processed))
    BY <1>4 DEF HooksInv, BeginDelivery, Promised
  <2> QED
    BY <1>2, <2>1, <2>2, OthersKeep
<1> QED
  BY <1>3, <1>4 DEF HooksInv

\* A check that finds no mark and no other delivery gives the message to this one.
LEMMA CheckKeeps ==
    ASSUME HooksInv, NEW d \in Deliveries, NEW answers \in BOOLEAN,
           CheckDuplicate(d, answers)
    PROVE  HooksInv'
<1> DEFINE c == Current(d)
           rest == Tail(delivery[d].todo)
           next == IF rest = << >> THEN NoDelivery
                   ELSE [NoDelivery EXCEPT !.pc = "check", !.todo = rest]
           owner == [delivery[d] EXCEPT !.pc = "owner"]
           r == IF answers /\ c \in processed THEN next ELSE owner
<1>1. HooksTypes /\ delivery[d].pc = "check" /\ DeliveryOK(delivery[d])
  BY DEF HooksInv, CheckDuplicate, HookAt, HooksTypes
<1>2. DeliveryOK(next) /\ next.pc \in {"idle", "check"}
  BY <1>1, NextMessageOK DEF HookAt
<1>3. /\ DeliveryOK(owner) /\ owner.pc = "owner" /\ owner.created = FALSE
      /\ owner.hook = delivery[d].hook /\ owner.todo = delivery[d].todo
      /\ delivery[d].hook = FALSE
  BY <1>1 DEF DeliveryOK, DeliveryRecords, HookSteps
<1>4. delivery' = [delivery EXCEPT ![d] = r]
  BY <1>1, StepRecord DEF CheckDuplicate, NextMessage
<1>5. DeliveryOK(r)
  BY <1>2, <1>3
<1> HIDE DEF next, owner
<1>6. delivery'[d] = r
  BY <1>1, <1>4 DEF HooksTypes
<1>7. processed' = processed /\ made' = made /\ database' = database
  BY DEF CheckDuplicate
<1>8. HooksTypes'
  <2> HIDE DEF r
  <2> QED
    BY <1>1, <1>4, <1>5, <1>7, DeliveryTypes DEF HooksTypes
<1>9. ASSUME NEW m \in Messages, Promised(m)' PROVE OnceSoFar(m)'
  <2>1. OnceSoFar(m)
    BY <1>9 DEF HooksInv, CheckDuplicate, Promised
  <2>2. ~Has(d, m)
    BY <1>1 DEF Has
  <2>3. CASE (answers /\ c \in processed) \/ c # m
    <3>1. ~Has(d, m)'
      BY <1>2, <1>3, <1>6, <2>3 DEF Has, Current
    <3> HIDE DEF r
    <3> QED
      BY <1>1, <1>4, <1>7, <2>1, <2>2, <3>1, OthersKeep
  <2>4. CASE ~(answers /\ c \in processed) /\ c = m
    <3>1. answers /\ \A o \in Deliveries \ {d} : ~Has(o, m)
      BY <1>1, <1>9, <2>4 DEF Has, HookAt, CheckDuplicate, Promised
    <3>2. m \notin processed /\ made[m] = 0
      BY <2>1, <2>2, <2>4, <3>1 DEF OnceSoFar
    <3>3. delivery'[d].created = FALSE
      BY <1>3, <1>6, <2>4
    <3>4. \A o \in Deliveries \ {d} : ~Has(o, m)'
      <4>1. \A o \in Deliveries \ {d} : delivery'[o] = delivery[o]
        <5> HIDE DEF r
        <5> QED
          BY <1>1, <1>4 DEF HooksTypes
      <4> QED
        BY <3>1, <4>1 DEF Has, Current
    <3> QED
      BY <1>7, <3>2, <3>3, <3>4 DEF OnceSoFar
  <2> QED
    BY <2>3, <2>4
<1> QED
  BY <1>8, <1>9 DEF HooksInv

\* A step that leaves marks and events alone and gives the next message the request,
\* which had no message or one that had made no event.
LEMMA LeavingKeeps ==
    ASSUME HooksInv, NEW d \in Deliveries, ~HookAt(d, "idle"), NextMessage(d),
           delivery[d].hook \/ delivery[d].pc \in {"owner", "read", "create"},
           UNCHANGED <<database, processed, made, excused>>
    PROVE  HooksInv'
<1> DEFINE rest == Tail(delivery[d].todo)
           r == IF rest = << >> THEN NoDelivery
                ELSE [NoDelivery EXCEPT !.pc = "check", !.todo = rest]
<1>1. HooksTypes /\ DeliveryOK(delivery[d])
  BY DEF HooksInv, HooksTypes
<1>2. DeliveryOK(r) /\ r.pc \in {"idle", "check"}
  BY <1>1, NextMessageOK
<1>3. delivery' = [delivery EXCEPT ![d] = r]
  BY DEF NextMessage
<1> HIDE DEF r
<1>4. delivery'[d] = r
  BY <1>1, <1>3 DEF HooksTypes
<1>5. HooksTypes'
  BY <1>1, <1>2, <1>3, DeliveryTypes DEF HooksTypes
<1>6. ASSUME NEW m \in Messages, Promised(m)' PROVE OnceSoFar(m)'
  <2>1. OnceSoFar(m) /\ ~Has(d, m)'
    BY <1>2, <1>4, <1>6 DEF HooksInv, Has, Promised
  <2>2. CASE Has(d, m)
    <3>1. made[m] = 0
      BY <1>1, <2>1, <2>2 DEF OnceSoFar, Has, DeliveryOK
    <3> QED
      BY <1>1, <1>3, <2>1, <2>2, <3>1, GivesUp
  <2>3. CASE ~Has(d, m)
    BY <1>1, <1>3, <2>1, <2>3, OthersKeep
  <2> QED
    BY <2>2, <2>3
<1> QED
  BY <1>5, <1>6 DEF HooksInv

\* A step on to the next step of the same message, with no event made.
LEMMA GoingOnKeeps ==
    ASSUME HooksInv, NEW d \in Deliveries, NEW pc \in {"read", "create", "mark"},
           HookGoto(d, pc), delivery[d].hook => pc \in {"read", "create"},
           delivery[d].pc \in {"owner", "read", "create"},
           UNCHANGED <<database, processed, made, excused>>
    PROVE  HooksInv'
<1> DEFINE r == [delivery[d] EXCEPT !.pc = pc]
<1>1. HooksTypes /\ DeliveryOK(delivery[d])
  BY DEF HooksInv, HooksTypes
<1>2. /\ DeliveryOK(r) /\ r.pc = pc /\ r.created = FALSE
      /\ r.hook = delivery[d].hook /\ r.todo = delivery[d].todo
  BY <1>1 DEF DeliveryOK, DeliveryRecords, HookSteps
<1>3. delivery' = [delivery EXCEPT ![d] = r]
  BY <1>1, StepRecord
<1> HIDE DEF r
<1>4. delivery'[d] = r
  BY <1>1, <1>3 DEF HooksTypes
<1>5. HooksTypes'
  BY <1>1, <1>2, <1>3, DeliveryTypes DEF HooksTypes
<1>6. ASSUME NEW m \in Messages, Promised(m)' PROVE OnceSoFar(m)'
  <2>1. OnceSoFar(m) /\ (Has(d, m)' <=> Has(d, m))
    BY <1>2, <1>4, <1>6 DEF HooksInv, Has, Current, Promised
  <2>2. delivery[d].created = FALSE
    BY <1>1 DEF DeliveryOK, DeliveryRecords
  <2> QED
    BY <1>1, <1>2, <1>3, <2>1, <2>2, OthersKeep
<1> QED
  BY <1>5, <1>6 DEF HooksInv

LEMMA OwnerKeeps ==
    ASSUME HooksInv, NEW d \in Deliveries, NEW found \in BOOLEAN, ResolveOwner(d, found)
    PROVE  HooksInv'
<1>1. delivery[d].pc = "owner" /\ DeliveryOK(delivery[d]) /\ ~delivery[d].hook
  BY DEF HooksInv, HooksTypes, ResolveOwner, HookAt, DeliveryOK
<1> QED
  BY <1>1, LeavingKeeps, GoingOnKeeps DEF ResolveOwner, HookAt

LEMMA ReadKeeps ==
    ASSUME HooksInv, NEW d \in Deliveries, NEW reading \in Readings, ReadMessage(d, reading)
    PROVE  HooksInv'
<1>1. delivery[d].pc = "read" /\ ~HookAt(d, "idle")
  BY DEF ReadMessage, HookAt
<1> QED
  BY <1>1, LeavingKeeps, GoingOnKeeps DEF ReadMessage, Readings

\* The one event is made by the delivery that has the message, before its mark.
LEMMA CreateKeeps ==
    ASSUME HooksInv, NEW d \in Deliveries, NEW created \in BOOLEAN,
           CreateFromMessage(d, created)
    PROVE  HooksInv'
<1>1. delivery[d].pc = "create" /\ ~HookAt(d, "idle")
  BY DEF CreateFromMessage, HookAt
<1>2. CASE delivery[d].hook
  BY <1>1, <1>2, LeavingKeeps DEF CreateFromMessage
<1>3. CASE ~delivery[d].hook
  <2> DEFINE c == Current(d)
             r == [delivery[d] EXCEPT !.pc = "mark", !.created = created]
  <2>1. HooksTypes /\ DeliveryOK(delivery[d]) /\ c \in Messages
    BY <1>1, CurrentIsMessage DEF HooksInv, HooksTypes
  <2>2. /\ DeliveryOK(r) /\ r.pc = "mark" /\ r.created = created
        /\ r.hook = FALSE /\ r.todo = delivery[d].todo
    BY <1>1, <1>3, <2>1 DEF DeliveryOK, DeliveryRecords, HookSteps
  <2>3. /\ delivery' = [delivery EXCEPT ![d] = r]
        /\ made' = IF created THEN [made EXCEPT ![c] = @ + 1] ELSE made
        /\ processed' = processed /\ excused' = excused /\ database' = database
    BY <1>3 DEF CreateFromMessage
  <2> HIDE DEF r
  <2>4. delivery'[d] = r /\ \A o \in Deliveries \ {d} : delivery'[o] = delivery[o]
    BY <2>1, <2>3 DEF HooksTypes
  <2>5. made' \in [Messages -> Nat]
    <3>1. made[c] + 1 \in Nat /\ made \in [Messages -> Nat]
      BY <2>1 DEF HooksTypes
    <3>2. [made EXCEPT ![c] = @ + 1] = [m \in Messages |-> IF m = c THEN made[c] + 1 ELSE made[m]]
      BY <2>1, <3>1
    <3> QED
      BY <2>3, <3>1, <3>2
  <2>6. HooksTypes'
    BY <2>1, <2>2, <2>3, <2>5, DeliveryTypes DEF HooksTypes
  <2>7. ASSUME NEW m \in Messages, Promised(m)' PROVE OnceSoFar(m)'
    <3>1. OnceSoFar(m) /\ (Has(d, m)' <=> Has(d, m)) /\ (Has(d, m) <=> m = c)
      BY <1>1, <1>3, <2>2, <2>3, <2>4, <2>7 DEF HooksInv, Has, Current, Promised
    <3>2. CASE m # c
      <4>1. made'[m] = made[m]
        BY <2>1, <2>3, <3>2 DEF HooksTypes
      <4> QED
        BY <2>1, <2>3, <3>1, <3>2, <4>1, OthersKeep
    <3>3. CASE m = c
      <4>1. made[m] = 0 /\ m \notin processed
        BY <1>1, <2>1, <3>1, <3>3 DEF OnceSoFar, DeliveryOK
      <4>2. made'[m] = IF created THEN 1 ELSE 0
        BY <2>1, <2>3, <3>3, <4>1 DEF HooksTypes
      <4>3. \A o \in Deliveries \ {d} : ~Has(o, m)'
        BY <2>4, <3>1, <3>3 DEF OnceSoFar, Has, Current
      <4> QED
        BY <2>2, <2>3, <2>4, <3>1, <3>3, <4>1, <4>2, <4>3 DEF OnceSoFar
    <3> QED
      BY <3>2, <3>3
  <2> QED
    BY <2>6, <2>7 DEF HooksInv
<1> QED
  BY <1>2, <1>3

\* The mark ends the delivery of the message.
LEMMA MarkKeeps ==
    ASSUME HooksInv, NEW d \in Deliveries, NEW committed \in BOOLEAN,
           MarkProcessed(d, committed)
    PROVE  HooksInv'
<1> DEFINE c == Current(d)
           rest == Tail(delivery[d].todo)
           r == IF rest = << >> THEN NoDelivery
                ELSE [NoDelivery EXCEPT !.pc = "check", !.todo = rest]
<1>1. HooksTypes /\ DeliveryOK(delivery[d]) /\ delivery[d].pc = "mark" /\ ~HookAt(d, "idle")
  BY DEF HooksInv, HooksTypes, MarkProcessed, HookAt
<1>2. DeliveryOK(r) /\ r.pc \in {"idle", "check"} /\ c \in Messages
  BY <1>1, NextMessageOK, CurrentIsMessage
<1>3. /\ delivery' = [delivery EXCEPT ![d] = r] /\ made' = made
      /\ processed' = IF committed THEN processed \cup {c} ELSE processed
      /\ excused' = IF committed \/ database = "postgres" THEN excused
                    ELSE excused \cup {c}
      /\ database' = database
  BY DEF NextMessage, MarkProcessed, Unmarked
<1> HIDE DEF r
<1>4. delivery'[d] = r
  BY <1>1, <1>3 DEF HooksTypes
<1>5. HooksTypes'
  BY <1>1, <1>2, <1>3, DeliveryTypes DEF HooksTypes
<1>6. ASSUME NEW m \in Messages, Promised(m)' PROVE OnceSoFar(m)'
  <2>1. OnceSoFar(m) /\ ~Has(d, m)'
    BY <1>2, <1>3, <1>4, <1>6 DEF HooksInv, Has, Promised
  <2>2. CASE m = c
    <3>1. committed /\ m \in processed' /\ Has(d, m)
      BY <1>1, <1>3, <1>6, <2>2 DEF Has, DeliveryOK, Promised
    <3> QED
      BY <1>1, <1>3, <2>1, <3>1, GivesUp
  <2>3. CASE m # c
    <3>1. ~Has(d, m)
      BY <2>3 DEF Has
    <3> QED
      BY <1>1, <1>3, <2>1, <2>3, <3>1, OthersKeep
  <2> QED
    BY <2>2, <2>3
<1> QED
  BY <1>5, <1>6 DEF HooksInv

\* A delivery that breaks off after an event is excused.
LEMMA DiesKeeps ==
    ASSUME HooksInv, NEW d \in Deliveries, HookDies(d)
    PROVE  HooksInv'
<1>1. HooksTypes /\ DeliveryOK(delivery[d])
  BY DEF HooksInv, HooksTypes
<1>2. /\ delivery' = [delivery EXCEPT ![d] = NoDelivery]
      /\ processed' = processed /\ made' = made /\ database' = database
      /\ DeliveryOK(NoDelivery) /\ NoDelivery.pc = "idle"
  BY DEF HookDies, NoDelivery, DeliveryOK, DeliveryRecords, HookSteps
<1>3. delivery'[d] = NoDelivery
  BY <1>1, <1>2 DEF HooksTypes
<1>4. HooksTypes'
  BY <1>1, <1>2, DeliveryTypes DEF HooksTypes
<1>5. ASSUME NEW m \in Messages, Promised(m)' PROVE OnceSoFar(m)'
  <2>1. OnceSoFar(m) /\ ~Has(d, m)'
    BY <1>2, <1>3, <1>5 DEF HooksInv, Has, HookDies, Promised
  <2>2. CASE Has(d, m)
    <3>1. ~delivery[d].created
      BY <1>1, <1>5, <2>2 DEF HookDies, HookAt, Has, DeliveryOK, Promised
    <3>2. made[m] = 0
      BY <2>1, <2>2, <3>1 DEF OnceSoFar
    <3> QED
      BY <1>1, <1>2, <2>1, <2>2, <3>2, GivesUp
  <2>3. CASE ~Has(d, m)
    BY <1>1, <1>2, <2>1, <2>3, OthersKeep
  <2> QED
    BY <2>2, <2>3
<1> QED
  BY <1>4, <1>5 DEF HooksInv

LEMMA StepKeepsHooksInv == HooksInv /\ [HooksNext]_hookVars => HooksInv'
<1> SUFFICES ASSUME HooksInv, [HooksNext]_hookVars PROVE HooksInv'
  OBVIOUS
<1>1. CASE UNCHANGED hookVars
  BY <1>1 DEF hookVars, HooksInv, HooksTypes, OnceSoFar, Has, Current, Promised
<1>2. CASE HooksNext
  <2> PICK d \in Deliveries :
        \/ \E messages \in Batches : Deliver(d, messages) \/ Replay(d, messages)
        \/ \E m \in Messages : PostMessage(d, m)
        \/ \E yes \in BOOLEAN : ProcessMessage(d, yes)
        \/ \E reading \in Readings : ReadMessage(d, reading)
        \/ HookDies(d)
    BY <1>2 DEF HooksNext
  <2>1. CASE \E messages \in Batches : Deliver(d, messages) \/ Replay(d, messages)
    <3> PICK messages \in Batches : Deliver(d, messages) \/ Replay(d, messages)
      BY <2>1
    <3> DEFINE r == [NoDelivery EXCEPT !.pc = "check", !.todo = messages]
    <3>1. messages \in Seq(Messages) /\ messages # << >>
      <4>1. CASE \E m \in Messages : messages = <<m>>
        BY <4>1
      <4>2. CASE \E m, n \in Messages : messages = <<m, n>>
        BY <4>2
      <4> QED
        BY <4>1, <4>2 DEF Batches
    <3>2. DeliveryOK(r) /\ r.pc = "check"
      BY <3>1 DEF NoDelivery, DeliveryOK, DeliveryRecords, HookSteps
    <3>3. BeginDelivery(d, r)
      BY DEF Deliver, Replay
    <3> HIDE DEF r
    <3> QED
      BY <3>2, <3>3, BeginKeeps
  <2>2. CASE \E m \in Messages : PostMessage(d, m)
    <3> PICK m \in Messages : PostMessage(d, m)
      BY <2>2
    <3> DEFINE r == [NoDelivery EXCEPT !.pc = "read", !.hook = TRUE, !.todo = <<m>>]
    <3>0. <<m>> \in Seq(Messages) /\ <<m>> # << >>
      OBVIOUS
    <3>1. DeliveryOK(r) /\ r.hook
      BY <3>0 DEF NoDelivery, DeliveryOK, DeliveryRecords, HookSteps
    <3>2. BeginDelivery(d, r)
      BY DEF PostMessage
    <3> HIDE DEF r
    <3> QED
      BY <3>1, <3>2, BeginKeeps
  <2>3. CASE \E yes \in BOOLEAN : ProcessMessage(d, yes)
    BY <2>3, CheckKeeps, OwnerKeeps, CreateKeeps, MarkKeeps DEF ProcessMessage
  <2>4. CASE \E reading \in Readings : ReadMessage(d, reading)
    BY <2>4, ReadKeeps
  <2>5. CASE HookDies(d)
    BY <2>5, DiesKeeps
  <2> QED
    BY <2>1, <2>2, <2>3, <2>4, <2>5
<1> QED
  BY <1>1, <1>2

-----------------------------------------------------------------------------
(* Chat hooks: theorems *)

\* On SQLite, at every moment each message that nothing excuses is with one delivery
\* at most, and has made an event only if it is marked or at its mark.
THEOREM HooksInvAlways == HooksSpec => []HooksInv
BY InitHooksInv, StepKeepsHooksInv, PTL DEF HooksSpec

\* On SQLite, however often Meta delivers a WhatsApp message and a user replays it, it
\* makes one event, unless its check or its mark failed, deliveries of it overlapped, or
\* one broke off between event and mark.
THEOREM OneEventPerMessage == HooksSpec => []WhatsAppOnce
<1>1. HooksInv => WhatsAppOnce
  BY DEF HooksInv, OnceSoFar, WhatsAppOnce, Promised
<1> QED
  BY <1>1, HooksInvAlways, PTL

\* The requests are counted up to their bound, and only messages are excused.
HooksHistory == deliveries \in 0..MaxDeliveries /\ excused \subseteq Messages

LEMMA StepKeepsHooksHistory ==
    HooksInv /\ HooksHistory /\ [HooksNext]_hookVars => HooksHistory'
<1> SUFFICES ASSUME HooksInv, HooksHistory, [HooksNext]_hookVars PROVE HooksHistory'
  OBVIOUS
<1>1. CASE UNCHANGED hookVars
  BY <1>1 DEF hookVars, HooksHistory
<1>2. ASSUME NEW d \in Deliveries, NEW r, BeginDelivery(d, r) PROVE HooksHistory'
  <2>1. deliveries \in 0..MaxDeliveries /\ MaxDeliveries \in Nat
    BY HookBounds DEF HooksHistory
  <2>2. deliveries < MaxDeliveries /\ deliveries' = deliveries + 1 /\ excused' = excused
    BY <1>2 DEF BeginDelivery
  <2>3. deliveries' \in 0..MaxDeliveries
    BY ONLY <2>1, <2>2
  <2> QED
    BY <2>2, <2>3 DEF HooksHistory
<1>3. ASSUME NEW d \in Deliveries,
             \/ \E yes \in BOOLEAN : ProcessMessage(d, yes)
             \/ \E reading \in Readings : ReadMessage(d, reading)
             \/ HookDies(d)
      PROVE  HooksHistory'
  <2>1. deliveries' = deliveries
    BY <1>3 DEF ProcessMessage, CheckDuplicate, ResolveOwner, ReadMessage, CreateFromMessage,
                MarkProcessed, Unmarked, HookDies
  <2>2. ~HookAt(d, "idle")
    BY <1>3 DEF ProcessMessage, CheckDuplicate, ResolveOwner, ReadMessage, CreateFromMessage,
                MarkProcessed, Unmarked, HookDies, HookAt
  <2>3. Current(d) \in Messages
    BY <2>2, CurrentIsMessage DEF HooksInv
  <2>4. excused' \subseteq excused \cup {Current(d)}
    BY <1>3 DEF ProcessMessage, CheckDuplicate, ResolveOwner, ReadMessage, CreateFromMessage,
                MarkProcessed, Unmarked, HookDies
  <2> QED
    BY <2>1, <2>3, <2>4 DEF HooksHistory
<1> QED
  BY <1>1, <1>2, <1>3 DEF HooksNext, Deliver, Replay, PostMessage

\* Requests, marks and events are of their types.
THEOREM HooksTyped == HooksSpec => []HooksTypeOK
<1>1. HooksInit => HooksHistory
  BY HookBounds DEF HooksInit, HooksHistory
<1>2. HooksInv /\ HooksHistory => HooksTypeOK
  BY DEF HooksInv, HooksTypes, HooksHistory, HooksTypeOK, DeliveryOK, DeliveryRecords
<1> QED
  BY <1>1, <1>2, StepKeepsHooksHistory, HooksInvAlways, PTL DEF HooksSpec

-----------------------------------------------------------------------------
(* The services together *)

\* Whichever service has the focus, a step of all is a step of each or leaves it alone.
LEMMA EachServiceRuns ==
    Spec => AccountsSpec /\ LinksSpec /\ OnboardingSpec /\ HooksSpec
<1>1. Init => AccountsInit /\ LinksInit /\ OnboardingInit /\ HooksInit
  BY DEF Init
<1>2. [Next]_vars => [AccountsNext]_accountVars
  BY DEF Next, vars, accountVars
<1>3. [Next]_vars => [LinksNext]_linkVars
  BY DEF Next, vars, linkVars
<1>4. [Next]_vars => [OnboardingNext]_onboardingVars
  BY DEF Next, vars, onboardingVars
<1>5. [Next]_vars => [HooksNext]_hookVars
  BY DEF Next, vars, hookVars
<1> QED
  BY <1>1, <1>2, <1>3, <1>4, <1>5, PTL
     DEF Spec, AccountsSpec, LinksSpec, OnboardingSpec, HooksSpec

\* However their steps interleave, and not only while one of them has the focus, the
\* four services have the types they have alone.
THEOREM TypesTogether ==
    AccountsSpec /\ LinksSpec /\ OnboardingSpec /\ HooksSpec => []TypeOK
<1>1. AccountsTypeOK /\ LinksTypeOK /\ OnboardingTypeOK /\ HooksTypeOK => TypeOK
  BY DEF TypeOK
<1> QED
  BY <1>1, TypesHold, LinksTyped, OnboardingTyped, HooksTyped, PTL

\* The state of the four services that the runs explore is of its type.
THEOREM ServicesTyped == Spec => []TypeOK
BY EachServiceRuns, TypesTogether, PTL

\* Side by side the services promise what each of them promises alone: reset links
\* work once, offered time is free, the newest grant is used, onboardings are in good
\* hands, and on SQLite a WhatsApp message makes one event.
THEOREM ServicesKeepPromises ==
    Spec => /\ [](ResetLinksWorkOnce /\ NewestGrantIsUsed /\ OfferedSlotsFree /\ WhatsAppOnce)
            /\ [](spoiled \/ (GuidesOnce /\ InHand))
BY EachServiceRuns, LinksWorkOnce, NewestIsUsed, OfferedTimeIsFree, OneEventPerMessage,
   OnboardingInGoodHands, PTL
===============================================================================
