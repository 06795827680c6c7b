----------------------- MODULE EmailIntelligenceProofs -----------------------
(***************************************************************************)
(* For every number of scans, mails and failures and every limit: the      *)
(* email pipeline keeps its types, EmailInv is inductive, and with it an   *)
(* actionable row has a suggestion, and without overlapping scans a mail   *)
(* has one suggestion and one row at most.                                 *)
(***************************************************************************)
EXTENDS EmailIntelligence, SequenceTheorems, FiniteSetTheorems, WellFoundedInduction, TLAPS

-----------------------------------------------------------------------------
(* Helpers *)

\* A scan that is not running is a scan.
LEMMA IdleOK == BoundsAssumption => ScanOK(Idle)
<1> SUFFICES ASSUME BoundsAssumption PROVE ScanOK(Idle)
  OBVIOUS
<1>1. Idle \in ScanRecords
  BY DEF Idle, ScanRecords, Running, Sources, Verdicts, Links
<1>2. Idle.pc = "idle" /\ Idle.todo = {} /\ Idle.source \in Sources
  BY DEF Idle, Sources
<1>3. Cardinality(Idle.todo) = 0 /\ FetchLimit[Idle.source] \in Nat \ {0}
  BY <1>2, FS_EmptySet DEF BoundsAssumption
<1> QED
  BY <1>1, <1>2, <1>3 DEF ScanOK

\* The newest n mails are at most n.
LEMMA NewestBound ==
    ASSUME NEW n \in Nat, BoundsAssumption, inbox \in 0..MaxEmails
    PROVE  /\ IsFiniteSet(Newest(n)) /\ Cardinality(Newest(n)) <= n
           /\ Newest(n) \subseteq Emails
           /\ \A e \in Newest(n) : e <= inbox
<1>1. Newest(n) \subseteq (inbox + 1 - n)..inbox
  BY DEF Newest, Emails, BoundsAssumption
<1>2. /\ inbox + 1 - n \in Int /\ inbox \in Int
      /\ (IF inbox + 1 - n > inbox THEN 0 ELSE inbox - (inbox + 1 - n) + 1) = n
  BY DEF BoundsAssumption
<1>3. IsFiniteSet((inbox + 1 - n)..inbox) /\ Cardinality((inbox + 1 - n)..inbox) = n
  BY <1>2, FS_Interval
<1>4. IsFiniteSet(Newest(n)) /\ Cardinality(Newest(n)) <= n
  BY <1>1, <1>3, FS_Subset
<1> QED
  BY <1>4 DEF Newest

\* What a scan has left when it is done with a mail, or has dropped some, is a
\* scan at its next mail or one that is over.
LEMMA AfterMailOK ==
    ASSUME BoundsAssumption, NEW r, ScanOK(r), NEW rest \in SUBSET r.todo
    PROVE  /\ ScanOK(AfterMail(r, rest))
           /\ AfterMail(r, rest).pc \in {"idle", "analyze"}
           /\ (r.pc = "idle") => AfterMail(r, rest).pc = "idle"
<1>1. /\ r \in ScanRecords
      /\ (r.pc = "idle") <=> (r.todo = {})
      /\ Cardinality(r.todo) <= FetchLimit[r.source]
      /\ \A e \in r.todo : e <= inbox
  BY DEF ScanOK
<1>2. r.todo \in SUBSET Emails /\ r.source \in Sources
  BY <1>1 DEF ScanRecords
<1>3. CASE rest = {}
  BY <1>3, IdleOK DEF AfterMail, Idle
<1>4. CASE rest # {}
  <2> DEFINE a == AfterMail(r, rest)
  <2>1. /\ a \in ScanRecords /\ a.pc = "analyze" /\ a.todo = rest
        /\ a.source = r.source
    BY <1>1, <1>2, <1>4 DEF AfterMail, Idle, ScanRecords, Running, Verdicts, Links
  <2>2. IsFiniteSet(r.todo)
    <3>1. 1 \in Int /\ MaxEmails \in Int
      BY DEF BoundsAssumption
    <3>2. IsFiniteSet(Emails)
      BY <3>1, FS_Interval DEF Emails
    <3> QED
      BY <1>2, <3>2, FS_Subset
  <2>3. /\ Cardinality(rest) \in Nat /\ Cardinality(r.todo) \in Nat
        /\ Cardinality(rest) <= Cardinality(r.todo)
    BY <2>2, FS_Subset, FS_CardinalityType
  <2>4. FetchLimit[r.source] \in Nat
    BY <1>2 DEF BoundsAssumption
  <2>5. Cardinality(rest) <= FetchLimit[r.source]
    BY <1>1, <2>3, <2>4
  <2> HIDE DEF a
  <2>6. ScanOK(a)
    BY <1>1, <1>4, <2>1, <2>5 DEF ScanOK
  <2> QED
    BY <1>1, <1>4, <2>1, <2>6 DEF a
<1> QED
  BY <1>3, <1>4

\* Saving a mail leaves rows, one more unless a row was found, and turns none
\* actionable but for a scan that says so.
LEMMA RowsAfterSave ==
    ASSUME NEW old \in Seq(RowRecords), NEW r \in ScanRecords
    PROVE  LET new == RowsSavedBy(r, old)
           IN  /\ new \in Seq(RowRecords)
               /\ r.found => Len(new) = Len(old)
               /\ ~r.found => Len(new) = Len(old) + 1
               /\ \A i \in DOMAIN new :
                      new[i].actionable =>
                          \/ r.verdict # "skip"
                          \/ i \in DOMAIN old /\ old[i].actionable
<1> DEFINE actionable == r.verdict # "skip"
           new == RowsSavedBy(r, old)
<1>1. /\ DOMAIN old = 1..Len(old) /\ Len(old) \in Nat
      /\ \A i \in 1..Len(old) : old[i] \in RowRecords
  OBVIOUS
<1>2. r.link \in Links /\ actionable \in BOOLEAN
  BY DEF ScanRecords
<1>3. CASE r.found
  <2> DEFINE row == [actionable |-> actionable,
                     link |-> IF r.link = "none" THEN old[1].link ELSE r.link]
  <2>1. new = [old EXCEPT ![1] = row]
    BY <1>3 DEF RowsSavedBy
  <2>2. row.actionable = actionable
    OBVIOUS
  <2>3. CASE 1 \in 1..Len(old)
    <3>1. row \in RowRecords
      BY <1>1, <1>2, <2>3 DEF RowRecords
    <3> HIDE DEF row, new
    <3>2. new \in Seq(RowRecords) /\ Len(new) = Len(old)
      BY <2>1, <2>3, <3>1, ExceptSeq
    <3>3. \A i \in 1..Len(old) : new[i] = IF i = 1 THEN row ELSE old[i]
      BY <1>1, <2>1
    <3>4. ASSUME NEW i \in DOMAIN new, new[i].actionable
          PROVE  actionable \/ (i \in DOMAIN old /\ old[i].actionable)
      <4> HIDE DEF actionable
      <4>1. i \in 1..Len(old)
        BY <1>1, <3>2
      <4>2. CASE i = 1
        BY <2>2, <3>3, <3>4, <4>1, <4>2
      <4>3. CASE i # 1
        BY <1>1, <3>3, <3>4, <4>1, <4>3
      <4> QED
        BY <4>2, <4>3
    <3> QED
      BY <1>3, <3>2, <3>4 DEF new
  <2>4. CASE 1 \notin 1..Len(old)
    <3> HIDE DEF row, new
    <3>1. new = old
      BY <1>1, <2>1, <2>4
    <3> QED
      BY <1>3, <3>1 DEF new
  <2> QED
    BY <2>3, <2>4
<1>4. CASE ~r.found
  <2> DEFINE row == [actionable |-> actionable, link |-> r.link]
  <2>1. new = Append(old, row)
    BY <1>4 DEF RowsSavedBy
  <2>2. row \in RowRecords /\ row.actionable = actionable
    BY <1>2 DEF RowRecords
  <2> HIDE DEF row, new
  <2>3. /\ new \in Seq(RowRecords) /\ Len(new) = Len(old) + 1
        /\ \A i \in 1..Len(old) : new[i] = old[i]
        /\ new[Len(old) + 1] = row
    BY <2>1, <2>2, AppendProperties
  <2>4. DOMAIN new = 1..(Len(old) + 1)
    BY <2>3
  <2>5. ASSUME NEW i \in DOMAIN new, new[i].actionable
        PROVE  actionable \/ (i \in DOMAIN old /\ old[i].actionable)
    <3> HIDE DEF actionable
    <3>1. i \in 1..Len(old) \/ i = Len(old) + 1
      BY <1>1, <2>4
    <3>2. CASE i \in 1..Len(old)
      BY <1>1, <2>3, <2>5, <3>2
    <3>3. CASE i = Len(old) + 1
      BY <2>2, <2>3, <2>5, <3>3
    <3> QED
      BY <3>1, <3>2, <3>3
  <2> QED
    BY <1>4, <2>3, <2>5 DEF new
<1> QED
  BY <1>3, <1>4

-----------------------------------------------------------------------------
(* The invariant *)

\* A step of a running scan keeps the invariant when it leaves a scan r that
\* knows what SuggestionFirst and ChecksHoldWhenSerial ask of it, takes no
\* suggestion away and leaves the tables in order.
LEMMA ScanMoves ==
    ASSUME EmailInv, NEW s \in Scans, NEW r, ScanOK(r),
           scan[s].pc # "idle", scan' = [scan EXCEPT ![s] = r],
           UNCHANGED <<inbox, history>>,
           drafts' \in SUBSET Emails, failures' \in 0..MaxFailures,
           suggestions' \in [Emails -> Nat], scanned' \in [Emails -> Seq(RowRecords)],
           \A e \in Emails : suggestions'[e] >= suggestions[e],
           ActionableRowsHaveSuggestion', SuggestedOnceWhenSerial', OneRowWhenSerial',
           \A e \in Emails :
               (r.pc \in {"load", "save"} /\ r.verdict # "skip" /\ e = Max(r.todo))
                   => suggestions'[e] > 0,
           ~overlapped => \A e \in Emails :
               /\ (r.pc = "insert" /\ e = Max(r.todo)) => suggestions'[e] = 0
               /\ (r.pc = "save" /\ e = Max(r.todo)) =>
                      (r.found <=> scanned'[e] # << >>)
    PROVE  EmailInv'
<1>1. /\ scan \in [Scans -> ScanRecords] /\ r \in ScanRecords
      /\ scan'[s] = r
      /\ \A t \in Scans : t # s => scan'[t] = scan[t]
  BY DEF EmailInv, TypeOK, ScanOK
<1>2. TypeOK'
  <2>1. scan' \in [Scans -> ScanRecords]
    BY <1>1
  <2>2. \A t \in Scans : ScanOK(scan[t])'
    BY <1>1 DEF EmailInv, TypeOK, ScanOK
  <2> QED
    BY <2>1, <2>2 DEF EmailInv, TypeOK, history
<1>3. SuggestionFirst'
  <2> SUFFICES ASSUME NEW t \in Scans, NEW e \in Emails,
                      scan'[t].pc \in {"load", "save"}, scan'[t].verdict # "skip",
                      e = Max(scan'[t].todo)
               PROVE  suggestions'[e] > 0
    BY DEF SuggestionFirst, Current
  <2>1. CASE t = s
    BY <1>1, <2>1
  <2>2. CASE t # s
    <3>1. suggestions[e] > 0
      BY <1>1, <2>2 DEF EmailInv, SuggestionFirst, Current
    <3> QED
      BY <3>1 DEF EmailInv, TypeOK
  <2> QED
    BY <2>1, <2>2
<1>4. OneScanWhenSerial'
  <2> SUFFICES ASSUME ~overlapped, NEW t \in Scans, NEW u \in Scans,
                      scan'[t].pc # "idle", scan'[u].pc # "idle"
               PROVE  t = u
    BY DEF OneScanWhenSerial, history
  <2> QED
    BY <1>1 DEF EmailInv, OneScanWhenSerial
<1>5. ChecksHoldWhenSerial'
  <2> SUFFICES ASSUME ~overlapped, NEW t \in Scans, NEW e \in Emails,
                      scan'[t].pc # "idle"
               PROVE  /\ (scan'[t].pc = "insert" /\ e = Max(scan'[t].todo))
                             => suggestions'[e] = 0
                      /\ (scan'[t].pc = "save" /\ e = Max(scan'[t].todo))
                             => (scan'[t].found <=> scanned'[e] # << >>)
    BY DEF ChecksHoldWhenSerial, Current, history
  <2>1. t = s
    BY <1>1 DEF EmailInv, OneScanWhenSerial
  <2> QED
    BY <1>1, <2>1
<1> QED
  BY <1>2, <1>3, <1>4, <1>5 DEF EmailInv

\* The same for a step that leaves the tables alone.
LEMMA ScanMovesOnly ==
    ASSUME EmailInv, NEW s \in Scans, NEW r, ScanOK(r),
           scan[s].pc # "idle", scan' = [scan EXCEPT ![s] = r],
           UNCHANGED <<inbox, suggestions, scanned, history>>,
           drafts' \in SUBSET Emails, failures' \in 0..MaxFailures,
           \A e \in Emails :
               (r.pc \in {"load", "save"} /\ r.verdict # "skip" /\ e = Max(r.todo))
                   => suggestions[e] > 0,
           ~overlapped => \A e \in Emails :
               /\ (r.pc = "insert" /\ e = Max(r.todo)) => suggestions[e] = 0
               /\ (r.pc = "save" /\ e = Max(r.todo)) =>
                      (r.found <=> scanned[e] # << >>)
    PROVE  EmailInv'
<1>1. /\ suggestions' \in [Emails -> Nat]
      /\ scanned' \in [Emails -> Seq(RowRecords)]
      /\ \A e \in Emails : suggestions'[e] >= suggestions[e]
  BY DEF EmailInv, TypeOK
<1>2. ActionableRowsHaveSuggestion' /\ SuggestedOnceWhenSerial' /\ OneRowWhenSerial'
  BY DEF EmailInv, ActionableRowsHaveSuggestion, SuggestedOnceWhenSerial,
         OneRowWhenSerial, history
<1>3. \A e \in Emails :
          (r.pc \in {"load", "save"} /\ r.verdict # "skip" /\ e = Max(r.todo))
              => suggestions'[e] > 0
  OBVIOUS
<1>4. ~overlapped => \A e \in Emails :
          /\ (r.pc = "insert" /\ e = Max(r.todo)) => suggestions'[e] = 0
          /\ (r.pc = "save" /\ e = Max(r.todo)) =>
                 (r.found <=> scanned'[e] # << >>)
  OBVIOUS
<1> QED
  BY <1>1, <1>2, <1>3, <1>4, ScanMoves

\* The same for a scan that is done with its mail, or has dropped some.
LEMMA ScanGoesOn ==
    ASSUME BoundsAssumption, EmailInv, NEW s \in Scans,
           NEW rest \in SUBSET scan[s].todo,
           scan[s].pc # "idle", scan' = [scan EXCEPT ![s] = AfterMail(scan[s], rest)],
           UNCHANGED <<inbox, tables, history>>, failures' \in 0..MaxFailures
    PROVE  EmailInv'
<1> DEFINE r == AfterMail(scan[s], rest)
<1>1. ScanOK(r) /\ r.pc \in {"idle", "analyze"}
  <2>1. ScanOK(scan[s])
    BY DEF EmailInv, TypeOK
  <2> QED
    BY <2>1, AfterMailOK
<1>2. UNCHANGED <<inbox, suggestions, scanned, history>> /\ drafts' \in SUBSET Emails
  BY DEF tables, EmailInv, TypeOK
<1>3. scan' = [scan EXCEPT ![s] = r]
  OBVIOUS
<1> HIDE DEF r
<1> QED
  BY <1>1, <1>2, <1>3, ScanMovesOnly

\* A step that changes how far a scan is with its mail, but not its mails.
LEMMA SameMail ==
    ASSUME BoundsAssumption, EmailInv, NEW s \in Scans, NEW r,
           scan[s].pc # "idle", r.pc \in Running, r.verdict \in Verdicts,
           r.link \in Links, r.found \in BOOLEAN,
           r = [scan[s] EXCEPT !.pc = r.pc, !.verdict = r.verdict,
                               !.link = r.link, !.found = r.found]
    PROVE  ScanOK(r) /\ r.todo = scan[s].todo
<1>1. ScanOK(scan[s]) /\ scan[s] \in ScanRecords
  BY DEF EmailInv, TypeOK
<1>2. r \in ScanRecords /\ r.todo = scan[s].todo /\ r.source = scan[s].source
  BY <1>1 DEF ScanRecords
<1>3. r.pc # "idle"
  BY DEF Running
<1> QED
  BY <1>1, <1>2, <1>3 DEF ScanOK

-----------------------------------------------------------------------------
(* The steps *)

\* A scan begins with at most the mails it may ask for.
LEMMA BeginScanInv ==
    ASSUME BoundsAssumption, SlotsAssumption, EmailInv, NEW s \in Scans,
           NEW source \in Sources, NEW rescan \in BOOLEAN,
           NEW listed \in SUBSET Newest(FetchLimit[source]),
           BeginScan(s, source, rescan, listed)
    PROVE  EmailInv'
<1> DEFINE r == [Idle EXCEPT !.pc = IF rescan THEN "analyze" ELSE "filter",
                             !.source = source, !.todo = listed]
<1>1. /\ scan[s].pc = "idle" /\ listed # {}
      /\ scan' = [scan EXCEPT ![s] = r]
      /\ overlapped' = (overlapped \/ \E t \in Scans : scan[t].pc # "idle")
      /\ rescanned' = (rescanned \/ rescan)
      /\ UNCHANGED <<inbox, suggestions, scanned, drafts, failures>>
  BY DEF BeginScan, tables
<1>2. /\ r.pc \in {"filter", "analyze"} /\ r.todo = listed /\ r.source = source
      /\ listed \in SUBSET Emails => r \in ScanRecords
  BY DEF Idle, ScanRecords, Running, Verdicts, Links
<1> HIDE DEF r
<1>3. ScanOK(r)
  <2>1. FetchLimit[source] \in Nat /\ inbox \in 0..MaxEmails
    BY DEF BoundsAssumption, EmailInv, TypeOK
  <2>2. /\ IsFiniteSet(Newest(FetchLimit[source]))
        /\ Cardinality(Newest(FetchLimit[source])) <= FetchLimit[source]
        /\ listed \subseteq Emails
        /\ \A e \in listed : e <= inbox
    BY <2>1, NewestBound
  <2>3. /\ Cardinality(listed) <= Cardinality(Newest(FetchLimit[source]))
        /\ Cardinality(listed) \in Nat
        /\ Cardinality(Newest(FetchLimit[source])) \in Nat
    BY <2>2, FS_Subset, FS_CardinalityType
  <2>4. r \in ScanRecords
    BY <1>2, <2>2
  <2>5. Cardinality(r.todo) <= FetchLimit[r.source]
    BY <1>2, <2>1, <2>2, <2>3
  <2> QED
    BY <1>1, <1>2, <2>2, <2>4, <2>5 DEF ScanOK
<1>4. /\ scan \in [Scans -> ScanRecords] /\ r \in ScanRecords /\ scan'[s] = r
      /\ \A t \in Scans : t # s => scan'[t] = scan[t]
  BY <1>1, <1>3 DEF EmailInv, TypeOK, ScanOK
<1>5. TypeOK'
  <2>1. scan' \in [Scans -> ScanRecords]
    BY <1>1, <1>4
  <2>2. \A t \in Scans : ScanOK(scan[t])'
    BY <1>1, <1>3, <1>4 DEF EmailInv, TypeOK, ScanOK
  <2> QED
    BY <1>1, <2>1, <2>2 DEF EmailInv, TypeOK
<1>6. ActionableRowsHaveSuggestion' /\ SuggestedOnceWhenSerial' /\ OneRowWhenSerial'
  BY <1>1 DEF EmailInv, ActionableRowsHaveSuggestion, SuggestedOnceWhenSerial,
              OneRowWhenSerial, TypeOK
<1>7. SuggestionFirst'
  BY <1>1, <1>2, <1>4 DEF EmailInv, SuggestionFirst, Current
<1>8. ~overlapped' => ~overlapped /\ \A t \in Scans : t # s => scan'[t].pc = "idle"
  BY <1>1, <1>4 DEF EmailInv, TypeOK
<1>9. OneScanWhenSerial'
  BY <1>8 DEF OneScanWhenSerial
<1>10. ChecksHoldWhenSerial'
  BY <1>2, <1>4, <1>8 DEF ChecksHoldWhenSerial
<1> QED
  BY <1>5, <1>6, <1>7, <1>9, <1>10 DEF EmailInv

LEMMA FilterProcessedInv ==
    ASSUME BoundsAssumption, EmailInv, NEW s \in Scans, FilterProcessed(s)
    PROVE  EmailInv'
<1>1. /\ scan[s].pc # "idle"
      /\ scan' = [scan EXCEPT ![s] =
             AfterMail(scan[s], {e \in scan[s].todo : scanned[e] = << >>})]
      /\ UNCHANGED <<inbox, tables, history>> /\ failures' \in 0..MaxFailures
  BY DEF FilterProcessed, EmailInv, TypeOK
<1>2. {e \in scan[s].todo : scanned[e] = << >>} \in SUBSET scan[s].todo
  OBVIOUS
<1> QED
  BY <1>1, <1>2, ScanGoesOn

\* What NextMail does, whatever the mail was.
LEMMA NextMailGoesOn ==
    ASSUME BoundsAssumption, EmailInv, NEW s \in Scans, scan[s].pc # "idle",
           NextMail(s), UNCHANGED <<inbox, tables, history>>,
           failures' \in 0..MaxFailures
    PROVE  EmailInv'
<1>1. scan' = [scan EXCEPT ![s] = AfterMail(scan[s], scan[s].todo \ {Current(s)})]
  BY DEF NextMail, EmailInv, TypeOK
<1>2. scan[s].todo \ {Current(s)} \in SUBSET scan[s].todo
  OBVIOUS
<1> QED
  BY <1>1, <1>2, ScanGoesOn

LEMMA AnalyzeInv ==
    ASSUME BoundsAssumption, EmailInv, NEW s \in Scans, Analyze(s)
    PROVE  EmailInv'
<1>1. PICK verdict \in VerdictsOf(scan[s].source) :
          scan' = [scan EXCEPT ![s].verdict = verdict,
                       ![s].pc = CASE verdict = "skip"    -> "load"
                                   [] verdict = "suggest" -> "suggest"
                                   [] verdict = "draft"   -> "draft"]
  BY DEF Analyze
<1>2. verdict \in {"skip", "suggest", "draft"}
  BY DEF VerdictsOf
<1>3. /\ scan[s].pc = "analyze"
      /\ UNCHANGED <<inbox, suggestions, scanned, drafts, failures, history>>
      /\ scan \in [Scans -> ScanRecords] /\ scan[s] \in ScanRecords
  BY DEF Analyze, tables, EmailInv, TypeOK
<1> DEFINE pc == CASE verdict = "skip"    -> "load"
                   [] verdict = "suggest" -> "suggest"
                   [] verdict = "draft"   -> "draft"
           r == [scan[s] EXCEPT !.verdict = verdict, !.pc = pc]
<1>4. /\ pc \in {"load", "suggest", "draft"}
      /\ pc = "load" => verdict = "skip"
  BY <1>2
<1>5. scan' = [scan EXCEPT ![s].verdict = verdict, ![s].pc = pc]
  BY <1>1, Zenon
<1> HIDE DEF pc
<1>6. scan' = [scan EXCEPT ![s] = r]
  BY <1>3, <1>5
<1>7. /\ r.pc = pc /\ r.verdict = verdict
      /\ r.link \in Links /\ r.found \in BOOLEAN
      /\ r = [scan[s] EXCEPT !.pc = r.pc, !.verdict = r.verdict,
                             !.link = r.link, !.found = r.found]
  BY <1>3 DEF ScanRecords
<1> HIDE DEF r
<1>8. ScanOK(r)
  <2>1. r.pc \in Running /\ r.verdict \in Verdicts
    BY <1>2, <1>4, <1>7 DEF Running, Verdicts
  <2> QED
    BY <1>3, <1>7, <2>1, SameMail
<1>9. drafts' \in SUBSET Emails /\ failures' \in 0..MaxFailures
  BY <1>3 DEF EmailInv, TypeOK
<1> QED
  BY <1>3, <1>4, <1>6, <1>7, <1>8, <1>9, ScanMovesOnly

LEMMA ComposeDraftInv ==
    ASSUME BoundsAssumption, EmailInv, NEW s \in Scans, ComposeDraft(s)
    PROVE  EmailInv'
<1>1. PICK written \in BOOLEAN :
          /\ drafts' = IF written /\ ReplyText(Provider) = "json"
                       THEN drafts \cup {Current(s)} ELSE drafts
          /\ scan' = [scan EXCEPT ![s].pc = "suggest",
                                  ![s].verdict = IF written THEN "replied" ELSE @]
  BY DEF ComposeDraft
<1>2. /\ scan[s].pc = "draft"
      /\ UNCHANGED <<inbox, suggestions, scanned, failures, history>>
      /\ scan \in [Scans -> ScanRecords] /\ scan[s] \in ScanRecords
  BY DEF ComposeDraft, EmailInv, TypeOK
<1> DEFINE r == [scan[s] EXCEPT !.pc = "suggest",
                     !.verdict = IF written THEN "replied" ELSE scan[s].verdict]
<1>3. scan' = [scan EXCEPT ![s] = r]
  BY <1>1, <1>2
<1>4. /\ r.pc = "suggest" /\ r.verdict \in Verdicts
      /\ r.link \in Links /\ r.found \in BOOLEAN
      /\ r = [scan[s] EXCEPT !.pc = r.pc, !.verdict = r.verdict,
                             !.link = r.link, !.found = r.found]
  BY <1>2 DEF ScanRecords, Verdicts
<1> HIDE DEF r
<1>5. ScanOK(r)
  <2>1. r.pc \in Running
    BY <1>4 DEF Running
  <2> QED
    BY <1>2, <1>4, <2>1, SameMail
<1>6. drafts' \in SUBSET Emails /\ failures' \in 0..MaxFailures
  BY <1>1, <1>2 DEF EmailInv, TypeOK, ReplyText
<1> QED
  BY <1>2, <1>3, <1>4, <1>5, <1>6, ScanMovesOnly

\* What the search found is there, and without overlaps stays what there is.
LEMMA CheckSuggestionInv ==
    ASSUME BoundsAssumption, EmailInv, NEW s \in Scans, CheckSuggestion(s)
    PROVE  EmailInv'
<1>1. /\ scan[s].pc = "suggest"
      /\ scan' = IF suggestions[Current(s)] > 0
                 THEN [scan EXCEPT ![s].pc = "load", ![s].link = "dangling"]
                 ELSE [scan EXCEPT ![s].pc = "insert"]
      /\ UNCHANGED <<inbox, suggestions, scanned, drafts, failures, history>>
      /\ scan \in [Scans -> ScanRecords] /\ scan[s] \in ScanRecords
  BY DEF CheckSuggestion, tables, EmailInv, TypeOK
<1>2. drafts' \in SUBSET Emails /\ failures' \in 0..MaxFailures
  BY <1>1 DEF EmailInv, TypeOK
<1>3. CASE suggestions[Current(s)] > 0
  <2> DEFINE r == [scan[s] EXCEPT !.pc = "load", !.link = "dangling"]
  <2>1. scan' = [scan EXCEPT ![s] = r]
    BY <1>1, <1>3
  <2>2. /\ r.pc = "load" /\ r.link = "dangling"
        /\ r.verdict \in Verdicts /\ r.found \in BOOLEAN
        /\ r = [scan[s] EXCEPT !.pc = r.pc, !.verdict = r.verdict,
                               !.link = r.link, !.found = r.found]
    BY <1>1 DEF ScanRecords
  <2> HIDE DEF r
  <2>3. ScanOK(r) /\ r.todo = scan[s].todo
    <3>1. r.pc \in Running /\ r.link \in Links
      BY <2>2 DEF Running, Links
    <3> QED
      BY <1>1, <2>2, <3>1, SameMail
  <2>4. \A e \in Emails : e = Max(r.todo) => suggestions[e] > 0
    BY <1>3, <2>3 DEF Current
  <2> QED
    BY <1>1, <1>2, <2>1, <2>2, <2>3, <2>4, ScanMovesOnly
<1>4. CASE ~(suggestions[Current(s)] > 0)
  <2> DEFINE r == [scan[s] EXCEPT !.pc = "insert"]
  <2>1. scan' = [scan EXCEPT ![s] = r]
    BY <1>1, <1>4
  <2>2. /\ r.pc = "insert" /\ r.link \in Links
        /\ r.verdict \in Verdicts /\ r.found \in BOOLEAN
        /\ r = [scan[s] EXCEPT !.pc = r.pc, !.verdict = r.verdict,
                               !.link = r.link, !.found = r.found]
    BY <1>1 DEF ScanRecords
  <2> HIDE DEF r
  <2>3. ScanOK(r) /\ r.todo = scan[s].todo
    <3>1. r.pc \in Running
      BY <2>2 DEF Running
    <3> QED
      BY <1>1, <2>2, <3>1, SameMail
  <2>4. \A e \in Emails : e = Max(r.todo) => suggestions[e] = 0
    BY <1>4, <2>3 DEF Current, EmailInv, TypeOK
  <2> QED
    BY <1>1, <1>2, <2>1, <2>2, <2>3, <2>4, ScanMovesOnly
<1> QED
  BY <1>3, <1>4

\* Without overlaps the suggestion stored is the first.
LEMMA InsertSuggestionInv ==
    ASSUME BoundsAssumption, EmailInv, NEW s \in Scans, InsertSuggestion(s)
    PROVE  EmailInv'
<1>1. /\ scan[s].pc = "insert"
      /\ suggestions' = [suggestions EXCEPT ![Current(s)] = @ + 1]
      /\ scan' = [scan EXCEPT ![s].pc = "load", ![s].link = "stored"]
      /\ UNCHANGED <<inbox, scanned, drafts, failures, history>>
      /\ scan \in [Scans -> ScanRecords] /\ scan[s] \in ScanRecords
      /\ suggestions \in [Emails -> Nat]
  BY DEF InsertSuggestion, EmailInv, TypeOK
<1> DEFINE r == [scan[s] EXCEPT !.pc = "load", !.link = "stored"]
<1>2. scan' = [scan EXCEPT ![s] = r]
  BY <1>1
<1>3. /\ r.pc = "load" /\ r.link = "stored"
      /\ r.verdict \in Verdicts /\ r.found \in BOOLEAN
      /\ r = [scan[s] EXCEPT !.pc = r.pc, !.verdict = r.verdict,
                             !.link = r.link, !.found = r.found]
  BY <1>1 DEF ScanRecords
<1> HIDE DEF r
<1>4. ScanOK(r) /\ r.todo = scan[s].todo
  <2>1. r.pc \in Running /\ r.link \in Links
    BY <1>3 DEF Running, Links
  <2> QED
    BY <1>1, <1>3, <2>1, SameMail
<1>5. /\ suggestions' \in [Emails -> Nat]
      /\ \A e \in Emails :
             /\ e = Current(s) => suggestions'[e] = suggestions[e] + 1
             /\ e # Current(s) => suggestions'[e] = suggestions[e]
  <2> DEFINE cur == Current(s)
  <2>1. suggestions' = [suggestions EXCEPT ![cur] = @ + 1]
    BY <1>1
  <2> HIDE DEF cur
  <2>2. \A e \in Emails : e = cur => suggestions'[e] = suggestions[e] + 1
    BY <1>1, <2>1
  <2>3. \A e \in Emails : e # cur => suggestions'[e] = suggestions[e]
    BY <1>1, <2>1
  <2>4. DOMAIN suggestions' = Emails /\ suggestions' = [e \in Emails |-> suggestions'[e]]
    BY <1>1, <2>1
  <2>5. \A e \in Emails : suggestions'[e] \in Nat
    BY <1>1, <2>2, <2>3
  <2> QED
    BY <2>2, <2>3, <2>4, <2>5 DEF cur
<1>6. /\ \A e \in Emails : suggestions'[e] >= suggestions[e]
      /\ \A e \in Emails : e = Max(r.todo) => suggestions'[e] > 0
  BY <1>1, <1>4, <1>5 DEF Current
<1>7. ActionableRowsHaveSuggestion'
  <2> SUFFICES ASSUME NEW e \in Emails, NEW i \in DOMAIN scanned[e],
                      scanned[e][i].actionable
               PROVE  suggestions'[e] > 0
    BY <1>1 DEF ActionableRowsHaveSuggestion
  <2>1. suggestions[e] > 0
    BY DEF EmailInv, ActionableRowsHaveSuggestion
  <2> QED
    BY <1>1, <1>5, <2>1
<1>8. SuggestedOnceWhenSerial'
  <2> SUFFICES ASSUME ~overlapped, NEW e \in Emails
               PROVE  suggestions'[e] <= 1
    BY <1>1 DEF SuggestedOnceWhenSerial, history
  <2>1. suggestions[e] <= 1
    BY DEF EmailInv, SuggestedOnceWhenSerial
  <2>2. e = Current(s) => suggestions[e] = 0
    BY <1>1 DEF EmailInv, ChecksHoldWhenSerial
  <2> QED
    BY <1>1, <1>5, <2>1, <2>2
<1>9. OneRowWhenSerial'
  BY <1>1 DEF EmailInv, OneRowWhenSerial, history
<1>10. /\ drafts' \in SUBSET Emails /\ failures' \in 0..MaxFailures
       /\ scanned' \in [Emails -> Seq(RowRecords)]
  BY <1>1 DEF EmailInv, TypeOK
<1> QED
  BY <1>1, <1>2, <1>3, <1>4, <1>5, <1>6, <1>7, <1>8, <1>9, <1>10, ScanMoves

LEMMA LoadScannedInv ==
    ASSUME BoundsAssumption, EmailInv, NEW s \in Scans, LoadScanned(s)
    PROVE  EmailInv'
<1>1. /\ scan[s].pc = "load"
      /\ UNCHANGED <<inbox, suggestions, scanned, drafts, failures, history>>
      /\ scan \in [Scans -> ScanRecords] /\ scan[s] \in ScanRecords
  BY DEF LoadScanned, tables, EmailInv, TypeOK
<1>2. drafts' \in SUBSET Emails /\ failures' \in 0..MaxFailures
  BY <1>1 DEF EmailInv, TypeOK
<1>3. CASE Len(scanned[Current(s)]) > 1
  BY <1>1, <1>2, <1>3, NextMailGoesOn DEF LoadScanned, tables
<1>4. CASE ~(Len(scanned[Current(s)]) > 1)
  <2> DEFINE found == scanned[Current(s)] # << >>
             r == [scan[s] EXCEPT !.pc = "save", !.found = found]
  <2>1. scan' = [scan EXCEPT ![s].pc = "save", ![s].found = found]
    BY <1>4 DEF LoadScanned
  <2>2. found \in BOOLEAN /\ (found <=> scanned[Current(s)] # << >>)
    OBVIOUS
  <2> HIDE DEF found
  <2>3. scan' = [scan EXCEPT ![s] = r]
    BY <1>1, <2>1
  <2>4. /\ r.pc = "save" /\ r.found = found /\ r.link \in Links
        /\ r.verdict = scan[s].verdict /\ r.verdict \in Verdicts
        /\ r = [scan[s] EXCEPT !.pc = r.pc, !.verdict = r.verdict,
                               !.link = r.link, !.found = r.found]
    BY <1>1 DEF ScanRecords
  <2> HIDE DEF r
  <2>5. ScanOK(r) /\ r.todo = scan[s].todo
    <3>1. r.pc \in Running
      BY <2>4 DEF Running
    <3> QED
      BY <1>1, <2>2, <2>4, <3>1, SameMail
  <2>6. \A e \in Emails :
            (r.verdict # "skip" /\ e = Max(r.todo)) => suggestions[e] > 0
    BY <1>1, <2>4, <2>5 DEF EmailInv, SuggestionFirst, Current
  <2>7. \A e \in Emails : e = Max(r.todo) => (r.found <=> scanned[e] # << >>)
    BY <2>2, <2>4, <2>5 DEF Current
  <2> QED
    BY <1>1, <1>2, <2>3, <2>4, <2>5, <2>6, <2>7, ScanMovesOnly
<1> QED
  BY <1>3, <1>4

\* The row says actionable only with a suggestion stored before it.
LEMMA SaveScannedInv ==
    ASSUME BoundsAssumption, EmailInv, NEW s \in Scans, SaveScanned(s)
    PROVE  EmailInv'
<1> DEFINE cur      == Current(s)
           r        == AfterMail(scan[s], scan[s].todo \ {cur})
           New(old) == RowsSavedBy(scan[s], old)
<1>1. /\ scan[s].pc = "save"
      /\ scanned' = [scanned EXCEPT ![cur] = New(scanned[cur])]
      /\ scan' = [scan EXCEPT ![s] = r]
      /\ UNCHANGED <<inbox, suggestions, drafts, failures, history>>
  BY DEF SaveScanned, NextMail
<1>2. /\ scanned \in [Emails -> Seq(RowRecords)] /\ suggestions \in [Emails -> Nat]
      /\ ScanOK(scan[s]) /\ scan[s] \in ScanRecords
  BY DEF EmailInv, TypeOK
<1>3. \A old \in Seq(RowRecords) :
          /\ New(old) \in Seq(RowRecords)
          /\ scan[s].found => Len(New(old)) = Len(old)
          /\ ~scan[s].found => Len(New(old)) = Len(old) + 1
          /\ \A i \in DOMAIN New(old) :
                 New(old)[i].actionable =>
                     \/ scan[s].verdict # "skip"
                     \/ i \in DOMAIN old /\ old[i].actionable
  BY <1>2, RowsAfterSave
<1>4. ScanOK(r) /\ r.pc \in {"idle", "analyze"}
  <2> HIDE DEF cur
  <2>1. scan[s].todo \ {cur} \in SUBSET scan[s].todo
    OBVIOUS
  <2> QED
    BY <1>2, <2>1, AfterMailOK
<1>5. ~overlapped => \A e \in Emails : e = cur => (scan[s].found <=> scanned[e] # << >>)
  BY <1>1 DEF EmailInv, ChecksHoldWhenSerial
<1>6. scan[s].verdict # "skip" => \A e \in Emails : e = cur => suggestions[e] > 0
  BY <1>1 DEF EmailInv, SuggestionFirst
<1> HIDE DEF cur, r, New
<1>7. \A e \in Emails : e = cur => scanned'[e] = New(scanned[e])
  BY <1>1, <1>2
<1>8. \A e \in Emails : e # cur => scanned'[e] = scanned[e]
  BY <1>1, <1>2
<1>9. scanned' \in [Emails -> Seq(RowRecords)]
  <2>1. scanned' = [e \in Emails |-> scanned'[e]]
    BY <1>1, <1>2
  <2>2. \A e \in Emails : scanned'[e] \in Seq(RowRecords)
    BY <1>2, <1>3, <1>7, <1>8
  <2> QED
    BY <2>1, <2>2
<1>10. ActionableRowsHaveSuggestion'
  <2> SUFFICES ASSUME NEW e \in Emails, NEW i \in DOMAIN scanned'[e],
                      scanned'[e][i].actionable
               PROVE  suggestions[e] > 0
    BY <1>1 DEF ActionableRowsHaveSuggestion
  <2>1. CASE e = cur
    <3>1. \/ scan[s].verdict # "skip"
          \/ i \in DOMAIN scanned[e] /\ scanned[e][i].actionable
      BY <1>2, <1>3, <1>7, <2>1
    <3> QED
      BY <1>6, <2>1, <3>1 DEF EmailInv, ActionableRowsHaveSuggestion
  <2>2. CASE e # cur
    BY <1>8, <2>2 DEF EmailInv, ActionableRowsHaveSuggestion
  <2> QED
    BY <2>1, <2>2
<1>11. OneRowWhenSerial'
  <2> SUFFICES ASSUME ~overlapped, NEW e \in Emails
               PROVE  Len(scanned'[e]) <= 1
    BY <1>1 DEF OneRowWhenSerial, history
  <2>1. Len(scanned[e]) <= 1 /\ Len(scanned[e]) \in Nat
    BY <1>2 DEF EmailInv, OneRowWhenSerial
  <2>2. CASE e = cur
    <3>1. /\ scan[s].found => Len(scanned'[e]) = Len(scanned[e])
          /\ ~scan[s].found => Len(scanned'[e]) = Len(scanned[e]) + 1
      BY <1>2, <1>3, <1>7, <2>2
    <3>2. ~scan[s].found => Len(scanned[e]) = 0
      BY <1>2, <1>5, <2>2
    <3>3. scan[s].found \in BOOLEAN
      BY <1>2 DEF ScanRecords
    <3> QED
      BY <2>1, <3>1, <3>2, <3>3
  <2>3. CASE e # cur
    BY <1>8, <2>1, <2>3
  <2> QED
    BY <2>2, <2>3
<1>13. SuggestedOnceWhenSerial'
  BY <1>1 DEF EmailInv, SuggestedOnceWhenSerial, history
<1>12. /\ suggestions' \in [Emails -> Nat] /\ drafts' \in SUBSET Emails
       /\ failures' \in 0..MaxFailures /\ UNCHANGED <<inbox, history>>
       /\ \A e \in Emails : suggestions'[e] >= suggestions[e]
  BY <1>1 DEF EmailInv, TypeOK
<1> QED
  BY <1>1, <1>4, <1>9, <1>10, <1>11, <1>13, <1>12, ScanMoves

LEMMA FailEmailInv ==
    ASSUME BoundsAssumption, EmailInv, NEW s \in Scans, FailEmail(s)
    PROVE  EmailInv'
<1>1. /\ scan[s].pc # "idle" /\ NextMail(s) /\ UNCHANGED <<inbox, tables, history>>
      /\ failures < MaxFailures /\ failures' = failures + 1
  BY DEF FailEmail
<1>2. failures' \in 0..MaxFailures
  BY <1>1 DEF EmailInv, TypeOK, BoundsAssumption
<1> QED
  BY <1>1, <1>2, NextMailGoesOn

LEMMA DieInv ==
    ASSUME BoundsAssumption, EmailInv, NEW s \in Scans, Die(s)
    PROVE  EmailInv'
<1>1. /\ scan[s].pc # "idle" /\ scan' = [scan EXCEPT ![s] = Idle]
      /\ UNCHANGED <<inbox, tables, history>>
      /\ failures < MaxFailures /\ failures' = failures + 1
  BY DEF Die
<1>2. failures' \in 0..MaxFailures
  BY <1>1 DEF EmailInv, TypeOK, BoundsAssumption
<1>3. Idle = AfterMail(scan[s], {}) /\ {} \in SUBSET scan[s].todo
  BY DEF AfterMail
<1>4. scan' = [scan EXCEPT ![s] = AfterMail(scan[s], {})]
  BY <1>1, <1>3
<1> QED
  BY <1>1, <1>2, <1>3, <1>4, ScanGoesOn

-----------------------------------------------------------------------------
(* The theorems *)

\* Initially nothing has arrived, nothing is stored and nothing runs.
LEMMA InitInv == BoundsAssumption /\ Init => EmailInv
<1> SUFFICES ASSUME BoundsAssumption, Init PROVE EmailInv
  OBVIOUS
<1>1. /\ inbox = 0 /\ drafts = {} /\ failures = 0
      /\ suggestions = [e \in Emails |-> 0]
      /\ scanned = [e \in Emails |-> << >>]
      /\ scan = [s \in Scans |-> Idle]
      /\ overlapped = FALSE /\ rescanned = FALSE
  BY DEF Init
<1>2. Idle.pc = "idle" /\ ScanOK(Idle) /\ Idle \in ScanRecords
  BY IdleOK DEF Idle, ScanOK
<1>3. << >> \in Seq(RowRecords) /\ Len(<< >>) = 0 /\ DOMAIN << >> = {}
  OBVIOUS
<1>4. TypeOK
  <2>1. inbox \in 0..MaxEmails /\ failures \in 0..MaxFailures /\ drafts \in SUBSET Emails
    BY <1>1 DEF BoundsAssumption
  <2>2. suggestions \in [Emails -> Nat]
    BY <1>1
  <2>3. scanned \in [Emails -> Seq(RowRecords)]
    BY <1>1, <1>3
  <2>4. scan \in [Scans -> ScanRecords] /\ \A s \in Scans : ScanOK(scan[s])
    BY <1>1, <1>2
  <2> QED
    BY <1>1, <2>1, <2>2, <2>3, <2>4 DEF TypeOK
<1>5. ActionableRowsHaveSuggestion /\ SuggestedOnceWhenSerial /\ OneRowWhenSerial
  BY <1>1, <1>3 DEF ActionableRowsHaveSuggestion, SuggestedOnceWhenSerial, OneRowWhenSerial
<1>6. SuggestionFirst /\ OneScanWhenSerial /\ ChecksHoldWhenSerial
  BY <1>1, <1>2 DEF SuggestionFirst, OneScanWhenSerial, ChecksHoldWhenSerial
<1> QED
  BY <1>4, <1>5, <1>6 DEF EmailInv

\* Another mail changes nothing but what may be listed.
LEMMA ReceiveEmailInv ==
    ASSUME BoundsAssumption, EmailInv, ReceiveEmail
    PROVE  EmailInv'
<1>1. /\ inbox < MaxEmails /\ inbox' = inbox + 1
      /\ UNCHANGED <<suggestions, scanned, drafts, scan, failures, overlapped, rescanned>>
  BY DEF ReceiveEmail, tables, history
<1>2. TypeOK'
  <2>1. inbox \in 0..MaxEmails /\ inbox' \in 0..MaxEmails
    BY <1>1 DEF EmailInv, TypeOK, BoundsAssumption
  <2>2. ASSUME NEW s \in Scans PROVE ScanOK(scan[s])'
    <3>1. ScanOK(scan[s]) /\ scan[s].todo \in SUBSET Emails
      BY DEF EmailInv, TypeOK, ScanOK, ScanRecords
    <3>2. \A e \in scan[s].todo : e <= inbox'
      BY <1>1, <2>1, <3>1 DEF ScanOK, Emails, BoundsAssumption
    <3> QED
      BY <1>1, <3>1, <3>2 DEF ScanOK
  <2> QED
    BY <1>1, <2>1, <2>2 DEF EmailInv, TypeOK
<1> QED
  BY <1>1, <1>2 DEF EmailInv, ActionableRowsHaveSuggestion, SuggestedOnceWhenSerial,
     OneRowWhenSerial, SuggestionFirst, OneScanWhenSerial, ChecksHoldWhenSerial, Current

LEMMA StutterInv == EmailInv /\ UNCHANGED vars => EmailInv'
BY DEF EmailInv, TypeOK, ScanOK, ActionableRowsHaveSuggestion, SuggestedOnceWhenSerial,
       OneRowWhenSerial, SuggestionFirst, OneScanWhenSerial, ChecksHoldWhenSerial,
       Current, vars, tables, history

\* EmailInv is inductive: each scan writes the suggestion before the row, and
\* what it has read of its mail stays true unless another scan runs.
THEOREM EmailInvAlways == Spec => []EmailInv
<1>1. Init => EmailInv
  BY BoundsAssumption, InitInv
<1>2. EmailInv /\ [Next]_vars => EmailInv'
  <2> SUFFICES ASSUME EmailInv, [Next]_vars PROVE EmailInv'
    OBVIOUS
  <2> USE BoundsAssumption, SlotsAssumption
  <2>1. CASE ReceiveEmail
    BY <2>1, ReceiveEmailInv
  <2>2. ASSUME NEW s \in Scans, NEW source \in Sources, NEW rescan \in BOOLEAN,
               NEW listed \in SUBSET Newest(FetchLimit[source]),
               BeginScan(s, source, rescan, listed)
        PROVE  EmailInv'
    BY <2>2, BeginScanInv
  <2>3. ASSUME NEW s \in Scans, FilterProcessed(s) PROVE EmailInv'
    BY <2>3, FilterProcessedInv
  <2>4. ASSUME NEW s \in Scans, Analyze(s) PROVE EmailInv'
    BY <2>4, AnalyzeInv
  <2>5. ASSUME NEW s \in Scans, ComposeDraft(s) PROVE EmailInv'
    BY <2>5, ComposeDraftInv
  <2>6. ASSUME NEW s \in Scans, CheckSuggestion(s) PROVE EmailInv'
    BY <2>6, CheckSuggestionInv
  <2>7. ASSUME NEW s \in Scans, InsertSuggestion(s) PROVE EmailInv'
    BY <2>7, InsertSuggestionInv
  <2>8. ASSUME NEW s \in Scans, LoadScanned(s) PROVE EmailInv'
    BY <2>8, LoadScannedInv
  <2>9. ASSUME NEW s \in Scans, SaveScanned(s) PROVE EmailInv'
    BY <2>9, SaveScannedInv
  <2>10. ASSUME NEW s \in Scans, FailEmail(s) PROVE EmailInv'
    BY <2>10, FailEmailInv
  <2>11. ASSUME NEW s \in Scans, Die(s) PROVE EmailInv'
    BY <2>11, DieInv
  <2>12. CASE UNCHANGED vars
    BY <2>12, StutterInv
  <2> QED
    BY <2>1, <2>2, <2>3, <2>4, <2>5, <2>6, <2>7, <2>8, <2>9, <2>10, <2>11, <2>12
       DEF Next
<1> QED
  BY <1>1, <1>2, PTL DEF Spec

\* Every state is well typed, whatever the limits: a scan works through at
\* most as many mails as its source may ask for, all of them in the inbox.
THEOREM TypesHold == Spec => []TypeOK
<1>1. EmailInv => TypeOK
  BY DEF EmailInv
<1> QED
  BY <1>1, EmailInvAlways, PTL

\* However scans overlap and whatever fails, the row that marks a mail as
\* actionable, and as done, is never there without a suggestion.
THEOREM ActionableRowsAlwaysHaveSuggestion == Spec => []ActionableRowsHaveSuggestion
<1>1. EmailInv => ActionableRowsHaveSuggestion
  BY DEF EmailInv
<1> QED
  BY <1>1, EmailInvAlways, PTL

\* Until two scans of the mailbox run at once, no mail is recorded twice: the
\* search before the row is written is enough.
THEOREM RecordedOnceWhileSerial == Spec => []OneRowWhenSerial
<1>1. EmailInv => OneRowWhenSerial
  BY DEF EmailInv
<1> QED
  BY <1>1, EmailInvAlways, PTL

\* Until two scans of the mailbox run at once, no mail is suggested twice or
\* recorded twice, also by rescans and by scans after one that has died.
THEOREM OnceWhileSerial == Spec => [](SuggestedOnceWhenSerial /\ OneRowWhenSerial)
<1>1. EmailInv => SuggestedOnceWhenSerial /\ OneRowWhenSerial
  BY DEF EmailInv
<1> QED
  BY <1>1, EmailInvAlways, PTL
-----------------------------------------------------------------------------
(* Without overlaps, failures and rescans *)

Orderly == ~overlapped /\ ~rescanned /\ failures = 0

\* A row and the suggestions of its mail agree.
RowsAgree ==
    \A e \in Emails : \A i \in DOMAIN scanned[e] :
        /\ scanned[e][i].actionable <=> (scanned[e][i].link = "stored")
        /\ scanned[e][i].actionable <=> (suggestions[e] > 0)

Saves(s, e) == scan[s].pc \in {"load", "save"} /\ e = Current(s)

\* A mail without a row has no suggestion but the one a scan is about to record.
PendingIsInHand ==
    \A e \in Emails :
        scanned[e] = << >> /\ suggestions[e] > 0 => \E s \in Scans : Saves(s, e)

\* What a scan r has in hand has no row yet, and its link is that of the
\* suggestion it has stored.
KnowsItsMail(r) ==
    /\ r.pc \notin {"idle", "filter"} => \A e \in r.todo : scanned[e] = << >>
    /\ r.pc = "analyze" => r.link = "none"
    /\ r.pc \in {"draft", "suggest", "insert"} => r.verdict # "skip"
    /\ r.pc \in {"load", "save"} =>
          \/ r.verdict = "skip" /\ r.link = "none"
                /\ \A e \in Emails : e = Max(r.todo) => suggestions[e] = 0
          \/ r.verdict # "skip" /\ r.link = "stored"

OrderlyInv ==
    Orderly => RowsAgree /\ PendingIsInHand /\ \A s \in Scans : KnowsItsMail(scan[s])
\* A nonempty set of naturals has a smallest element.
LEMMA SmallestOf ==
    ASSUME NEW S \in SUBSET Nat, S # {}
    PROVE  \E x \in S : \A y \in S : x <= y
<1> DEFINE R == OpToRel(<, Nat)
<1>1. IsWellFoundedOn(R, Nat)
  BY NatLessThanWellFounded
<1>2. \A x, y \in Nat : y < x => <<y, x>> \in R
  BY DEF OpToRel
<1> HIDE DEF R
<1>3. PICK x \in S : \A y \in S : ~ (<<y, x>> \in R)
  BY <1>1, WFMin
<1>4. x \in Nat /\ \A y \in S : y \in Nat /\ ~(y < x)
  BY <1>2, <1>3
<1>5. \A y \in S : x <= y
  BY <1>4
<1> QED
  BY <1>5

\* A nonempty bounded set of naturals has a largest one, which is its Max.
LEMMA LargestOf ==
    ASSUME NEW S \in SUBSET Nat, S # {}, NEW n \in Nat, \A x \in S : x <= n
    PROVE  Max(S) \in S
<1> DEFINE T == {n - x : x \in S}
<1>0. \A x \in S : x \in Nat
  OBVIOUS
<1>1. T \in SUBSET Nat /\ T # {}
  <2>1. ASSUME NEW x \in S PROVE n - x \in Nat
    BY <1>0
  <2> QED
    BY <2>1
<1>2. PICK t \in T : \A y \in T : t <= y
  <2> HIDE DEF T
  <2> QED
    BY <1>1, SmallestOf
<1>3. PICK x \in S : t = n - x
  OBVIOUS
<1>4. ASSUME NEW y \in S PROVE x >= y
  <2>1. n - y \in T
    OBVIOUS
  <2>2. n - x <= n - y /\ x \in Nat /\ y \in Nat
    BY <1>0, <1>2, <1>3, <2>1
  <2> QED
    BY <2>2
<1> QED
  BY <1>4 DEF Max

\* The mail a running scan is at is one of those it has listed.
LEMMA CurrentIsListed ==
    ASSUME BoundsAssumption, EmailInv, NEW s \in Scans, scan[s].pc # "idle"
    PROVE  Current(s) \in scan[s].todo /\ Current(s) \in Emails
<1>1. scan[s].todo # {} /\ scan[s].todo \in SUBSET Emails
  BY DEF EmailInv, TypeOK, ScanOK, ScanRecords
<1>2. Emails \subseteq Nat /\ MaxEmails \in Nat /\ \A e \in Emails : e <= MaxEmails
  BY DEF Emails, BoundsAssumption
<1>3. scan[s].todo \in SUBSET Nat /\ \A e \in scan[s].todo : e <= MaxEmails
  BY <1>1, <1>2
<1>4. Max(scan[s].todo) \in scan[s].todo
  BY <1>1, <1>2, <1>3, LargestOf
<1> QED
  BY <1>1, <1>4 DEF Current

\* The one scan that runs goes on as r: the mails it has in hand, the rows and
\* the suggestions are as r says.
LEMMA OrderlyMoves ==
    ASSUME EmailInv, OrderlyInv, Orderly, NEW s \in Scans, scan[s].pc # "idle", NEW r,
           scan' = [scan EXCEPT ![s] = r],
           KnowsItsMail(r)', RowsAgree',
           \A e \in Emails : scanned'[e] = << >> /\ suggestions'[e] > 0
                => r.pc \in {"load", "save"} /\ e = Max(r.todo)
    PROVE  OrderlyInv'
<1>1. /\ scan'[s] = r
      /\ \A t \in Scans \ {s} : scan'[t] = scan[t] /\ scan[t].pc = "idle"
  BY DEF EmailInv, TypeOK, OneScanWhenSerial, Orderly
<1>2. PendingIsInHand'
  BY <1>1 DEF PendingIsInHand, Saves, Current
<1>3. \A t \in Scans : KnowsItsMail(scan[t])'
  <2> SUFFICES ASSUME NEW t \in Scans PROVE KnowsItsMail(scan[t])'
    OBVIOUS
  <2>1. CASE t = s
    BY <1>1, <2>1 DEF KnowsItsMail
  <2>2. CASE t # s
    BY <1>1, <2>2 DEF KnowsItsMail
  <2> QED
    BY <2>1, <2>2
<1> QED
  BY <1>2, <1>3 DEF OrderlyInv

\* Nothing was recorded of the mail in hand, and nothing suggested before it is stored.
LEMMA InHandIsNew ==
    ASSUME BoundsAssumption, EmailInv, OrderlyInv, Orderly, NEW s \in Scans,
           scan[s].pc \notin {"idle", "filter"}
    PROVE  /\ Current(s) \in Emails /\ Current(s) \in scan[s].todo
           /\ \A e \in scan[s].todo : scanned[e] = << >>
           /\ scan[s].pc \notin {"load", "save"} =>
                \A e \in Emails : scanned[e] = << >> => suggestions[e] = 0
           /\ \A e \in Emails : scanned[e] = << >> /\ e # Current(s) => suggestions[e] = 0
<1>1. Current(s) \in Emails /\ Current(s) \in scan[s].todo
  BY CurrentIsListed
<1>2. \A e \in scan[s].todo : scanned[e] = << >>
  BY DEF OrderlyInv, KnowsItsMail
<1>3. \A t \in Scans : t # s => scan[t].pc = "idle"
  BY DEF EmailInv, OneScanWhenSerial, Orderly
<1>4. \A e \in Emails : suggestions[e] \in Nat
  BY DEF EmailInv, TypeOK
<1>5. \A e \in Emails : scanned[e] = << >> /\ suggestions[e] > 0 => Saves(s, e)
  BY <1>3 DEF OrderlyInv, PendingIsInHand, Saves
<1> QED
  BY <1>1, <1>2, <1>4, <1>5 DEF Saves

\* A scan begins with the search for rows.
LEMMA BeginScanOrderly ==
    ASSUME EmailInv, OrderlyInv, NEW s \in Scans, NEW source, NEW rescan \in BOOLEAN,
           NEW listed, BeginScan(s, source, rescan, listed)
    PROVE  OrderlyInv'
<1> SUFFICES ASSUME Orderly' PROVE OrderlyInv'
  BY DEF OrderlyInv
<1>1. /\ ~rescan /\ Orderly
      /\ \A t \in Scans : scan[t].pc = "idle"
      /\ UNCHANGED <<suggestions, scanned>>
  BY DEF BeginScan, Orderly, tables
<1>2. /\ scan'[s].pc = "filter"
      /\ \A t \in Scans \ {s} : scan'[t] = scan[t]
  <2>1. scan \in [Scans -> ScanRecords]
    BY DEF EmailInv, TypeOK
  <2>2. scan'[s] = [Idle EXCEPT !.pc = "filter", !.source = source, !.todo = listed]
    BY <1>1, <2>1 DEF BeginScan
  <2> QED
    BY <2>1, <2>2 DEF BeginScan, Idle
<1>3. \A t \in Scans : scan'[t].pc \in {"idle", "filter"}
  BY <1>1, <1>2
<1>4. \A t \in Scans : KnowsItsMail(scan[t])'
  BY <1>3 DEF KnowsItsMail
<1>5. RowsAgree' /\ PendingIsInHand'
  BY <1>1 DEF OrderlyInv, RowsAgree, PendingIsInHand, Saves
<1> QED
  BY <1>4, <1>5 DEF OrderlyInv

\* The scan drops the mails that have a row.
LEMMA FilterOrderly ==
    ASSUME BoundsAssumption, EmailInv, OrderlyInv, NEW s \in Scans, FilterProcessed(s)
    PROVE  OrderlyInv'
<1> SUFFICES ASSUME Orderly' PROVE OrderlyInv'
  BY DEF OrderlyInv
<1> DEFINE rest == {e \in scan[s].todo : scanned[e] = << >>}
<1>0. PICK r : r = AfterMail(scan[s], rest)
  OBVIOUS
<1>1. /\ Orderly /\ scan[s].pc = "filter"
      /\ scan' = [scan EXCEPT ![s] = r]
      /\ UNCHANGED <<suggestions, scanned>>
  BY <1>0 DEF FilterProcessed, Orderly, tables, history
<1>2. /\ r.pc \in {"idle", "analyze"}
      /\ r.pc = "analyze" => r.link = "none" /\ \A e \in r.todo : scanned[e] = << >>
  <2>1. \A e \in rest : scanned[e] = << >>
    OBVIOUS
  <2> HIDE DEF rest
  <2>2. r = Idle \/ r = [Idle EXCEPT !.pc = "analyze", !.source = scan[s].source,
                                     !.todo = rest]
    BY <1>0 DEF AfterMail
  <2>3. CASE r = Idle
    BY <2>3 DEF Idle
  <2>4. CASE r = [Idle EXCEPT !.pc = "analyze", !.source = scan[s].source, !.todo = rest]
    BY <2>1, <2>4 DEF Idle
  <2> QED
    BY <2>2, <2>3, <2>4
<1>3. KnowsItsMail(r)'
  BY <1>1, <1>2 DEF KnowsItsMail
<1>4. RowsAgree'
  BY <1>1 DEF OrderlyInv, RowsAgree
<1>5. \A e \in Emails : ~(scanned'[e] = << >> /\ suggestions'[e] > 0)
  <2>1. \A t \in Scans : scan[t].pc \notin {"load", "save"}
    BY <1>1 DEF EmailInv, OneScanWhenSerial, Orderly
  <2> QED
    BY <1>1, <2>1 DEF OrderlyInv, PendingIsInHand, Saves
<1> QED
  BY <1>1, <1>3, <1>4, <1>5, OrderlyMoves

\* The steps between the search for rows and the row: each keeps the mails, and
\* leaves the rows and all suggestions but that of the mail in hand alone.
LEMMA SameMailOrderly ==
    ASSUME BoundsAssumption, EmailInv, OrderlyInv, Orderly, NEW s \in Scans, NEW r,
           scan[s].pc \notin {"idle", "filter"}, r.pc \notin {"idle", "filter"},
           scan' = [scan EXCEPT ![s] = r], r.todo = scan[s].todo,
           scanned' = scanned,
           \A e \in Emails : e # Current(s) => suggestions'[e] = suggestions[e],
           r.pc \notin {"load", "save"} => suggestions' = suggestions,
           scan[s].pc \in {"load", "save"} => r.pc \in {"load", "save"},
           r.pc = "analyze" => r.link = "none",
           r.pc \in {"draft", "suggest", "insert"} => r.verdict # "skip",
           r.pc \in {"load", "save"} =>
              \/ r.verdict = "skip" /\ r.link = "none" /\ suggestions'[Current(s)] = 0
              \/ r.verdict # "skip" /\ r.link = "stored"
    PROVE  OrderlyInv'
<1> DEFINE c == Current(s)
<1>1. /\ c \in Emails /\ c \in scan[s].todo
      /\ \A e \in scan[s].todo : scanned[e] = << >>
      /\ scan[s].pc \notin {"load", "save"} =>
                \A e \in Emails : scanned[e] = << >> => suggestions[e] = 0
      /\ \A e \in Emails : scanned[e] = << >> /\ e # c => suggestions[e] = 0
  BY InHandIsNew
<1>2. c = Max(r.todo)
  BY DEF Current
<1> HIDE DEF c
<1>3. KnowsItsMail(r)'
  BY <1>1, <1>2 DEF KnowsItsMail, c
<1>4. RowsAgree'
  <2>1. \A e \in Emails : DOMAIN scanned[e] # {} => e # c
    BY <1>1
  <2> QED
    BY <2>1 DEF OrderlyInv, RowsAgree, c
<1>5. \A e \in Emails : scanned'[e] = << >> /\ suggestions'[e] > 0
                => r.pc \in {"load", "save"} /\ e = Max(r.todo)
  <2> SUFFICES ASSUME NEW e \in Emails, scanned[e] = << >>, suggestions'[e] > 0
               PROVE  r.pc \in {"load", "save"} /\ e = c
    BY <1>2
  <2>1. e = c
    BY <1>1 DEF c
  <2>2. r.pc \in {"load", "save"}
    BY <1>1
  <2> QED
    BY <2>1, <2>2
<1> QED
  BY <1>3, <1>4, <1>5, OrderlyMoves

\* What the analysis finds is what the row will say.
LEMMA AnalyzeOrderly ==
    ASSUME BoundsAssumption, EmailInv, OrderlyInv, NEW s \in Scans, Analyze(s)
    PROVE  OrderlyInv'
<1> SUFFICES ASSUME Orderly' PROVE OrderlyInv'
  BY DEF OrderlyInv
<1>1. /\ Orderly /\ scan[s].pc = "analyze" /\ UNCHANGED <<suggestions, scanned>>
  BY DEF Analyze, Orderly, tables, history
<1>2. PICK verdict \in VerdictsOf(scan[s].source) :
          scan' = [scan EXCEPT ![s].verdict = verdict,
                       ![s].pc = CASE verdict = "skip"    -> "load"
                                   [] verdict = "suggest" -> "suggest"
                                   [] verdict = "draft"   -> "draft"]
  BY DEF Analyze
<1>3. /\ verdict \in {"skip", "suggest", "draft"}
      /\ scan \in [Scans -> ScanRecords] /\ scan[s] \in ScanRecords
      /\ scan[s].link = "none"
  BY <1>1 DEF VerdictsOf, EmailInv, TypeOK, OrderlyInv, KnowsItsMail
<1>4. PICK pc : pc = CASE verdict = "skip"    -> "load"
                       [] verdict = "suggest" -> "suggest"
                       [] verdict = "draft"   -> "draft"
  OBVIOUS
<1>5. /\ verdict = "skip" => pc = "load"
      /\ verdict # "skip" => pc \in {"suggest", "draft"}
  <2>1. CASE verdict = "skip"
    BY <1>4, <2>1
  <2>2. CASE verdict = "suggest"
    BY <1>4, <2>2
  <2>3. CASE verdict = "draft"
    BY <1>4, <2>3
  <2> QED
    BY <1>3, <2>1, <2>2, <2>3
<1>6. PICK r : r = [scan[s] EXCEPT !.verdict = verdict, !.pc = pc]
  OBVIOUS
<1>7. scan' = [scan EXCEPT ![s] = r]
  BY <1>2, <1>3, <1>4, <1>6
<1>8. r.pc = pc /\ r.verdict = verdict /\ r.link = "none" /\ r.todo = scan[s].todo
  BY <1>3, <1>6 DEF ScanRecords
<1>9. suggestions[Current(s)] = 0
  BY <1>1, InHandIsNew
<1> QED
  BY <1>1, <1>3, <1>5, <1>7, <1>8, <1>9, SameMailOrderly

\* A draft has nothing to do with the suggestion, nor has its failure.
LEMMA ComposeDraftOrderly ==
    ASSUME BoundsAssumption, EmailInv, OrderlyInv, NEW s \in Scans, ComposeDraft(s)
    PROVE  OrderlyInv'
<1> SUFFICES ASSUME Orderly' PROVE OrderlyInv'
  BY DEF OrderlyInv
<1>1. /\ Orderly /\ scan[s].pc = "draft" /\ UNCHANGED <<suggestions, scanned>>
      /\ scan[s].verdict # "skip"
      /\ scan \in [Scans -> ScanRecords] /\ scan[s] \in ScanRecords
  BY DEF ComposeDraft, Orderly, history, EmailInv, TypeOK, OrderlyInv, KnowsItsMail
<1>2. PICK verdict \in {"replied", scan[s].verdict} :
          scan' = [scan EXCEPT ![s].pc = "suggest", ![s].verdict = verdict]
  BY DEF ComposeDraft
<1>3. PICK r : r = [scan[s] EXCEPT !.pc = "suggest", !.verdict = verdict]
  OBVIOUS
<1>4. scan' = [scan EXCEPT ![s] = r]
  BY <1>1, <1>2, <1>3
<1>5. r.pc = "suggest" /\ r.verdict = verdict /\ r.todo = scan[s].todo
  BY <1>1, <1>3 DEF ScanRecords
<1>6. verdict # "skip"
  BY <1>1
<1> QED
  BY <1>1, <1>4, <1>5, <1>6, SameMailOrderly

\* The search finds no suggestion: an id is never left dangling.
LEMMA CheckSuggestionOrderly ==
    ASSUME BoundsAssumption, EmailInv, OrderlyInv, NEW s \in Scans, CheckSuggestion(s)
    PROVE  OrderlyInv'
<1> SUFFICES ASSUME Orderly' PROVE OrderlyInv'
  BY DEF OrderlyInv
<1>1. /\ Orderly /\ scan[s].pc = "suggest" /\ UNCHANGED <<suggestions, scanned>>
      /\ scan[s].verdict # "skip"
      /\ scan \in [Scans -> ScanRecords] /\ scan[s] \in ScanRecords
  BY DEF CheckSuggestion, Orderly, tables, history, EmailInv, TypeOK, OrderlyInv, KnowsItsMail
<1>2. suggestions[Current(s)] = 0
  BY <1>1, InHandIsNew
<1>3. scan' = [scan EXCEPT ![s].pc = "insert"]
  BY <1>2 DEF CheckSuggestion
<1>4. PICK r : r = [scan[s] EXCEPT !.pc = "insert"]
  OBVIOUS
<1>5. /\ scan' = [scan EXCEPT ![s] = r]
      /\ r.pc = "insert" /\ r.verdict # "skip" /\ r.todo = scan[s].todo
  BY <1>1, <1>3, <1>4 DEF ScanRecords
<1> QED
  BY <1>1, <1>5, SameMailOrderly

\* The suggestion is stored, and its id kept for the row.
LEMMA InsertSuggestionOrderly ==
    ASSUME BoundsAssumption, EmailInv, OrderlyInv, NEW s \in Scans, InsertSuggestion(s)
    PROVE  OrderlyInv'
<1> SUFFICES ASSUME Orderly' PROVE OrderlyInv'
  BY DEF OrderlyInv
<1>1. /\ Orderly /\ scan[s].pc = "insert" /\ scanned' = scanned
      /\ suggestions' = [suggestions EXCEPT ![Current(s)] = @ + 1]
      /\ scan[s].verdict # "skip"
      /\ scan \in [Scans -> ScanRecords] /\ scan[s] \in ScanRecords
      /\ suggestions \in [Emails -> Nat]
  BY DEF InsertSuggestion, Orderly, history, EmailInv, TypeOK, OrderlyInv, KnowsItsMail
<1>2. scan' = [scan EXCEPT ![s].pc = "load", ![s].link = "stored"]
  BY DEF InsertSuggestion
<1>3. PICK r : r = [scan[s] EXCEPT !.pc = "load", !.link = "stored"]
  OBVIOUS
<1>4. /\ scan' = [scan EXCEPT ![s] = r] /\ r.link = "stored"
      /\ r.pc = "load" /\ r.verdict # "skip" /\ r.todo = scan[s].todo
  BY <1>1, <1>2, <1>3 DEF ScanRecords
<1>5. \A e \in Emails : e # Current(s) => suggestions'[e] = suggestions[e]
  BY <1>1
<1> QED
  BY <1>1, <1>4, <1>5, SameMailOrderly

\* No row is found.
LEMMA LoadScannedOrderly ==
    ASSUME BoundsAssumption, EmailInv, OrderlyInv, NEW s \in Scans, LoadScanned(s)
    PROVE  OrderlyInv'
<1> SUFFICES ASSUME Orderly' PROVE OrderlyInv'
  BY DEF OrderlyInv
<1>1. /\ Orderly /\ scan[s].pc = "load" /\ UNCHANGED <<suggestions, scanned>>
      /\ scan \in [Scans -> ScanRecords] /\ scan[s] \in ScanRecords
      /\ KnowsItsMail(scan[s])
  BY DEF LoadScanned, Orderly, tables, history, EmailInv, TypeOK, OrderlyInv
<1>2. Current(s) \in Emails /\ scanned[Current(s)] = << >>
  BY <1>1, InHandIsNew
<1>3. scan' = [scan EXCEPT ![s].pc = "save", ![s].found = FALSE]
  <2>1. ~(Len(scanned[Current(s)]) > 1) /\ (scanned[Current(s)] # << >>) = FALSE
    BY <1>2
  <2> QED
    BY <2>1 DEF LoadScanned
<1>4. PICK r : r = [scan[s] EXCEPT !.pc = "save", !.found = FALSE]
  OBVIOUS
<1>5. /\ scan' = [scan EXCEPT ![s] = r] /\ r.pc = "save" /\ r.todo = scan[s].todo
      /\ r.verdict = scan[s].verdict /\ r.link = scan[s].link
  BY <1>1, <1>3, <1>4 DEF ScanRecords
<1>6. \/ r.verdict = "skip" /\ r.link = "none" /\ suggestions[Current(s)] = 0
      \/ r.verdict # "skip" /\ r.link = "stored"
  BY <1>1, <1>2, <1>5 DEF KnowsItsMail, Current
<1> QED
  BY <1>1, <1>5, <1>6, SameMailOrderly

\* The row says what the scan knows, and the scan goes on with a mail without one.
LEMMA SaveScannedOrderly ==
    ASSUME BoundsAssumption, EmailInv, OrderlyInv, NEW s \in Scans, SaveScanned(s)
    PROVE  OrderlyInv'
<1> SUFFICES ASSUME Orderly' PROVE OrderlyInv'
  BY DEF OrderlyInv
<1> DEFINE c == Current(s)
<1>1. /\ Orderly /\ scan[s].pc = "save" /\ suggestions' = suggestions
      /\ scanned' = [scanned EXCEPT ![c] = RowsSavedBy(scan[s], @)]
      /\ scan' = [scan EXCEPT ![s] = AfterMail(scan[s], scan[s].todo \ {c})]
      /\ scan[s] \in ScanRecords /\ KnowsItsMail(scan[s])
      /\ scanned \in [Emails -> Seq(RowRecords)]
  BY DEF SaveScanned, NextMail, Orderly, history, EmailInv, TypeOK, OrderlyInv
<1>2. /\ c \in Emails /\ c \in scan[s].todo /\ scan[s].todo \in SUBSET Emails
      /\ \A e \in scan[s].todo : scanned[e] = << >>
      /\ \A e \in Emails : scanned[e] = << >> /\ e # c => suggestions[e] = 0
  BY <1>1, InHandIsNew DEF ScanRecords
<1>3. PICK row : row = [actionable |-> scan[s].verdict # "skip", link |-> scan[s].link]
  OBVIOUS
<1>4. PICK mail : mail = c
  OBVIOUS
<1>5. PICK rest : rest = scan[s].todo \ {mail}
  OBVIOUS
<1>6. PICK r : r = AfterMail(scan[s], rest)
  OBVIOUS
<1>7. scan' = [scan EXCEPT ![s] = r]
  BY <1>1, <1>4, <1>5, <1>6
<1>8. scanned'[mail] = <<row>> /\ \A e \in Emails \ {mail} : scanned'[e] = scanned[e]
  <2>1. ~scan[s].found
    BY <1>1, <1>2 DEF EmailInv, ChecksHoldWhenSerial, Orderly
  <2>2. RowsSavedBy(scan[s], scanned[mail]) = <<row>>
    <3>1. RowsSavedBy(scan[s], scanned[mail]) = Append(scanned[mail], row)
      BY <1>3, <2>1 DEF RowsSavedBy
    <3>2. scanned[mail] = << >>
      BY <1>2, <1>4
    <3> QED
      BY <3>1, <3>2
  <2> QED
    BY <1>1, <1>2, <1>4, <2>2
<1>9. /\ row.actionable <=> (row.link = "stored")
      /\ row.actionable <=> (suggestions[mail] > 0)
  <2>1. \/ scan[s].verdict = "skip" /\ scan[s].link = "none" /\ suggestions[mail] = 0
        \/ scan[s].verdict # "skip" /\ scan[s].link = "stored"
    BY <1>1, <1>2, <1>4 DEF KnowsItsMail, Current
  <2>2. scan[s].verdict # "skip" => suggestions[mail] > 0
    BY <1>1, <1>2, <1>4 DEF EmailInv, SuggestionFirst
  <2>3. CASE scan[s].verdict = "skip"
    <3>1. scan[s].link = "none" /\ suggestions[mail] = 0
      BY <2>1, <2>3
    <3>2. row.actionable = FALSE /\ row.link = "none"
      BY <1>3, <2>3, <3>1
    <3> QED
      BY <3>1, <3>2
  <2>4. CASE scan[s].verdict # "skip"
    <3>1. row.actionable = TRUE /\ row.link = "stored" /\ suggestions[mail] > 0
      BY <1>3, <2>1, <2>2, <2>4
    <3> QED
      BY <3>1
  <2> QED
    BY <2>3, <2>4
<1>10. RowsAgree'
  <2> SUFFICES ASSUME NEW e \in Emails, NEW i \in DOMAIN scanned'[e]
               PROVE  /\ scanned'[e][i].actionable <=> (scanned'[e][i].link = "stored")
                      /\ scanned'[e][i].actionable <=> (suggestions'[e] > 0)
    BY DEF RowsAgree
  <2>1. CASE e = mail
    <3>1. i = 1 /\ scanned'[e][i] = row
      BY <1>8, <2>1
    <3> QED
      BY <1>1, <1>9, <2>1, <3>1
  <2>2. CASE e # mail
    BY <1>1, <1>8, <2>2 DEF OrderlyInv, RowsAgree
  <2> QED
    BY <2>1, <2>2
<1>11. KnowsItsMail(r)'
  <2>1. /\ r.pc \in {"idle", "analyze"}
        /\ r.pc = "analyze" => r.link = "none" /\ r.todo = rest
    <3>1. r = Idle \/ r = [Idle EXCEPT !.pc = "analyze", !.source = scan[s].source,
                                       !.todo = rest]
      BY <1>6 DEF AfterMail
    <3>2. CASE r = Idle
      BY <3>2 DEF Idle
    <3>3. CASE r = [Idle EXCEPT !.pc = "analyze", !.source = scan[s].source, !.todo = rest]
      BY <3>3 DEF Idle
    <3> QED
      BY <3>1, <3>2, <3>3
  <2>2. \A e \in rest : scanned'[e] = << >>
    BY <1>2, <1>4, <1>5, <1>8
  <2> QED
    BY <2>1, <2>2 DEF KnowsItsMail
<1>12. <<row>> # << >>
  <2>1. Len(<<row>>) = 1 /\ Len(<< >>) = 0
    OBVIOUS
  <2> QED
    BY <2>1
<1>13. \A e \in Emails : ~(scanned'[e] = << >> /\ suggestions'[e] > 0)
  <2> SUFFICES ASSUME NEW e \in Emails, scanned'[e] = << >> PROVE ~(suggestions[e] > 0)
    BY <1>1
  <2>1. e # mail
    BY <1>8, <1>12
  <2> QED
    BY <1>2, <1>4, <1>8, <2>1
<1> QED
  BY <1>1, <1>7, <1>10, <1>11, <1>13, OrderlyMoves

\* OrderlyInv holds of every reachable state.
THEOREM OrderlyInvAlways == Spec => [](EmailInv /\ OrderlyInv)
<1>1. Init => OrderlyInv
  <2> SUFFICES ASSUME Init PROVE OrderlyInv
    OBVIOUS
  <2>1. \A s \in Scans : scan[s].pc = "idle"
    BY DEF Init, Idle
  <2>2. \A s \in Scans : KnowsItsMail(scan[s])
    BY <2>1 DEF KnowsItsMail
  <2>3. RowsAgree /\ PendingIsInHand
    BY DEF Init, RowsAgree, PendingIsInHand
  <2> QED
    BY <2>2, <2>3 DEF OrderlyInv
<1>2. EmailInv /\ OrderlyInv /\ [Next]_vars => OrderlyInv'
  <2> SUFFICES ASSUME EmailInv, OrderlyInv, [Next]_vars PROVE OrderlyInv'
    OBVIOUS
  <2> USE BoundsAssumption
  <2>1. CASE ReceiveEmail \/ UNCHANGED vars
    <3>1. UNCHANGED <<suggestions, scanned, scan, failures, overlapped, rescanned>>
      BY <2>1 DEF ReceiveEmail, vars, tables, history
    <3> QED
      BY <3>1 DEF OrderlyInv, Orderly, RowsAgree, PendingIsInHand, Saves, Current, KnowsItsMail
  <2>2. ASSUME NEW s \in Scans, NEW source \in Sources, NEW rescan \in BOOLEAN,
               NEW listed \in SUBSET Newest(FetchLimit[source]),
               BeginScan(s, source, rescan, listed)
        PROVE  OrderlyInv'
    BY <2>2, BeginScanOrderly
  <2>3. ASSUME NEW s \in Scans, FailEmail(s) \/ Die(s) PROVE OrderlyInv'
    <3>1. failures' = failures + 1 /\ failures \in Nat
      BY <2>3 DEF FailEmail, Die, EmailInv, TypeOK
    <3> QED
      BY <3>1 DEF OrderlyInv, Orderly
  <2>4. ASSUME NEW s \in Scans, Step(s) PROVE OrderlyInv'
    BY <2>4, FilterOrderly, AnalyzeOrderly, ComposeDraftOrderly, CheckSuggestionOrderly,
       InsertSuggestionOrderly, LoadScannedOrderly, SaveScannedOrderly DEF Step
  <2> QED
    BY <2>1, <2>2, <2>3, <2>4 DEF Next, Step
<1> QED
  BY <1>1, <1>2, EmailInvAlways, PTL DEF Spec

\* Without overlaps, failures and rescans the row of an actionable mail links to
\* its stored suggestion, and a mail recorded as not actionable has none.
THEOREM LinksResolve == Spec => []LinksResolveWhenOrderly
<1>1. OrderlyInv => LinksResolveWhenOrderly
  BY DEF OrderlyInv, Orderly, RowsAgree, LinksResolveWhenOrderly
<1> QED
  BY <1>1, OrderlyInvAlways, PTL
==============================================================================
