-------------------------- MODULE WebClient_proofs --------------------------
(***************************************************************************)
(* Proofs about the web client.  The migration of the old records: in any  *)
(* number of tabs, whatever is refused and whoever is cut off, no record   *)
(* is dropped that the user has not decided about, and what is kept is     *)
(* whole.  The sessions: for any number of them and any size of a page,    *)
(* the view loses none while they start and end, except between the two    *)
(* parallel reads of a load.                                               *)
(***************************************************************************)
EXTENDS WebClientProps, TLAPS, FiniteSetTheorems, WellFoundedInduction

RecordPairs == [sessions : Values, quests : Values]

Store == [sessions : Values, quests : Values, marker : Modes \cup {Null},
          reference : RecordPairs \cup {Null}]

StoreTyped ==
    /\ store \in Store
    /\ original \in RecordPairs
    /\ chosen \subseteq Modes

\* A summary without a marker is what a call left that was cut off between
\* the two; a marker was asked for by the user.
LooseEnds ==
    /\ store.marker = Null => store.reference \in {Null, Original}
    /\ store.marker # Null => store.marker \in chosen

IInv == StoreTyped /\ LooseEnds /\ RecordsSafe
-----------------------------------------------------------------------------
\* What a clean-up removes are the records only (removeLegacySourceValues).
LEMMA RemovedParts ==
    ASSUME NEW s \in Store, NEW n \in 0 .. 2
    PROVE  /\ Removed(s, n) \in Store
           /\ Removed(s, n).marker = s.marker
           /\ Removed(s, n).reference = s.reference
           /\ n = 0 => Removed(s, n) = s
<1>1. CASE n = 0 BY <1>1 DEF Removed
<1>2. CASE n = 1 BY <1>2 DEF Removed, Store, Values
<1>3. CASE n = 2
  <2>1. Removed(s, n) = [s EXCEPT !.sessions = Null, !.quests = Null]
    BY <1>3 DEF Removed
  <2> DEFINE t == [s EXCEPT !.sessions = Null]
  <2>2. t \in Store /\ t.marker = s.marker /\ t.reference = s.reference
    BY DEF Store, Values
  <2>3. Removed(s, n) = [t EXCEPT !.quests = Null]
    BY <2>1 DEF Store
  <2> HIDE DEF t
  <2> QED BY <1>3, <2>2, <2>3 DEF Store, Values
<1> QED BY <1>1, <1>2, <1>3

\* Without a marker an inspection writes nothing.
LEMMA InspectedParts ==
    ASSUME NEW s \in Store, NEW n \in 0 .. 2
    PROVE  /\ Inspected(s, n) \in Store
           /\ Inspected(s, n).marker = s.marker
           /\ Inspected(s, n).reference = s.reference
           /\ s.marker = Null => Inspected(s, n) = s
BY RemovedParts DEF Inspected

LEMMA RecordsTyped ==
    ASSUME NEW s \in Store
    PROVE  Records(s) \in RecordPairs
BY DEF Records, RecordPairs, Store

\* The reference is written before the marker, and the marker before a record
\* is removed (completeLegacyDataMigration).
LEMMA WrittenParts ==
    ASSUME NEW s \in Store, NEW mode \in Modes, NEW n \in 0 .. 4
    PROVE  /\ Written(s, mode, n) \in Store
           /\ n = 0 => Written(s, mode, n) = s
           /\ n >= 1 => Written(s, mode, n).reference = Reference(s, mode)
           /\ n = 1 => /\ Written(s, mode, n).marker = s.marker
                       /\ Records(Written(s, mode, n)) = Records(s)
           /\ n >= 2 => Written(s, mode, n).marker = mode
<1>1. Reference(s, mode) \in RecordPairs \cup {Null}
  BY RecordsTyped DEF Reference
<1>2. CASE n = 0 BY <1>2 DEF Written
<1>3. CASE n = 1 BY <1>1, <1>3 DEF Written, Store, Records
<1>4. CASE n >= 2
  <2> DEFINE marked == [s EXCEPT !.reference = Reference(s, mode), !.marker = mode]
  <2>1. marked \in Store /\ marked.reference = Reference(s, mode) /\ marked.marker = mode
    BY <1>1 DEF Store
  <2>2. Written(s, mode, n) = Removed(marked, n - 2)
    BY <1>4 DEF Written
  <2>3. n - 2 \in 0 .. 2
    BY <1>4
  <2> HIDE DEF marked
  <2>4. /\ Removed(marked, n - 2) \in Store
        /\ Removed(marked, n - 2).reference = marked.reference
        /\ Removed(marked, n - 2).marker = marked.marker
    BY <2>1, <2>3, RemovedParts
  <2> QED BY <1>4, <2>1, <2>2, <2>4
<1> QED BY <1>2, <1>3, <1>4
-----------------------------------------------------------------------------
(* The steps                                                               *)

LEMMA InitIInv == Init => IInv
<1> SUFFICES ASSUME Init PROVE IInv
  OBVIOUS
<1>1. original \in RecordPairs /\ original = [sessions |-> original.sessions, quests |-> original.quests]
  BY MigrationAssumption DEF Init, LegacyInit, RecordPairs
<1>2. /\ store = [sessions |-> original.sessions, quests |-> original.quests, marker |-> Null, reference |-> Null]
      /\ chosen = {}
  BY DEF Init, LegacyInit
<1>3. StoreTyped
  BY <1>1, <1>2 DEF StoreTyped, Store, RecordPairs, Values
<1>4. LooseEnds
  BY <1>2 DEF LooseEnds
<1>5. Records(store) = Original
  BY <1>2 DEF Records, Original
<1>6. Null # "referenced"
  BY MigrationAssumption DEF Modes
<1>7. RecordsSafe
  BY <1>2, <1>5, <1>6 DEF RecordsSafe, DroppedOnlyDecided, KeptIsWhole
<1> QED BY <1>3, <1>4, <1>7 DEF IInv

\* A clean-up that was repeated, as far as it got, and nothing else.
LEMMA CleanedKeepsIInv ==
    ASSUME IInv, NEW n \in 0 .. 2, store' = Inspected(store, n),
           chosen \subseteq chosen', chosen' \subseteq Modes, UNCHANGED original
    PROVE  IInv'
<1>1. store \in Store
  BY DEF IInv, StoreTyped
<1>2. /\ store' \in Store
      /\ store'.marker = store.marker /\ store'.reference = store.reference
      /\ store.marker = Null => store' = store
  BY <1>1, InspectedParts
<1>3. StoreTyped'
  BY <1>2 DEF IInv, StoreTyped
<1>4. LooseEnds'
  BY <1>2 DEF IInv, LooseEnds, Original
<1>5. DroppedOnlyDecided'
  BY <1>2 DEF IInv, RecordsSafe, DroppedOnlyDecided, Original
<1>6. KeptIsWhole'
  BY <1>2 DEF IInv, RecordsSafe, KeptIsWhole, ReferenceShown, Original
<1> QED BY <1>3, <1>4, <1>5, <1>6 DEF IInv, RecordsSafe

\* The summary that a user who keeps the records is offered is made from all
\* of them, and they are good.
LEMMA SummaryIsWhole ==
    ASSUME IInv, MayComplete(store, "referenced")
    PROVE  /\ store.marker = Null
           /\ Inspected(store, 2) = store
           /\ Reference(store, "referenced") = Original
           /\ "BAD" \notin {original.sessions, original.quests}
<1>1. Inspection(store) = "ready"
  BY DEF MayComplete
<1>2. store.marker = Null /\ "BAD" \notin {store.sessions, store.quests}
  BY <1>1 DEF Inspection
<1>3. Records(store) = Original
  BY <1>2 DEF IInv, RecordsSafe, DroppedOnlyDecided
<1>4. store.sessions = original.sessions /\ store.quests = original.quests
  BY <1>3 DEF Records, Original
<1> QED BY <1>2, <1>3, <1>4 DEF Inspected, Reference

\* The writes of a choice, cut off after any number of them.
LEMMA WrittenKeepsIInv ==
    ASSUME IInv, NEW mode \in Modes, MayComplete(store, mode), NEW n \in 0 .. 4,
           store' = Written(Inspected(store, 2), mode, n),
           chosen' = chosen \cup {mode}, UNCHANGED original
    PROVE  IInv'
<1> DEFINE s == Inspected(store, 2)
           reference == Reference(s, mode)
<1>1. /\ s \in Store /\ s.marker = store.marker
      /\ store.marker = Null => s = store
  BY InspectedParts DEF IInv, StoreTyped
<1>2. /\ mode = "discarded" => reference = Null
      /\ mode = "referenced" => /\ reference = Original
                                /\ store.marker = Null
                                /\ "BAD" \notin {original.sessions, original.quests}
  BY SummaryIsWhole DEF Reference
<1>3. mode \in {"referenced", "discarded"} /\ mode # Null
  BY MigrationAssumption DEF Modes
<1>4. Original # Null
  BY MigrationAssumption, RecordsTyped DEF IInv, StoreTyped, Original, Records, RecordPairs
<1>5. chosen' \subseteq Modes /\ mode \in chosen' /\ chosen \subseteq chosen'
  BY DEF IInv, StoreTyped
<1>6. Original' = Original
  BY DEF Original
<1> HIDE DEF s, reference
<1>7. store' = Written(s, mode, n) /\ reference = Reference(s, mode)
  BY DEF s, reference
<1>8. /\ Written(s, mode, n) \in Store
      /\ n = 0 => Written(s, mode, n) = s
      /\ n >= 1 => Written(s, mode, n).reference = reference
      /\ n = 1 => /\ Written(s, mode, n).marker = s.marker
                  /\ Records(Written(s, mode, n)) = Records(s)
      /\ n >= 2 => Written(s, mode, n).marker = mode
  <2>1. s \in Store
    BY <1>1
  <2> QED BY <1>7, <2>1, WrittenParts
<1>9. CASE n = 0
  <2>1. store' = Inspected(store, 2)
    BY <1>7, <1>8, <1>9 DEF s
  <2> QED BY <1>5, <2>1, CleanedKeepsIInv
<1>10. CASE n = 1
  <2>1. /\ store' \in Store /\ store'.marker = store.marker /\ store'.reference = reference
        /\ Records(store') = Records(s)
    BY <1>1, <1>7, <1>8, <1>10
  <2>2. StoreTyped'
    BY <1>5, <2>1 DEF IInv, StoreTyped
  <2>3. LooseEnds'
    BY <1>2, <1>3, <1>5, <1>6, <2>1 DEF IInv, LooseEnds
  <2>4. DroppedOnlyDecided'
    BY <1>1, <1>6, <2>1 DEF IInv, RecordsSafe, DroppedOnlyDecided
  <2>5. KeptIsWhole'
    <3> SUFFICES ASSUME store.marker = "referenced"
                 PROVE  /\ "BAD" \notin {original.sessions, original.quests}
                        /\ reference = Null /\ "discarded" \in chosen'
      BY <2>1 DEF KeptIsWhole, ReferenceShown
    <3>1. store.marker # Null
      BY MigrationAssumption DEF Modes
    <3>2. mode = "discarded"
      BY <1>2, <1>3, <3>1
    <3> QED BY <1>2, <1>5, <3>2 DEF IInv, RecordsSafe, KeptIsWhole
  <2> QED BY <2>2, <2>3, <2>4, <2>5 DEF IInv, RecordsSafe
<1>11. CASE n >= 2
  <2>1. store' \in Store /\ store'.marker = mode /\ store'.reference = reference
    BY <1>7, <1>8, <1>11
  <2>2. StoreTyped'
    BY <1>5, <2>1 DEF IInv, StoreTyped
  <2>3. LooseEnds'
    BY <1>3, <1>5, <2>1 DEF LooseEnds
  <2>4. DroppedOnlyDecided'
    BY <1>3, <2>1 DEF DroppedOnlyDecided
  <2>5. KeptIsWhole'
    BY <1>2, <1>4, <1>6, <2>1 DEF KeptIsWhole, ReferenceShown
  <2> QED BY <2>2, <2>3, <2>4, <2>5 DEF IInv, RecordsSafe
<1> QED BY <1>9, <1>10, <1>11

LEMMA StutterKeepsIInv ==
    ASSUME IInv, UNCHANGED <<store, chosen, original>>
    PROVE  IInv'
BY DEF IInv, StoreTyped, LooseEnds, RecordsSafe, DroppedOnlyDecided, KeptIsWhole,
       ReferenceShown, Original

LEMMA OpenTabKeepsIInv ==
    ASSUME IInv, NEW t \in Tabs, OpenTab(t)
    PROVE  IInv'
<1>1. UNCHANGED <<chosen, original>> /\ chosen' \subseteq Modes
  BY DEF OpenTab, IInv, StoreTyped
<1>2. \/ UNCHANGED store
      \/ \E n \in 0 .. 2 : store' = Inspected(store, n)
  BY DEF OpenTab
<1> QED BY <1>1, <1>2, StutterKeepsIInv, CleanedKeepsIInv

LEMMA ChooseKeepsIInv ==
    ASSUME IInv, NEW t \in Tabs, NEW mode \in Modes, Choose(t, mode)
    PROVE  IInv'
<1>1. chosen' = chosen \cup {mode} /\ UNCHANGED original
  BY DEF Choose
<1>2. chosen \subseteq chosen' /\ chosen' \subseteq Modes
  BY <1>1 DEF IInv, StoreTyped
<1>3. CASE ~MayComplete(store, mode)
  <2>1. store' = Inspected(store, 2)
    BY <1>3 DEF Choose
  <2> QED BY <1>1, <1>2, <2>1, CleanedKeepsIInv
<1>4. CASE MayComplete(store, mode)
  <2>1. \/ \E n \in 0 .. 4 : store' = Written(Inspected(store, 2), mode, n)
        \/ store' = store
    BY <1>4 DEF Choose
  <2>2. CASE store' = store
    <3>1. StoreTyped'
      BY <1>1, <1>2, <2>2 DEF IInv, StoreTyped
    <3> QED BY <1>1, <1>2, <2>2, <3>1
            DEF IInv, LooseEnds, RecordsSafe, DroppedOnlyDecided, KeptIsWhole, ReferenceShown, Original
  <2>3. CASE \E n \in 0 .. 4 : store' = Written(Inspected(store, 2), mode, n)
    BY <1>1, <1>4, <2>3, WrittenKeepsIInv
  <2> QED BY <2>1, <2>2, <2>3
<1> QED BY <1>3, <1>4

LEMMA NextIInv == IInv /\ [Next]_vars => IInv'
<1> SUFFICES ASSUME IInv, [Next]_vars PROVE IInv'
  OBVIOUS
<1>1. CASE \E t \in Tabs : GateStep(t)
  <2> PICK t \in Tabs : LegacyStep(t)
    BY <1>1 DEF GateStep
  <2>1. CASE OpenTab(t)
    BY <2>1, OpenTabKeepsIInv
  <2>2. CASE CloseTab(t)
    BY <2>2, StutterKeepsIInv DEF CloseTab
  <2>3. CASE \E mode \in Modes : Choose(t, mode)
    BY <2>3, ChooseKeepsIInv
  <2> QED BY <2>1, <2>2, <2>3 DEF LegacyStep
<1>2. CASE MountedStep \/ LogInAnew \/ (gate[Tab] = "PASSED" /\ ServerStep /\ UNCHANGED legacyVars) \/ UNCHANGED vars
  <2>1. UNCHANGED <<store, chosen, original>>
    BY <1>2 DEF MountedStep, LogInAnew, vars, legacyVars
  <2> QED BY <2>1, StutterKeepsIInv
<1> QED BY <1>1, <1>2 DEF Next

\* In any number of tabs, whatever access is refused and wherever a call is cut
\* off, the old records are kept as the user decided (LegacyMigration).
THEOREM RecordsAreSafe == Spec => []RecordsSafe
<1>1. IInv => RecordsSafe
  BY DEF IInv
<1> QED BY InitIInv, NextIInv, <1>1, PTL DEF Spec

-----------------------------------------------------------------------------
(* A page of the history.                                                   *)

LEMMA LeastElement ==
    ASSUME NEW S \in SUBSET Nat, S # {}
    PROVE  \E m \in S : \A k \in S : m <= k
<1>1. PICK m \in S : \A k \in S : ~ (<<k, m>> \in OpToRel(<, Nat))
  BY NatLessThanWellFounded, WFMin
<1>2. \A k \in S : ~ (k < m)
  BY <1>1 DEF OpToRel
<1> QED
  BY <1>2

LEMMA GreatestElement ==
    ASSUME NEW S \in SUBSET Ids, S # {}
    PROVE  \E m \in S : \A k \in S : k <= m
<1> DEFINE Down == {n \in Nat : \E k \in S : n = MaxSessions - k}
<1>1. MaxSessions \in Nat /\ S \subseteq Nat
  BY ViewAssumption DEF Ids
<1>2. \A k \in S : MaxSessions - k \in Down
  BY <1>1 DEF Ids
<1>3. PICK n \in Down : \A k \in Down : n <= k
  <2>1. Down # {} /\ Down \in SUBSET Nat
    BY <1>2
  <2> HIDE DEF Down
  <2> QED
    BY <2>1, LeastElement
<1>4. PICK m \in S : n = MaxSessions - m
  BY <1>3
<1>5. \A k \in S : k <= m
  BY <1>1, <1>2, <1>3, <1>4
<1> QED
  BY <1>5

LEMMA SmallerSet ==
    ASSUME NEW A \in SUBSET Ids, NEW B \in SUBSET Ids, A \subseteq B
    PROVE  /\ Cardinality(A) \in Nat /\ Cardinality(B) \in Nat
           /\ Cardinality(A) <= Cardinality(B)
<1>1. IsFiniteSet(Ids)
  BY ViewAssumption, FS_Interval DEF Ids
<1>2. IsFiniteSet(B)
  BY <1>1, FS_Subset
<1> QED
  BY <1>2, FS_Subset, FS_CardinalityType

\* Whatever is below the cursor and not below the next one is on the page.
LEMMA PageIsWhole ==
    ASSUME NEW cursor \in 1 .. FromTheTop
    PROVE  /\ PageBelow(cursor) \subseteq Started
           /\ NextCursor(cursor) \in 0 .. FromTheTop
           /\ \A i \in Started : NextCursor(cursor) <= i /\ i < cursor => i \in PageBelow(cursor)
<1> DEFINE below == {i \in Started : i < cursor}
           page == PageBelow(cursor)
           Above(i) == {j \in below : j > i}
<1>1. page = {i \in below : Cardinality(Above(i)) < PageSize}
  BY DEF PageBelow
<1>2. below \subseteq Ids /\ Ids \subseteq Nat /\ MaxSessions \in Nat /\ PageSize \in Nat \ {0}
  BY ViewAssumption DEF Started, Ids
<1>3. page \subseteq below
  BY <1>1
<1>4. NextCursor(cursor) = IF below = page THEN TheEnd ELSE CHOOSE i \in page : \A j \in page : i <= j
  BY DEF NextCursor
<1>5. CASE below = page
  BY <1>2, <1>3, <1>4, <1>5 DEF TheEnd, FromTheTop
<1>6. CASE below # page
  <2>1. PICK m \in below : \A k \in below : k <= m
    <3>1. below # {}
      BY <1>3, <1>6
    <3> HIDE DEF below
    <3> QED
      BY <1>2, <3>1, GreatestElement
  <2>2. Above(m) = {}
    <3>1. below \subseteq Nat
      BY <1>2
    <3> HIDE DEF below
    <3>2. \A j \in below : ~ (j > m)
      BY <2>1, <3>1
    <3> QED
      BY <3>2
  <2>3. m \in page
    <3>1. Cardinality(Above(m)) = 0
      BY <2>2, FS_EmptySet
    <3> HIDE DEF page, below, Above
    <3> QED
      BY <1>1, <1>2, <2>1, <3>1
  <2>4. \E i \in page : \A j \in page : i <= j
    <3>1. page # {} /\ page \in SUBSET Nat
      BY <1>2, <1>3, <2>3
    <3> HIDE DEF page
    <3> QED
      BY <3>1, LeastElement
  <2>5. PICK c \in page : c = NextCursor(cursor) /\ \A j \in page : c <= j
    <3> HIDE DEF page, below
    <3> QED
      BY <1>4, <1>6, <2>4
  <2>6. ASSUME NEW i \in below, c <= i PROVE i \in page
    <3>1. Above(i) \subseteq Above(c)
      <4>1. below \subseteq Nat /\ c \in below
        BY <1>2, <1>3
      <4> HIDE DEF below, page
      <4>2. \A j \in below : j > i => j > c
        BY <2>6, <4>1
      <4> QED
        BY <4>2
    <3>2. Above(i) \in SUBSET Ids /\ Above(c) \in SUBSET Ids
      BY <1>2
    <3> HIDE DEF page, below, Above
    <3>3. Cardinality(Above(i)) \in Nat /\ Cardinality(Above(c)) \in Nat
          /\ Cardinality(Above(i)) <= Cardinality(Above(c))
      BY <3>1, <3>2, SmallerSet
    <3>4. Cardinality(Above(c)) < PageSize
      BY <1>1
    <3>5. Cardinality(Above(i)) < PageSize
      BY <1>2, <3>3, <3>4
    <3> QED
      BY <1>1, <3>5
  <2>7. c \in 0 .. FromTheTop
    BY <1>2, <1>3 DEF Ids, FromTheTop
  <2> QED
    BY <1>3, <2>5, <2>6, <2>7
<1> QED
  BY <1>5, <1>6

-----------------------------------------------------------------------------
(* The sessions of the view.                                                *)

Requests ==
    [kind : {"LOAD", "POLL"}, activeRead : BOOLEAN, active : SUBSET Ids,
     historyBegun : BOOLEAN, cursor : 0 .. FromTheTop, over : SUBSET Ids, known : SUBSET Ids]
Statuses == {"unmounted", "loading", "ready", "error", "unauthenticated"}

ViewTyped ==
    /\ server \in [Ids -> {"NONE", "ACTIVE", "OVER"}]
    /\ view \in [status : Statuses, active : SUBSET Ids, completed : SUBSET Ids]
    /\ request \in Requests \cup {NoRequest}
    /\ polling \in BOOLEAN
    /\ shown \subseteq Ids /\ slipped \subseteq Ids

\* What has been read of the history: sessions that are over, and of those it
\* was asked for each one down to the cursor.
HistoryOK(r) ==
    /\ r.over \subseteq With("OVER") /\ r.known \subseteq With("OVER")
    /\ \A i \in r.known : r.cursor <= i => i \in r.over

\* What a load will show of the sessions shown before: those it reads as active,
\* and those that are over, when they have been read or will be.
ReadsAnew(r) ==
    \A i \in shown \ slipped :
        \/ i \in IF r.activeRead THEN r.active ELSE With("ACTIVE")
        \/ i \in r.over
        \/ i \in With("OVER") /\ i < r.cursor

\* A load begins with the history.  A poll asks for it when a session that was
\* shown as an active one is missing: that one is over by then.
RequestOK(r) ==
    /\ r.active \subseteq Started
    /\ HistoryOK(r)
    /\ ~ r.historyBegun => r.cursor = FromTheTop
    /\ r.kind = "LOAD" => view.status = "loading" /\ r.historyBegun /\ ReadsAnew(r)
    /\ r.kind = "POLL" =>
           /\ view.status = "ready"
           /\ IF r.historyBegun THEN shown \subseteq view.active \cup r.known
              ELSE /\ shown \subseteq view.active \cup view.completed \cup slipped
                   /\ r.activeRead => view.active \subseteq r.active \cup With("OVER")

ViewOK ==
    /\ ViewTyped
    /\ view.active \subseteq Started /\ view.completed \subseteq With("OVER")
    /\ shown \subseteq Started /\ slipped \subseteq With("OVER")
    /\ request # NoRequest => RequestOK(request)
    /\ polling <=> request # NoRequest /\ request.kind = "POLL"
    /\ NothingLost

\* The provider is mounted behind a gate that is passed.
GateOK ==
    /\ gate \in [Tabs -> {"CLOSED", "PASSED", "ready", "corrupted"}]
    /\ view.status # "unmounted" => gate[Tab] = "PASSED"

\* A record is there as the old product left it, or not at all.
SourcesKept ==
    /\ store.sessions \in {Null, original.sessions}
    /\ store.quests \in {Null, original.quests}

LEMMA RequestTyped ==
    ASSUME NEW r \in Requests
    PROVE  r # NoRequest
<1>1. MaxSessions \in Nat
  BY ViewAssumption
<1>2. SUBSET Ids \subseteq SUBSET Nat /\ 0 .. FromTheTop \subseteq Nat
  BY <1>1 DEF Ids, FromTheTop
<1>3. r \in [kind : {"LOAD", "POLL"}, activeRead : BOOLEAN, active : SUBSET Nat,
             historyBegun : BOOLEAN, cursor : Nat, over : SUBSET Nat, known : SUBSET Nat]
  BY <1>2 DEF Requests
<1> QED
  BY <1>3, ViewAssumption

LEMMA OverIsStarted == With("OVER") \subseteq Started /\ With("ACTIVE") \subseteq Started /\ Started \subseteq Ids
BY DEF With, Started

\* A session that ends during a load is one it has read as active, or one that
\* it will read as over, or else it ends between the two reads.
LEMMA ServerReadsAnew ==
    ASSUME ViewOK, ServerStep, request # NoRequest, request.kind = "LOAD"
    PROVE  ReadsAnew(request)'
<1>1. UNCHANGED request /\ UNCHANGED shown
  BY DEF ServerStep, StartSession, EndSession, SignOut
<1>2. request \in Requests /\ ReadsAnew(request) /\ request.over \subseteq With("OVER")
      /\ shown \subseteq Started /\ server \in [Ids -> {"NONE", "ACTIVE", "OVER"}]
  BY DEF ViewOK, ViewTyped, RequestOK, HistoryOK
<1>3. PICK cursor \in 0 .. FromTheTop : cursor = request.cursor
  BY <1>2 DEF Requests
<1>4. PICK read \in BOOLEAN : read = request.activeRead
  BY <1>2 DEF Requests
<1>5. PICK active : active = request.active
  OBVIOUS
<1>6. PICK over : over = request.over
  OBVIOUS
<1>7. \A i \in shown \ slipped : \/ i \in IF read THEN active ELSE With("ACTIVE")
                                 \/ i \in over
                                 \/ i \in With("OVER") /\ i < cursor
  BY <1>2, <1>3, <1>4, <1>5, <1>6 DEF ReadsAnew
<1>8. ASSUME NEW i \in shown' \ slipped'
      PROVE  \/ i \in IF read THEN active ELSE With("ACTIVE")'
             \/ i \in over
             \/ i \in With("OVER")' /\ i < cursor
  <2>1. i \in Ids /\ i \in shown /\ server[i] \in {"ACTIVE", "OVER"}
    BY <1>1, <1>2, <1>8 DEF Started
  <2>2. CASE \E k \in Ids : StartSession(k)
    <3>1. PICK k \in Ids : StartSession(k)
      BY <2>2
    <3>2. server[k] = "NONE" /\ server' = [server EXCEPT ![k] = "ACTIVE"] /\ slipped' = slipped
      BY <3>1 DEF StartSession
    <3>3. server'[i] = server[i]
      BY <1>2, <2>1, <3>2
    <3> QED
      BY <1>7, <1>8, <2>1, <3>2, <3>3 DEF With
  <2>3. CASE \E k \in Ids : EndSession(k)
    <3>1. PICK k \in Ids : EndSession(k)
      BY <2>3
    <3>2. /\ server[k] = "ACTIVE" /\ server' = [server EXCEPT ![k] = "OVER"]
          /\ slipped' = IF ~ read /\ cursor <= k THEN slipped \cup {k} ELSE slipped
      BY <1>3, <1>4, <3>1 DEF EndSession, BetweenReads
    <3>3. i \notin slipped
      BY <1>8, <3>2
    <3>4. CASE i # k
      <4>1. server'[i] = server[i]
        BY <1>2, <2>1, <3>2, <3>4
      <4> QED
        BY <1>7, <2>1, <3>3, <4>1 DEF With
    <3>5. CASE i = k
      <4>1. server'[i] = "OVER" /\ i \notin With("OVER")
        BY <1>2, <2>1, <3>2, <3>5 DEF With
      <4>2. read \/ ~ (cursor <= i)
        BY <1>8, <3>2, <3>5
      <4>3. cursor \in Int /\ i \in Int
        BY <2>1, <1>3, ViewAssumption DEF Ids, FromTheTop
      <4> QED
        BY <1>7, <2>1, <3>3, <4>1, <4>2, <4>3 DEF With
    <3> QED
      BY <3>4, <3>5
  <2>4. CASE SignOut
    <3>1. server' = server /\ slipped' = slipped
      BY <2>4 DEF SignOut
    <3> QED
      BY <1>7, <1>8, <2>1, <3>1 DEF With
  <2> QED
    BY <2>2, <2>3, <2>4 DEF ServerStep
<1>9. request'.cursor = cursor /\ request'.activeRead = read /\ request'.active = active /\ request'.over = over
  BY <1>1, <1>3, <1>4, <1>5, <1>6
<1> QED
  BY <1>8, <1>9 DEF ReadsAnew

\* Sessions start and end, and none comes back.
LEMMA ServerKeepsView ==
    ASSUME ViewOK, ServerStep
    PROVE  ViewOK' /\ UNCHANGED view
<1>1. UNCHANGED <<view, request, polling, shown>>
  BY DEF ServerStep, StartSession, EndSession, SignOut
<1>2. server' \in [Ids -> {"NONE", "ACTIVE", "OVER"}]
      /\ \A i \in Ids : /\ server[i] # "NONE" => server'[i] # "NONE"
                        /\ server[i] = "OVER" => server'[i] = "OVER"
  BY DEF ServerStep, StartSession, EndSession, SignOut, ViewOK, ViewTyped
<1>3. Started \subseteq Started' /\ With("OVER") \subseteq With("OVER")'
  BY <1>2 DEF Started, With
<1>4. slipped \subseteq slipped' /\ slipped' \subseteq With("OVER")'
  <2>1. CASE slipped' = slipped
    BY <1>3, <2>1 DEF ViewOK
  <2>2. ASSUME NEW k \in Ids, EndSession(k)
        PROVE  slipped \subseteq slipped' /\ slipped' \subseteq With("OVER")'
    <3>1. slipped \subseteq slipped' /\ slipped' \subseteq slipped \cup {k} /\ server' = [server EXCEPT ![k] = "OVER"]
      BY <2>2 DEF EndSession
    <3>2. k \in With("OVER")'
      BY <3>1 DEF ViewOK, ViewTyped, With
    <3>3. slipped \subseteq With("OVER")
      BY DEF ViewOK
    <3> QED
      BY <1>3, <3>1, <3>2, <3>3
  <2> QED
    BY <2>1, <2>2 DEF ServerStep, StartSession, SignOut
<1>5. ViewTyped'
  <2>1. With("OVER")' \subseteq Ids
    BY DEF With
  <2> QED
    BY <1>1, <1>2, <1>4, <2>1 DEF ViewOK, ViewTyped
<1>6. view'.active \subseteq Started' /\ view'.completed \subseteq With("OVER")' /\ shown' \subseteq Started'
  BY <1>1, <1>3 DEF ViewOK
<1>7. ASSUME request # NoRequest PROVE RequestOK(request)'
  <2>1. PICK r : r = request
    OBVIOUS
  <2>2. RequestOK(r)
    BY <1>7, <2>1 DEF ViewOK
  <2>3. HistoryOK(r)'
    BY <1>3, <2>2 DEF RequestOK, HistoryOK
  <2>4. r.kind = "LOAD" => ReadsAnew(r)'
    BY <1>1, <1>7, <2>1, ServerReadsAnew DEF ReadsAnew
  <2>5. RequestOK(r)'
    BY <1>1, <1>3, <1>4, <2>2, <2>3, <2>4 DEF RequestOK
  <2> QED
    BY <1>1, <2>1, <2>5 DEF RequestOK, HistoryOK, ReadsAnew
<1>8. NothingLost'
  BY <1>1, <1>4 DEF ViewOK, NothingLost
<1> QED
  BY <1>1, <1>4, <1>5, <1>6, <1>7, <1>8 DEF ViewOK

-----------------------------------------------------------------------------
(* Steps of the provider.                                                   *)

\* A request is under way, and what it has read is better known.
LEMMA RequestGoesOn ==
    ASSUME ViewOK, NEW r \in Requests, request # NoRequest, request' = r,
           r.kind = request.kind, r.historyBegun = request.historyBegun,
           RequestOK(r), UNCHANGED <<server, view, polling, shown, slipped>>
    PROVE  ViewOK'
<1>1. request' # NoRequest
  BY RequestTyped
<1>2. Started' = Started /\ With("OVER")' = With("OVER") /\ With("ACTIVE")' = With("ACTIVE")
  BY DEF Started, With
<1>3. RequestOK(r)'
  BY <1>2 DEF RequestOK, HistoryOK, ReadsAnew
<1>4. RequestOK(request)'
  BY <1>3 DEF RequestOK, HistoryOK, ReadsAnew
<1> QED
  BY <1>1, <1>2, <1>4 DEF ViewOK, ViewTyped, NothingLost

LEMMA NewRequest ==
    ASSUME ViewOK, NEW kind \in {"LOAD", "POLL"}
    PROVE  /\ Request(kind) \in Requests /\ Request(kind) # NoRequest
           /\ HistoryOK(Request(kind))
           /\ Request(kind).kind = kind /\ Request(kind).active = {}
           /\ Request(kind).activeRead = FALSE /\ Request(kind).cursor = FromTheTop
           /\ Request(kind).historyBegun = (kind = "LOAD")
<1>1. FromTheTop \in 0 .. FromTheTop /\ \A i \in Ids : ~ (FromTheTop <= i)
  BY ViewAssumption DEF FromTheTop, Ids
<1>2. With("OVER") \subseteq Ids
  BY DEF With
<1>3. PICK r : r = Request(kind)
  OBVIOUS
<1>4. r \in Requests
  BY <1>1, <1>2, <1>3 DEF Request, Requests
<1>5. /\ r.known \subseteq With("OVER") /\ r.over = {} /\ r.cursor = FromTheTop
      /\ r.kind = kind /\ r.active = {} /\ r.activeRead = FALSE
      /\ r.historyBegun = (kind = "LOAD")
  BY <1>3 DEF Request
<1>6. HistoryOK(r)
  BY <1>1, <1>2, <1>5 DEF HistoryOK
<1> QED
  BY <1>3, <1>4, <1>5, <1>6, RequestTyped

\* A session that has been shown is active, or over and below the top.
LEMMA SynchronizeKeepsView ==
    ASSUME ViewOK, SynchronizeAll
    PROVE  ViewOK'
<1>1. /\ request = NoRequest /\ request' = Request("LOAD")
      /\ view' = [view EXCEPT !.status = "loading"]
      /\ slipped' = {}
      /\ UNCHANGED <<server, polling, shown>>
  BY DEF SynchronizeAll, viewServer
<1>2. PICK r \in Requests : r = Request("LOAD") /\ r # NoRequest /\ HistoryOK(r)
          /\ r.kind = "LOAD" /\ r.active = {} /\ r.historyBegun /\ r.cursor = FromTheTop
          /\ r.activeRead = FALSE
  BY NewRequest
<1>3. /\ view' \in [status : Statuses, active : SUBSET Ids, completed : SUBSET Ids]
      /\ view'.status = "loading" /\ view'.active = view.active /\ view'.completed = view.completed
  BY <1>1 DEF ViewOK, ViewTyped, Statuses
<1>4. Started' = Started /\ With("OVER")' = With("OVER") /\ With("ACTIVE")' = With("ACTIVE")
  BY <1>1 DEF Started, With
<1>5. ReadsAnew(r)'
  <2>1. \A i \in shown : i \in With("ACTIVE") \/ (i \in With("OVER") /\ i < FromTheTop)
    <3>1. \A i \in Ids : i < FromTheTop
      BY ViewAssumption DEF Ids, FromTheTop
    <3> QED
      BY <3>1 DEF ViewOK, ViewTyped, Started, With
  <2> QED
    BY <1>1, <1>2, <1>4, <2>1 DEF ReadsAnew
<1>6. RequestOK(r)'
  BY <1>2, <1>3, <1>4, <1>5 DEF RequestOK, HistoryOK
<1>7. RequestOK(request)'
  BY <1>1, <1>2, <1>6 DEF RequestOK, HistoryOK, ReadsAnew
<1>8. ViewTyped'
  BY <1>1, <1>2, <1>3 DEF ViewOK, ViewTyped
<1> QED
  BY <1>1, <1>2, <1>3, <1>4, <1>7, <1>8 DEF ViewOK, NothingLost

LEMMA RefreshKeepsView ==
    ASSUME ViewOK, RefreshActiveSession
    PROVE  ViewOK'
<1>1. /\ view.status = "ready" /\ ~ polling
      /\ request' = Request("POLL") /\ polling' = TRUE
      /\ UNCHANGED <<server, view, shown, slipped>>
  BY DEF RefreshActiveSession, viewServer
<1>2. request = NoRequest
  BY <1>1 DEF ViewOK, RequestOK, ViewTyped, Requests
<1>3. shown \subseteq view.active \cup view.completed \cup slipped
  BY <1>1, <1>2 DEF ViewOK, NothingLost
<1>4. PICK r \in Requests : r = Request("POLL") /\ r # NoRequest /\ HistoryOK(r)
          /\ r.kind = "POLL" /\ r.active = {} /\ r.historyBegun = FALSE /\ r.activeRead = FALSE
          /\ r.cursor = FromTheTop
  BY NewRequest
<1>5. Started' = Started /\ With("OVER")' = With("OVER")
  BY <1>1 DEF Started, With
<1>6. RequestOK(r)'
  BY <1>1, <1>3, <1>4, <1>5 DEF RequestOK, HistoryOK
<1>7. RequestOK(request)'
  BY <1>1, <1>4, <1>6 DEF RequestOK, HistoryOK
<1>8. ViewTyped'
  BY <1>1, <1>4 DEF ViewOK, ViewTyped
<1> QED
  BY <1>1, <1>4, <1>5, <1>7, <1>8 DEF ViewOK, NothingLost

\* A session that was shown as active and is not read as active is over.
LEMMA ReadActiveKeepsView ==
    ASSUME ViewOK, ReadActive
    PROVE  ViewOK'
<1>1. /\ request # NoRequest /\ ~ request.activeRead
      /\ request' = [request EXCEPT !.activeRead = TRUE, !.active = With("ACTIVE")]
      /\ UNCHANGED <<server, view, polling, shown, slipped>>
  BY DEF ReadActive, GetActiveSessions, viewServer
<1>2. request \in Requests /\ RequestOK(request)
  BY <1>1 DEF ViewOK, ViewTyped
<1>3. PICK r : r = [request EXCEPT !.activeRead = TRUE, !.active = With("ACTIVE")]
  OBVIOUS
<1>4. /\ r \in Requests
      /\ r.kind = request.kind /\ r.historyBegun = request.historyBegun
      /\ r.cursor = request.cursor /\ r.over = request.over /\ r.known = request.known
      /\ r.active = With("ACTIVE") /\ r.activeRead
  BY <1>2, <1>3, OverIsStarted DEF Requests
<1>5. Started \subseteq With("ACTIVE") \cup With("OVER")
  BY DEF Started, With, ViewOK, ViewTyped
<1>6. view.active \subseteq r.active \cup With("OVER")
  BY <1>4, <1>5 DEF ViewOK
<1>7. r.kind = "LOAD" => ReadsAnew(r)
  BY <1>1, <1>2, <1>4 DEF RequestOK, ReadsAnew
<1>8. RequestOK(r)
  BY <1>2, <1>4, <1>6, <1>7, OverIsStarted DEF RequestOK, HistoryOK
<1> QED
  BY <1>1, <1>3, <1>4, <1>8, RequestGoesOn

\* Every session the history was asked for that is on the page is read: it
\* was over then, and stays so.
LEMMA ReadPageKeepsView ==
    ASSUME ViewOK, ReadHistoryPage
    PROVE  ViewOK'
<1>1. /\ request # NoRequest /\ request.historyBegun /\ request.cursor # TheEnd
      /\ request' = [request EXCEPT !.over = @ \cup (PageBelow(request.cursor) \cap With("OVER")),
                                    !.cursor = NextCursor(request.cursor)]
      /\ UNCHANGED <<server, view, polling, shown, slipped>>
  BY DEF ReadHistoryPage, viewServer
<1>2. request \in Requests /\ RequestOK(request)
  BY <1>1 DEF ViewOK, ViewTyped
<1>3. PICK cursor \in 1 .. FromTheTop : cursor = request.cursor
  BY <1>1, <1>2, ViewAssumption DEF Requests, TheEnd, FromTheTop
<1>4. PICK page : page = PageBelow(cursor)
  OBVIOUS
<1>5. PICK next \in 0 .. FromTheTop : next = NextCursor(cursor)
  BY PageIsWhole
<1>6. \A i \in Started : next <= i /\ i < cursor => i \in page
  BY <1>4, <1>5, PageIsWhole
<1>7. PICK r : r = [request EXCEPT !.over = request.over \cup (page \cap With("OVER")), !.cursor = next]
  OBVIOUS
<1>8. /\ r \in Requests
      /\ r.kind = request.kind /\ r.historyBegun = request.historyBegun
      /\ r.activeRead = request.activeRead /\ r.active = request.active
      /\ r.known = request.known /\ r.cursor = next
      /\ r.over = request.over \cup (page \cap With("OVER"))
  BY <1>2, <1>7, OverIsStarted DEF Requests
<1>9. HistoryOK(r)
  <2>1. r.over \subseteq With("OVER") /\ r.known \subseteq With("OVER")
    BY <1>2, <1>8 DEF RequestOK, HistoryOK
  <2>2. ASSUME NEW i \in r.known, next <= i PROVE i \in r.over
    <3>1. i \in With("OVER") /\ i \in Started /\ i \in Ids
      BY <2>1, OverIsStarted
    <3>2. CASE cursor <= i
      BY <1>2, <1>3, <1>8, <3>2 DEF RequestOK, HistoryOK
    <3>3. CASE ~ (cursor <= i)
      <4>1. i < cursor
        BY <3>1, <3>3, ViewAssumption DEF Ids
      <4> QED
        BY <1>6, <1>8, <2>2, <3>1, <4>1
    <3> QED
      BY <3>2, <3>3
  <2> QED
    BY <1>8, <2>1, <2>2 DEF HistoryOK
<1>10. r.kind = "LOAD" => ReadsAnew(r)
  <2> SUFFICES ASSUME r.kind = "LOAD", NEW i \in shown \ slipped
               PROVE  \/ i \in IF r.activeRead THEN r.active ELSE With("ACTIVE")
                      \/ i \in r.over
                      \/ i \in With("OVER") /\ i < r.cursor
    BY DEF ReadsAnew
  <2>1. \/ i \in IF r.activeRead THEN r.active ELSE With("ACTIVE")
        \/ i \in request.over
        \/ i \in With("OVER") /\ i < cursor
    BY <1>2, <1>3, <1>8 DEF RequestOK, ReadsAnew
  <2>2. ASSUME i \in With("OVER"), i < cursor
        PROVE  i \in page \/ i < next
    <3>1. i \in Started /\ i \in Ids
      BY <2>2, OverIsStarted
    <3>2. MaxSessions \in Nat
      BY ViewAssumption
    <3>3. i \in Int /\ next \in Int
      BY <1>5, <3>1, <3>2 DEF Ids, FromTheTop
    <3> QED
      BY <1>6, <2>2, <3>1, <3>3
  <2> QED
    BY <1>8, <2>1, <2>2
<1>11. RequestOK(r)
  BY <1>1, <1>2, <1>8, <1>9, <1>10 DEF RequestOK
<1>12. request' = r
  BY <1>1, <1>3, <1>4, <1>5, <1>7
<1> QED
  BY <1>1, <1>8, <1>11, <1>12, RequestGoesOn

\* The request is over, and the view shows what it shows.
LEMMA RestKeepsView ==
    ASSUME ViewOK, request' = NoRequest, polling' = FALSE, server' = server,
           NEW status \in Statuses, NEW active \in SUBSET Started, NEW completed \in SUBSET With("OVER"),
           view' = [status |-> status, active |-> active, completed |-> completed],
           shown' \subseteq Started, slipped' \subseteq With("OVER"),
           status = "ready" => shown' \subseteq active \cup completed \cup slipped'
    PROVE  ViewOK'
<1>1. Started' = Started /\ With("OVER")' = With("OVER")
  BY DEF Started, With
<1>2. ViewTyped'
  BY OverIsStarted DEF ViewOK, ViewTyped
<1>3. view'.active \subseteq Started' /\ view'.completed \subseteq With("OVER")' /\ NothingLost'
  BY <1>1 DEF NothingLost
<1>4. shown' \subseteq Started' /\ slipped' \subseteq With("OVER")'
  BY <1>1
<1> QED
  BY <1>2, <1>3, <1>4 DEF ViewOK

LEMMA Finished ==
    ASSUME NEW failed, Finish(failed)
    PROVE  request' = NoRequest /\ polling' = FALSE
BY DEF Finish, Released

\* Nothing is below the end: what the load has read is all it could.
LEMMA LoadKeepsView ==
    ASSUME ViewOK, LoadSucceeds
    PROVE  ViewOK'
<1>1. /\ view' = Showing(request.active, request.over) /\ shown' = shown \cup request.active \cup request.over
      /\ UNCHANGED <<server, slipped>>
      /\ request # NoRequest /\ request' = NoRequest /\ polling' = FALSE
      /\ request.kind = "LOAD" /\ request.activeRead /\ request.cursor = TheEnd
  BY Finished DEF LoadSucceeds, viewServer
<1>2. RequestOK(request) /\ shown \subseteq Started /\ slipped \subseteq With("OVER")
  BY <1>1 DEF ViewOK
<1>3. request.active \subseteq Started /\ request.over \subseteq With("OVER") /\ ReadsAnew(request)
  BY <1>1, <1>2 DEF RequestOK, HistoryOK
<1>4. PICK active \in SUBSET Started, completed \in SUBSET With("OVER") :
          active = request.active /\ completed = request.over
  BY <1>3
<1>5. view' = [status |-> "ready", active |-> active, completed |-> completed]
  BY <1>1, <1>4 DEF Showing
<1>6. \A i \in shown \ slipped : i \in active \cup completed
  <2>1. \A i \in Ids : ~ (i < TheEnd)
    BY ViewAssumption DEF Ids, TheEnd
  <2> QED
    BY <1>1, <1>2, <1>3, <1>4, <2>1, OverIsStarted DEF ReadsAnew
<1>7. shown' \subseteq Started /\ shown' \subseteq active \cup completed \cup slipped'
  BY <1>1, <1>2, <1>4, <1>6, OverIsStarted
<1> QED
  BY <1>1, <1>2, <1>5, <1>7, RestKeepsView DEF Statuses

\* What leaves the view is over when the history is asked for.
LEMMA PollActiveKeepsView ==
    ASSUME ViewOK, PollShowsActive
    PROVE  ViewOK'
<1>1. /\ request # NoRequest /\ request.kind = "POLL" /\ request.activeRead /\ ~ request.historyBegun
      /\ view' = [view EXCEPT !.active = request.active]
      /\ shown' = shown \cup request.active
      /\ UNCHANGED <<server, slipped>>
  BY DEF PollShowsActive, viewServer
<1>2. /\ request \in Requests /\ RequestOK(request) /\ view.completed \subseteq With("OVER")
      /\ shown \subseteq Started /\ slipped \subseteq With("OVER")
  BY <1>1 DEF ViewOK, ViewTyped
<1>3. /\ request.active \subseteq Started /\ view.status = "ready"
      /\ shown \subseteq view.active \cup view.completed \cup slipped
      /\ view.active \subseteq request.active \cup With("OVER")
  BY <1>1, <1>2 DEF RequestOK
<1>4. PICK active \in SUBSET Started : active = request.active
  BY <1>3
<1>5. view' = [status |-> "ready", active |-> active, completed |-> view.completed]
  BY <1>1, <1>3, <1>4 DEF ViewOK, ViewTyped
<1>6. shown' \subseteq Started /\ shown' \subseteq Ids
  BY <1>1, <1>2, <1>4, OverIsStarted
<1>7. CASE ActiveSessionsChanged(view.active, request.active)
  <2>1. /\ request' = [request EXCEPT !.historyBegun = TRUE, !.active = {}, !.known = With("OVER")]
        /\ UNCHANGED polling
    BY <1>7 DEF PollShowsActive
  <2>2. PICK r : r = [request EXCEPT !.historyBegun = TRUE, !.active = {}, !.known = With("OVER")]
    OBVIOUS
  <2>3. /\ r \in Requests
        /\ r.kind = "POLL" /\ r.historyBegun /\ r.active = {} /\ r.known = With("OVER")
        /\ r.cursor = request.cursor /\ r.over = request.over
    BY <1>1, <1>2, <2>2, OverIsStarted DEF Requests
  <2>4. Started' = Started /\ With("OVER")' = With("OVER")
    BY <1>1 DEF Started, With
  <2>5. shown' \subseteq view'.active \cup r.known
    BY <1>1, <1>2, <1>3, <1>4, <1>5, <2>3
  <2>6. HistoryOK(r)'
    <3>1. r.cursor = FromTheTop /\ r.over \subseteq With("OVER")
      BY <1>1, <1>2, <2>3 DEF RequestOK, HistoryOK
    <3>2. \A i \in With("OVER") : ~ (FromTheTop <= i)
      BY ViewAssumption DEF FromTheTop, With, Ids
    <3> QED
      BY <2>3, <2>4, <3>1, <3>2 DEF HistoryOK
  <2>7. RequestOK(r)'
    BY <1>5, <2>3, <2>5, <2>6 DEF RequestOK
  <2>8. RequestOK(request)'
    BY <2>1, <2>2, <2>3, <2>7 DEF RequestOK, HistoryOK
  <2> QED
    BY <1>1, <1>2, <1>5, <1>6, <2>1, <2>2, <2>3, <2>4, <2>8, RequestTyped, OverIsStarted
      DEF ViewOK, ViewTyped, NothingLost, Statuses
<1>8. CASE ~ ActiveSessionsChanged(view.active, request.active)
  <2>1. request' = NoRequest /\ polling' = FALSE
    BY <1>8, Finished DEF PollShowsActive
  <2>2. view.active = active
    BY <1>4, <1>8 DEF ActiveSessionsChanged
  <2>3. shown' \subseteq active \cup view.completed \cup slipped'
    BY <1>1, <1>3, <1>4, <2>2
  <2>4. PICK completed \in SUBSET With("OVER") : completed = view.completed
    BY <1>2
  <2>5. view' = [status |-> "ready", active |-> active, completed |-> completed]
    BY <1>5, <2>4
  <2>6. shown' \subseteq active \cup completed \cup slipped'
    BY <2>3, <2>4
  <2> QED
    BY <1>1, <1>2, <1>6, <2>1, <2>5, <2>6, RestKeepsView DEF Statuses
<1> QED
  BY <1>7, <1>8

LEMMA PollHistoryKeepsView ==
    ASSUME ViewOK, PollShowsHistory
    PROVE  ViewOK'
<1>1. /\ request # NoRequest /\ request.kind = "POLL" /\ request.historyBegun /\ request.cursor = TheEnd
      /\ view' = Showing(view.active, request.over)
      /\ shown' = shown \cup request.over /\ slipped' = {}
      /\ UNCHANGED server
      /\ request' = NoRequest /\ polling' = FALSE
  BY Finished DEF PollShowsHistory, viewServer
<1>2. RequestOK(request) /\ view.active \subseteq Started /\ shown \subseteq Started
  BY <1>1 DEF ViewOK, ViewTyped
<1>3. request.over \subseteq With("OVER") /\ shown \subseteq view.active \cup request.known
  BY <1>1, <1>2 DEF RequestOK, HistoryOK
<1>4. request.known \subseteq request.over
  <2>1. request.known \subseteq Ids
    BY <1>2, OverIsStarted DEF RequestOK, HistoryOK
  <2>2. \A i \in Ids : TheEnd <= i
    BY ViewAssumption DEF Ids, TheEnd
  <2> QED
    BY <1>1, <1>2, <2>1, <2>2 DEF RequestOK, HistoryOK
<1>5. PICK active \in SUBSET Started, completed \in SUBSET With("OVER") :
          active = view.active /\ completed = request.over
  BY <1>2, <1>3
<1>6. view' = [status |-> "ready", active |-> active, completed |-> completed]
  BY <1>1, <1>5 DEF Showing
<1>7. shown' \subseteq Started /\ shown' \subseteq active \cup completed
  BY <1>1, <1>2, <1>3, <1>4, <1>5, OverIsStarted
<1> QED
  BY <1>1, <1>6, <1>7, RestKeepsView DEF Statuses

LEMMA FailureKeepsView ==
    ASSUME ViewOK, RequestFails
    PROVE  ViewOK'
<1>1. /\ view' = Failed(TRUE) \/ view' = Failed(FALSE)
      /\ UNCHANGED <<server, shown, slipped>>
      /\ request' = NoRequest /\ polling' = FALSE
  BY Finished DEF RequestFails, viewServer
<1>2. shown' \subseteq Started /\ slipped' \subseteq With("OVER")
  BY <1>1 DEF ViewOK
<1>3. CASE view' = Failed(TRUE)
  <2>1. PICK none : none = {} /\ none \in SUBSET Started /\ none \in SUBSET With("OVER")
    <3>1. {} \in SUBSET Started /\ {} \in SUBSET With("OVER")
      OBVIOUS
    <3> QED
      BY <3>1
  <2>2. view' = [status |-> "unauthenticated", active |-> none, completed |-> none]
    BY <1>3, <2>1 DEF Failed
  <2> QED
    BY <1>1, <1>2, <2>1, <2>2, RestKeepsView DEF Statuses
<1>4. CASE view' = Failed(FALSE)
  <2>1. PICK active \in SUBSET Started, completed \in SUBSET With("OVER") :
            active = view.active /\ completed = view.completed
    BY DEF ViewOK
  <2>2. view' = [status |-> "error", active |-> active, completed |-> completed]
    BY <1>4, <2>1 DEF Failed, ViewOK, ViewTyped
  <2> QED
    BY <1>1, <1>2, <2>2, RestKeepsView DEF Statuses
<1> QED
  BY <1>1, <1>3, <1>4

LEMMA ProviderKeepsView ==
    ASSUME ViewOK, ProviderStep
    PROVE  ViewOK'
BY SynchronizeKeepsView, RefreshKeepsView, ReadActiveKeepsView, ReadPageKeepsView, LoadKeepsView,
   PollActiveKeepsView, PollHistoryKeepsView, FailureKeepsView DEF ProviderStep

\* A page that goes away, with a request under way or none.
LEMMA EmptyViewKeepsView ==
    ASSUME ViewOK, request' = NoRequest, polling' = FALSE, server' = server, view' = NoView, shown' = {}, slipped' = {}
    PROVE  ViewOK'
<1>1. PICK none \in SUBSET Started : none = {} /\ none \in SUBSET With("OVER")
  OBVIOUS
<1>2. view' = [status |-> "unmounted", active |-> none, completed |-> none]
  BY <1>1 DEF NoView
<1> QED
  BY <1>1, <1>2, RestKeepsView DEF Statuses

LEMMA LogInKeepsView ==
    ASSUME ViewOK, LogIn
    PROVE  ViewOK'
<1>1. /\ view.status = "unauthenticated"
      /\ view' = NoView /\ shown' = {} /\ slipped' = {}
      /\ UNCHANGED <<server, request, polling>>
  BY DEF LogIn
<1>2. request = NoRequest
  BY <1>1 DEF ViewOK, RequestOK, ViewTyped, Requests
<1>3. request' = NoRequest /\ polling' = FALSE
  BY <1>1, <1>2 DEF ViewOK, ViewTyped
<1> QED
  BY <1>1, <1>3, EmptyViewKeepsView

-----------------------------------------------------------------------------
(* The gate and the old records in storage.                                 *)

LEMMA RemovedOnly ==
    ASSUME NEW s \in Store, NEW n \in 0 .. 2
    PROVE  /\ Removed(s, n).sessions \in {Null, s.sessions}
           /\ Removed(s, n).quests \in {Null, s.quests}
<1>1. CASE n = 0
  BY <1>1 DEF Removed
<1>2. CASE n = 1
  BY <1>2 DEF Removed, Store
<1>3. CASE n = 2
  BY <1>3 DEF Removed, Store
<1> QED
  BY <1>1, <1>2, <1>3

LEMMA WrittenOnly ==
    ASSUME NEW s \in Store, NEW mode \in Modes, NEW n \in 0 .. 4
    PROVE  /\ Written(s, mode, n).sessions \in {Null, s.sessions}
           /\ Written(s, mode, n).quests \in {Null, s.quests}
<1>1. Reference(s, mode) \in RecordPairs \cup {Null}
  BY RecordsTyped DEF Reference
<1>2. CASE n = 0
  BY <1>2 DEF Written
<1>3. CASE n = 1
  BY <1>3 DEF Written, Store
<1>4. CASE n >= 2
  <2> DEFINE marked == [s EXCEPT !.reference = Reference(s, mode), !.marker = mode]
  <2>1. marked \in Store /\ marked.sessions = s.sessions /\ marked.quests = s.quests
    BY <1>1 DEF Store
  <2>2. Written(s, mode, n) = Removed(marked, n - 2) /\ n - 2 \in 0 .. 2
    BY <1>4 DEF Written
  <2> HIDE DEF marked
  <2> QED
    BY <2>1, <2>2, RemovedOnly
<1> QED
  BY <1>2, <1>3, <1>4

LEMMA LegacyKeepsSources ==
    ASSUME IInv, SourcesKept, NEW t \in Tabs, LegacyStep(t)
    PROVE  SourcesKept'
<1>1. store \in Store /\ UNCHANGED original
  BY DEF IInv, StoreTyped, LegacyStep, OpenTab, CloseTab, Choose
<1>2. \/ store' = store
      \/ \E n \in 0 .. 2 : store' = Inspected(store, n)
      \/ \E mode \in Modes, n \in 0 .. 4 : store' = Written(Inspected(store, 2), mode, n)
  BY DEF LegacyStep, OpenTab, CloseTab, Choose
<1>3. \A n \in 0 .. 2 : /\ Inspected(store, n) \in Store
                        /\ Inspected(store, n).sessions \in {Null, store.sessions}
                        /\ Inspected(store, n).quests \in {Null, store.quests}
  BY <1>1, RemovedOnly, InspectedParts DEF Inspected
<1>4. store'.sessions \in {Null, store.sessions} /\ store'.quests \in {Null, store.quests}
  <2>1. CASE store' = store
    BY <2>1
  <2>2. CASE \E n \in 0 .. 2 : store' = Inspected(store, n)
    BY <1>3, <2>2
  <2>3. ASSUME NEW mode \in Modes, NEW n \in 0 .. 4, store' = Written(Inspected(store, 2), mode, n)
        PROVE  store'.sessions \in {Null, store.sessions} /\ store'.quests \in {Null, store.quests}
    <3>1. PICK s \in Store : s = Inspected(store, 2)
      BY <1>3
    <3>2. s.sessions \in {Null, store.sessions} /\ s.quests \in {Null, store.quests}
      BY <1>3, <3>1
    <3> QED
      BY <2>3, <3>1, <3>2, WrittenOnly
  <2> QED
    BY <1>2, <2>1, <2>2, <2>3
<1> QED
  BY <1>1, <1>4 DEF SourcesKept

\* A gate that is passed stays so until the tab is closed.
GateValues == {"CLOSED", "PASSED", "ready", "corrupted"}
LEMMA GateMoves ==
    ASSUME gate \in [Tabs -> GateValues], NEW t \in Tabs, LegacyStep(t)
    PROVE  \E x \in GateValues : /\ gate' = [gate EXCEPT ![t] = x]
                                 /\ gate[t] = "PASSED" => x = "CLOSED"
<1>1. Shows(Inspection(store)) \in GateValues
  BY DEF Shows, Inspection, Passes, GateValues
<1>2. gate = [gate EXCEPT ![t] = gate[t]] /\ gate[t] \in GateValues
  OBVIOUS
<1>3. CASE OpenTab(t)
  BY <1>1, <1>3 DEF OpenTab, GateValues
<1>4. CASE CloseTab(t)
  BY <1>4 DEF CloseTab, GateValues
<1>5. ASSUME NEW mode \in Modes, Choose(t, mode)
      PROVE  /\ gate[t] # "PASSED"
             /\ gate' = gate \/ \E x \in {"CLOSED", "PASSED"} : gate' = [gate EXCEPT ![t] = x]
  BY <1>5 DEF Choose
<1>6. CASE \E mode \in Modes : Choose(t, mode)
  BY <1>2, <1>5, <1>6 DEF GateValues
<1> QED
  BY <1>3, <1>4, <1>6 DEF LegacyStep

LEMMA GateStepKeepsView ==
    ASSUME ViewOK, GateOK, NEW t \in Tabs, GateStep(t)
    PROVE  ViewOK' /\ GateOK'
<1>1. gate \in [Tabs -> GateValues] /\ LegacyStep(t)
  BY DEF GateOK, GateValues, GateStep
<1>2. PICK x \in GateValues : gate' = [gate EXCEPT ![t] = x] /\ (gate[t] = "PASSED" => x = "CLOSED")
  BY <1>1, GateMoves
<1>3. gate' \in [Tabs -> GateValues] /\ gate'[t] = x /\ \A u \in Tabs \ {t} : gate'[u] = gate[u]
  BY <1>1, <1>2
<1>4. CASE t = Tab /\ x = "CLOSED"
  <2>1. Unmount
    BY <1>3, <1>4 DEF GateStep
  <2>2. ViewOK'
    BY <2>1, EmptyViewKeepsView DEF Unmount, viewServer
  <2> QED
    BY <1>3, <2>1, <2>2 DEF GateOK, GateValues, Unmount, NoView
<1>5. CASE ~ (t = Tab /\ x = "CLOSED")
  <2>1. UNCHANGED viewVars
    BY <1>3, <1>5 DEF GateStep
  <2>2. ViewOK'
    BY <2>1 DEF viewVars, ViewOK, ViewTyped, RequestOK, HistoryOK, ReadsAnew, NothingLost, Started, With
  <2>3. view'.status # "unmounted" => gate'[Tab] = "PASSED"
    BY <1>2, <1>3, <1>5, <2>1, TabAssumption DEF GateOK, GateStep, viewVars
  <2> QED
    BY <1>3, <2>2, <2>3 DEF GateOK, GateValues
<1> QED
  BY <1>4, <1>5

-----------------------------------------------------------------------------

\* The invariant of the records, and that of the view behind the gate.
WholeInv == IInv /\ SourcesKept /\ ViewOK /\ GateOK

LEMMA InitWhole == Init => WholeInv
<1> SUFFICES ASSUME Init PROVE WholeInv
  OBVIOUS
<1>1. SourcesKept
  BY DEF Init, LegacyInit, SourcesKept
<1>2. ViewOK
  BY DEF Init, ViewInit, NoView, ViewOK, ViewTyped, Statuses, NothingLost
<1>3. GateOK
  BY DEF Init, LegacyInit, ViewInit, NoView, GateOK
<1> QED
  BY <1>1, <1>2, <1>3, InitIInv DEF WholeInv

LEMMA NextWhole == WholeInv /\ [Next]_vars => WholeInv'
<1> SUFFICES ASSUME WholeInv, [Next]_vars PROVE WholeInv'
  OBVIOUS
<1>1. IInv /\ SourcesKept /\ ViewOK /\ GateOK
  BY DEF WholeInv
<1>2. IInv'
  BY <1>1, NextIInv
<1>3. ASSUME NEW t \in Tabs, GateStep(t)
      PROVE  WholeInv'
  BY <1>1, <1>2, <1>3, LegacyKeepsSources, GateStepKeepsView DEF GateStep, WholeInv
<1>4. CASE MountedStep
  <2>1. ProviderStep /\ gate[Tab] = "PASSED" /\ UNCHANGED <<store, gate, original>>
    BY <1>4 DEF MountedStep, legacyVars
  <2>2. SourcesKept'
    BY <1>1, <2>1 DEF SourcesKept
  <2>3. GateOK'
    BY <1>1, <2>1 DEF GateOK
  <2> QED
    BY <1>1, <1>2, <2>1, <2>2, <2>3, ProviderKeepsView DEF WholeInv
<1>5. CASE LogInAnew
  <2>1. LogIn /\ gate' = [gate EXCEPT ![Tab] = "CLOSED"] /\ UNCHANGED <<store, original>>
    BY <1>5 DEF LogInAnew
  <2>2. view'.status = "unmounted"
    BY <2>1 DEF LogIn, NoView
  <2>3. SourcesKept'
    BY <1>1, <2>1 DEF SourcesKept
  <2>4. GateOK'
    BY <1>1, <2>1, <2>2 DEF GateOK
  <2> QED
    BY <1>1, <1>2, <2>1, <2>3, <2>4, LogInKeepsView DEF WholeInv
<1>6. CASE gate[Tab] = "PASSED" /\ ServerStep /\ UNCHANGED legacyVars
  <2>1. ServerStep /\ UNCHANGED <<store, gate, original>>
    BY <1>6 DEF legacyVars
  <2>2. SourcesKept'
    BY <1>1, <2>1 DEF SourcesKept
  <2>3. GateOK'
    BY <1>1, <2>1, ServerKeepsView DEF GateOK
  <2> QED
    BY <1>1, <1>2, <2>1, <2>2, <2>3, ServerKeepsView DEF WholeInv
<1>7. CASE UNCHANGED vars
  <2>1. UNCHANGED <<store, gate, original, server, view, request, polling, shown, slipped>>
    BY <1>7 DEF vars, legacyVars, viewVars
  <2>2. SourcesKept' /\ GateOK'
    BY <1>1, <2>1 DEF SourcesKept, GateOK
  <2>3. ViewOK'
    BY <1>1, <2>1 DEF ViewOK, ViewTyped, RequestOK, HistoryOK, ReadsAnew, NothingLost, Started, With
  <2> QED
    BY <1>2, <2>2, <2>3 DEF WholeInv
<1> QED
  BY <1>3, <1>4, <1>5, <1>6, <1>7 DEF Next

LEMMA WholeInvariant == Spec => []WholeInv
<1>1. Init => WholeInv
  BY InitWhole
<1>2. WholeInv /\ [Next]_vars => WholeInv'
  BY NextWhole
<1> QED
  BY <1>1, <1>2, PTL DEF Spec

\* Every variable keeps its type: a record in storage is the old one or gone,
\* the poll flag is up only during a poll, and the sessions are shown only
\* behind a gate that is passed (main.tsx, SessionContext.tsx).
THEOREM TypeCorrectness == Spec => []TypeOK
<1>1. ASSUME WholeInv PROVE TypeOK
  <2>1. IInv /\ SourcesKept /\ ViewOK /\ GateOK
    BY <1>1 DEF WholeInv
  <2>2. store.marker \in Modes \cup {Null} /\ chosen \subseteq Modes
    BY <2>1 DEF IInv, StoreTyped, Store
  <2>3. /\ server \in [Ids -> {"NONE", "ACTIVE", "OVER"}]
        /\ view.status \in Statuses
        /\ view.active \cup view.completed \subseteq Started
        /\ polling <=> (request # NoRequest /\ request.kind = "POLL")
    BY <2>1, OverIsStarted DEF ViewOK, ViewTyped
  <2> QED
    BY <2>1, <2>2, <2>3 DEF SourcesKept, GateOK, TypeOK, Statuses
<1> QED
  BY <1>1, WholeInvariant, PTL

\* However many sessions there are, and however small the pages, while they
\* start and end between the requests and between the pages of one: what was
\* shown since the page was loaded is still shown, except for what ended
\* between the two reads of the last full load, and a history that has been
\* read to its end has all that was over when it was asked for.
THEOREM ViewMissesNothing == Spec => []ViewComplete
<1>1. ASSUME WholeInv PROVE ViewComplete
  <2>1. ViewOK
    BY <1>1 DEF WholeInv
  <2>2. ASSUME request # NoRequest, request.cursor = TheEnd
        PROVE  request.known \subseteq request.over
    <3>1. HistoryOK(request)
      BY <2>1, <2>2 DEF ViewOK, RequestOK
    <3>2. request.known \subseteq Ids
      BY <3>1, OverIsStarted DEF HistoryOK
    <3>3. \A i \in Ids : TheEnd <= i
      BY ViewAssumption DEF Ids, TheEnd
    <3> QED
      BY <2>2, <3>1, <3>2, <3>3 DEF HistoryOK
  <2> QED
    BY <2>1, <2>2 DEF ViewOK, ViewComplete, HistoryComplete
<1> QED
  BY <1>1, WholeInvariant, PTL
=============================================================================
