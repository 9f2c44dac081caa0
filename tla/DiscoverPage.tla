---------------------------- MODULE DiscoverPage ----------------------------
(***************************************************************************)
(* The Discover screen of one browser tab and the API calls behind it: the *)
(* ranked feed read page by page with a cursor, the saved items, and the   *)
(* interests the ranking depends on.  Answers come in any order, while the *)
(* user goes on clicking, sources are refreshed and another tab of the     *)
(* same user saves, removes and chooses interests.                         *)
(*                                                                         *)
(* The page numbers its list requests and drops answers with an old        *)
(* number; here a call knows whether its number is still the last one.     *)
(* A saved row is named by the order of its creation, and has the time and *)
(* the random id that its list is ordered by.  A call is delivered once,   *)
(* so that its Idempotency-Key is never looked up.                         *)
(***************************************************************************)
EXTENDS Integers, Sequences, FiniteSets

CONSTANTS
    Items,       \* numbers, in the order of source and id
    Feeds,       \* sets of items the sources may hold
    Categories,
    CategoryOf,
    Interests,   \* interest selections
    None,        \* the empty one
    Score,       \* by item: day, engagement, clear, and matches by selection
    PageSize,
    Calls,       \* calls of the page that are under way at one time
    Stamp,       \* saved_at and id of the rows in the order of creation; bounds them
    Nil,
    MaxClicks,   \* bound on what the user does on the page
    MaxOther     \* bound on refreshes and on what another tab does

ASSUME PageAssumption ==
    /\ Items \subseteq Nat \ {0} /\ IsFiniteSet(Items) /\ Feeds \subseteq SUBSET Items
    /\ None \in Interests
    /\ Categories # {} /\ CategoryOf \in [Items -> Categories]
    /\ PageSize \in Nat \ {0}
    /\ \A i \in Items : /\ {Score[i].day, Score[i].engagement, Score[i].clear} \subseteq Nat
                         /\ Score[i].matches \in [Interests -> Nat]
    /\ Stamp \in Seq([ms : Nat, us : 0 .. 999, uuid : Nat])
    /\ \A m, n \in DOMAIN Stamp : Stamp[m].uuid = Stamp[n].uuid => m = n
    /\ Nil \notin [interest : Interests, keys : Seq(Int)] \cup [ms : Nat, us : 0 .. 999, uuid : Nat]

VARIABLES
    feed,       \* the items in discover_source_cache
    interests,  \* discover_user_interests
    saved,      \* discover_saved_items: the row of an item, NoRow without one
    created,    \* rows of discover_saved_items ever created
    events,     \* SAVE rows of discover_analytics_events
    page,       \* the state of the DiscoverPage component
    basis,      \* what the ranking shown was computed from, Nil if it changed
    known,      \* created when the list of saved items shown was begun
    calls,
    allowed     \* the steps that the bounds still allow

pageVars == <<feed, interests, saved, created, events, page, basis, known, calls, allowed>>
server == <<feed, interests, saved, created, events>>
-----------------------------------------------------------------------------
(* Array.prototype.sort and filter                                         *)

\* The elements of S in the order of a set of pairs.
InOrder(S, before) ==
    [n \in 1 .. Cardinality(S) |-> CHOOSE x \in S : Cardinality({y \in S : <<y, x>> \in before}) = n - 1]

\* s without the elements whose index is not in K.
Kept(s, K) ==
    LET index == InOrder(K, {p \in K \X K : p[1] < p[2]}) IN [n \in DOMAIN index |-> s[index[n]]]
-----------------------------------------------------------------------------
(* rankDiscoverItems and the cursor                                        *)

SortDays(F) == {Score[i].day : i \in F}

\* Ages are taken from the newest item: a day, a week, a month.
Band(i, F) ==
    LET age == (CHOOSE d \in SortDays(F) : \A e \in SortDays(F) : e <= d) - Score[i].day IN
    IF age <= 1 THEN 0 ELSE IF age <= 7 THEN 1 ELSE IF age <= 30 THEN 2 ELSE 3

\* createRankedItem, as the keys compareRankedItems goes through.
Ranked(i, F, interest) ==
    IF interest = None THEN <<-Score[i].day, i>>
    ELSE <<-Score[i].matches[interest], Band(i, F), -Score[i].engagement,
           -Score[i].clear, -Score[i].day, i>>

\* compareRankedItems
ComesBefore(a, b) == \E k \in DOMAIN a : a[k] < b[k] /\ \A j \in 1 .. k - 1 : a[j] = b[j]

InTab(F, tab) == {i \in F : CategoryOf[i] = tab}

RankOrder(T, interest) ==
    {p \in T \X T : ComesBefore(Ranked(p[1], T, interest), Ranked(p[2], T, interest))}

Ranking ==
    [F \in Feeds |-> [tab \in Categories |-> [interest \in Interests |->
        InOrder(InTab(F, tab), RankOrder(InTab(F, tab), interest))]]]

\* Mutant: the filter looks at the matches and the recency band only.
BehindCoarsely(i, F, tab, interest, cursor) ==
    ComesBefore(SubSeq(cursor.keys, 1, 2), SubSeq(Ranked(i, InTab(F, tab), interest), 1, 2))

Behind(i, F, tab, interest, cursor) == ComesBefore(cursor.keys, Ranked(i, InTab(F, tab), interest))

AfterCursor(F, tab, interest, cursor) ==
    LET ranking == Ranking[F][tab][interest] IN
    Kept(ranking, {k \in DOMAIN ranking : cursor # Nil => Behind(ranking[k], F, tab, interest, cursor)})

FirstPage(s) == SubSeq(s, 1, IF Len(s) < PageSize THEN Len(s) ELSE PageSize)

CursorAfter(s, F, tab, interest) ==
    IF Len(s) <= PageSize THEN Nil
    ELSE [interest |-> interest, keys |-> Ranked(s[PageSize], InTab(F, tab), interest)]

CursorFits(cursor) == cursor # Nil => cursor.interest = interests
-----------------------------------------------------------------------------
NoRow == 0
Refused == [ok |-> FALSE, items |-> <<>>, cursor |-> Nil, refs |-> <<>>]

Call(op, about, cursor, more) ==
    [op |-> op, about |-> about, cursor |-> cursor, more |-> more, current |-> TRUE,
     step |-> "SENT", basis |-> Nil, answer |-> Refused]

IsCall(c, op) == calls[c] # Nil /\ calls[c].op = op
Free(c) == calls[c] = Nil

\* The effect of a view is cleaned up and run: its first page is aborted and
\* asked for again, and no other answer is the last one any more.
Reloaded(op, c, about) ==
    [x \in Calls |->
        IF x = c THEN Call(op, about, Nil, FALSE)
        ELSE IF ~IsCall(x, op) THEN calls[x]
        ELSE IF calls[x].more THEN [calls[x] EXCEPT !.current = FALSE] ELSE Nil]

\* Its clean-up alone, when the other view is chosen.
Left(op, f) == [x \in Calls |-> IF f[x] # Nil /\ f[x].op = op /\ ~f[x].more THEN Nil ELSE f[x]]

Exploring(p) == [p EXCEPT !.view = "EXPLORE", !.status = "loading", !.items = <<>>, !.cursor = Nil]
Saving(p) == [p EXCEPT !.view = "SAVED", !.savedStatus = "loading", !.savedItems = <<>>, !.savedCursor = Nil]

NoPage == [view |-> "EXPLORE", tab |-> CHOOSE t \in Categories : TRUE, status |-> "idle", items |-> <<>>,
           cursor |-> Nil, loadingMore |-> FALSE, refs |-> [i \in Items |-> NoRow],
           savedStatus |-> "idle", savedItems |-> <<>>, savedCursor |-> Nil,
           loadingMoreSaved |-> FALSE, saving |-> {}, savingInterests |-> FALSE]

PageInit ==
    /\ feed \in Feeds
    /\ interests \in Interests
    /\ saved = [i \in Items |-> NoRow]
    /\ created = 0 /\ events = 0
    /\ basis = Nil /\ known = 0
    /\ \E c \in Calls : calls = [x \in Calls |-> IF x = c THEN Call("LIST", NoPage.tab, Nil, FALSE) ELSE Nil]
    /\ page = Exploring(NoPage)
    /\ allowed = [clicks |-> MaxClicks, other |-> MaxOther]
-----------------------------------------------------------------------------
(* What the user does on the page                                          *)

Click == allowed.clicks > 0 /\ allowed' = [allowed EXCEPT !.clicks = @ - 1] /\ UNCHANGED <<server, known>>

\* setReloadKey, where the page or one of its sources could not be loaded, is
\* a choice of the same tab.
SelectCategory(tab, c) ==
    /\ page.view = "EXPLORE" /\ (tab # page.tab \/ page.status \in {"error", "ready"})
    /\ calls' = Reloaded("LIST", c, tab)
    /\ page' = Exploring([page EXCEPT !.tab = tab])
    /\ basis' = Nil

ShowExplore(c) ==
    /\ page.view = "SAVED"
    /\ calls' = Left("SAVED", Reloaded("LIST", c, page.tab))
    /\ page' = Exploring(page)
    /\ basis' = Nil

ShowSaved(c) ==
    /\ page.view = "EXPLORE" \/ page.savedStatus = "error"
    /\ calls' = Left("LIST", Reloaded("SAVED", c, Nil))
    /\ page' = Saving(page)
    /\ UNCHANGED basis

LoadMore(c) ==
    /\ page.view = "EXPLORE" /\ page.status = "ready"
    /\ page.cursor # Nil /\ ~page.loadingMore
    /\ calls' = [calls EXCEPT ![c] = Call("LIST", page.tab, page.cursor, TRUE)]
    /\ page' = [page EXCEPT !.loadingMore = TRUE]
    /\ UNCHANGED basis

LoadMoreSaved(c) ==
    /\ page.view = "SAVED" /\ page.savedStatus = "ready"
    /\ page.savedCursor # Nil /\ ~page.loadingMoreSaved
    /\ calls' = [calls EXCEPT ![c] = Call("SAVED", Nil, page.savedCursor, TRUE)]
    /\ page' = [page EXCEPT !.loadingMoreSaved = TRUE]
    /\ UNCHANGED basis

ItemsShown ==
    IF page.view = "EXPLORE" THEN {page.items[k] : k \in DOMAIN page.items}
    ELSE {page.savedItems[k].item : k \in DOMAIN page.savedItems}

ToggleSaved(i, c) ==
    /\ i \in ItemsShown \ page.saving
    /\ page' = [page EXCEPT !.saving = @ \cup {i}]
    /\ calls' = [calls EXCEPT ![c] =
           IF page.refs[i] # NoRow THEN Call("DELETE", [item |-> i, id |-> page.refs[i]], Nil, FALSE)
           ELSE Call("SAVE", i, Nil, FALSE)]
    /\ UNCHANGED basis

SaveInterests(t, c) ==
    /\ ~page.savingInterests
    /\ page' = [page EXCEPT !.savingInterests = TRUE]
    /\ calls' = [calls EXCEPT ![c] = Call("INTERESTS", t, Nil, FALSE)]
    /\ UNCHANGED basis

UserStep ==
    /\ Click
    /\ \E c \in Calls : Free(c) /\
           \/ \E tab \in Categories : SelectCategory(tab, c)
           \/ ShowExplore(c) \/ ShowSaved(c) \/ LoadMore(c) \/ LoadMoreSaved(c)
           \/ \E i \in Items : ToggleSaved(i, c)
           \/ \E t \in Interests : SaveInterests(t, c)
-----------------------------------------------------------------------------
(* The handlers                                                            *)

Goes(c, step) == calls' = [calls EXCEPT ![c].step = step]
Answered(c, answer) == calls' = [calls EXCEPT ![c].step = "ANSWERED", ![c].answer = answer]

\* listDiscover up to the ranking; the interests and the rows of the cache do
\* not depend on one another.
ListDiscover(c) ==
    /\ IsCall(c, "LIST") /\ calls[c].step = "SENT"
    /\ IF CursorFits(calls[c].cursor)
       THEN LET after == AfterCursor(feed, calls[c].about, interests, calls[c].cursor) IN
            calls' = [calls EXCEPT ![c].step = "LISTED",
                ![c].basis = [feed |-> feed, interest |-> interests],
                ![c].answer = [ok |-> TRUE, items |-> FirstPage(after),
                               cursor |-> CursorAfter(after, feed, calls[c].about, interests),
                               refs |-> <<>>]]
       ELSE Answered(c, Refused)
    /\ UNCHANGED server

FindSavedItemReferences(c) ==
    /\ IsCall(c, "LIST") /\ calls[c].step = "LISTED"
    /\ Answered(c, [calls[c].answer EXCEPT !.refs = saved])
    /\ UNCHANGED server

Row(i) == [item |-> i, id |-> saved[i]]

\* (saved_at, id) < (saved_at, id), to the microsecond.
Precedes(a, b) ==
    \/ a.ms < b.ms
    \/ a.ms = b.ms /\ a.us < b.us
    \/ a.ms = b.ms /\ a.us = b.us /\ a.uuid < b.uuid

Older(i, cursor) == saved[i] # NoRow /\ (cursor # Nil => Precedes(Stamp[saved[i]], cursor))

\* toISOString: milliseconds.
Truncated(stamp) == [stamp EXCEPT !.us = 0]

\* Mutant: the cursor is the row that did not fit.
CursorSkipping(s) == IF Len(s) <= PageSize THEN Nil ELSE Truncated(Stamp[s[PageSize + 1].id])

CursorOf(s) == IF Len(s) <= PageSize THEN Nil ELSE Truncated(Stamp[s[PageSize].id])

\* ORDER BY saved_at DESC, id DESC
NewestFirst(rows) == InOrder(rows, {p \in rows \X rows : Precedes(Stamp[p[2].id], Stamp[p[1].id])})

RowsAfter(cursor) == NewestFirst({Row(i) : i \in {j \in Items : Older(j, cursor)}})

ListSavedItems(c) ==
    /\ IsCall(c, "SAVED") /\ calls[c].step = "SENT"
    /\ LET rows == RowsAfter(calls[c].cursor) IN
       calls' = [calls EXCEPT ![c].step = "ANSWERED", ![c].basis = created,
           ![c].answer = [Refused EXCEPT !.ok = TRUE, !.items = FirstPage(rows), !.cursor = CursorOf(rows)]]
    /\ UNCHANGED server

\* saveItem, before its transaction.
ReadCache(c) ==
    /\ IsCall(c, "SAVE") /\ calls[c].step = "SENT"
    /\ IF calls[c].about \in feed THEN Goes(c, "CACHED") ELSE Answered(c, Refused)
    /\ UNCHANGED server

\* Mutant: every save that is answered is counted.
CountedAlways(isNew) == events' = events + 1

Counted(isNew) == events' = IF isNew THEN events + 1 ELSE events

Found(i) == saved[i] # NoRow

Saved(c, i, id, isNew) ==
    /\ Answered(c, [Refused EXCEPT !.ok = TRUE, !.items = <<[item |-> i, id |-> id]>>])
    /\ Counted(isNew)

\* INSERT ... ON CONFLICT DO NOTHING, then a SELECT of the row that was there.
InsertSavedItem(c) ==
    LET i == calls[c].about IN
    /\ IsCall(c, "SAVE")
    /\ \/ /\ calls[c].step = "CACHED" /\ saved[i] = NoRow /\ created < Len(Stamp)
          /\ saved' = [saved EXCEPT ![i] = created + 1]
          /\ created' = created + 1
          /\ Saved(c, i, created + 1, TRUE)
       \/ /\ calls[c].step = "CACHED" /\ saved[i] # NoRow
          /\ Goes(c, "CONFLICT")
          /\ UNCHANGED <<saved, created, events>>
       \/ /\ calls[c].step = "CONFLICT" /\ Found(i)
          /\ Saved(c, i, saved[i], FALSE)
          /\ UNCHANGED <<saved, created>>
       \/ /\ calls[c].step = "CONFLICT" /\ ~Found(i)
          /\ Answered(c, Refused)
          /\ UNCHANGED <<saved, created, events>>
    /\ UNCHANGED <<feed, interests>>

DeleteItem(c) ==
    LET row == calls[c].about IN
    /\ IsCall(c, "DELETE") /\ calls[c].step = "SENT"
    /\ saved' = IF saved[row.item] = row.id THEN [saved EXCEPT ![row.item] = NoRow] ELSE saved
    /\ Answered(c, [Refused EXCEPT !.ok = TRUE])
    /\ UNCHANGED <<feed, interests, created, events>>

UpdateInterests(c) ==
    /\ IsCall(c, "INTERESTS") /\ calls[c].step = "SENT"
    /\ interests' = calls[c].about
    /\ Answered(c, [Refused EXCEPT !.ok = TRUE])
    /\ UNCHANGED <<feed, saved, created, events>>

HandleCall(c) ==
    /\ \/ ListDiscover(c) \/ FindSavedItemReferences(c) \/ ListSavedItems(c)
       \/ ReadCache(c) \/ InsertSavedItem(c) \/ DeleteItem(c) \/ UpdateInterests(c)
    /\ UNCHANGED <<page, basis, known, allowed>>
-----------------------------------------------------------------------------
(* The page gets an answer, or an error in its place                       *)

Merge(shown, incoming) ==
    shown \o Kept(incoming, {n \in DOMAIN incoming : \A k \in DOMAIN shown : shown[k] # incoming[n]})

Rows(s) == {s[k] : k \in DOMAIN s}

\* setSavedReferences with entries, over what is there or instead of it.
WithRefs(old, rows) ==
    [i \in Items |-> IF \E r \in rows : r.item = i THEN (CHOOSE r \in rows : r.item = i).id ELSE old[i]]

NoRefs == [i \in Items |-> NoRow]
RefsIn(answer) == {[item |-> answer.items[k], id |-> answer.refs[answer.items[k]]] : k \in DOMAIN answer.items}
OnlySaved(rows) == {r \in rows : r.id # NoRow}

IsLast(c) == calls[c].current

ListAnswered(c) ==
    LET a == calls[c].answer IN
    /\ IsCall(c, "LIST")
    /\ calls' = [calls EXCEPT ![c] = Nil]
    /\ \/ ~IsLast(c) /\ UNCHANGED <<page, basis>>
       \/ /\ IsLast(c) /\ ~a.ok /\ UNCHANGED basis
          /\ page' = IF calls[c].more THEN [page EXCEPT !.loadingMore = FALSE]
                     ELSE [page EXCEPT !.status = "error"]
       \/ /\ IsLast(c) /\ a.ok /\ ~calls[c].more
          /\ page' = [page EXCEPT !.items = a.items, !.cursor = a.cursor, !.status = "ready",
                                  !.refs = WithRefs(NoRefs, OnlySaved(RefsIn(a)))]
          /\ basis' = calls[c].basis
       \/ /\ IsLast(c) /\ a.ok /\ calls[c].more
          /\ page' = [page EXCEPT !.items = Merge(@, a.items), !.cursor = a.cursor, !.loadingMore = FALSE,
                                  !.refs = WithRefs(@, OnlySaved(RefsIn(a)))]
          /\ basis' = IF basis # Nil /\ basis.feed # calls[c].basis.feed THEN Nil ELSE basis
    /\ UNCHANGED known

SavedAnswered(c) ==
    LET a == calls[c].answer IN
    /\ IsCall(c, "SAVED")
    /\ calls' = [calls EXCEPT ![c] = Nil]
    /\ \/ ~IsLast(c) /\ UNCHANGED <<page, known>>
       \/ /\ IsLast(c) /\ ~a.ok /\ UNCHANGED known
          /\ page' = IF calls[c].more THEN [page EXCEPT !.loadingMoreSaved = FALSE]
                     ELSE [page EXCEPT !.savedStatus = "error"]
       \/ /\ IsLast(c) /\ a.ok /\ ~calls[c].more
          /\ page' = [page EXCEPT !.savedItems = a.items, !.savedCursor = a.cursor, !.savedStatus = "ready",
                                  !.refs = WithRefs(NoRefs, Rows(a.items))]
          /\ known' = calls[c].basis
       \/ /\ IsLast(c) /\ a.ok /\ calls[c].more
          /\ page' = [page EXCEPT !.savedItems = Merge(@, a.items), !.savedCursor = a.cursor,
                                  !.loadingMoreSaved = FALSE, !.refs = WithRefs(@, Rows(a.items))]
          /\ UNCHANGED known
    /\ UNCHANGED basis

Without(s, id) == Kept(s, {n \in DOMAIN s : s[n].id # id})

ToggleAnswered(c) ==
    LET a == calls[c].answer  i == IF IsCall(c, "SAVE") THEN calls[c].about ELSE calls[c].about.item IN
    /\ IsCall(c, "SAVE") \/ IsCall(c, "DELETE")
    /\ calls' = [calls EXCEPT ![c] = Nil]
    /\ page' = IF ~a.ok THEN [page EXCEPT !.saving = @ \ {i}]
               ELSE IF IsCall(c, "DELETE")
               THEN [page EXCEPT !.saving = @ \ {i}, !.refs[i] = NoRow,
                                 !.savedItems = Without(@, calls[c].about.id)]
               ELSE [page EXCEPT !.saving = @ \ {i}, !.refs[i] = a.items[1].id,
                                 !.savedItems = a.items \o Without(@, a.items[1].id)]
    /\ UNCHANGED <<basis, known>>

\* The new interests ask for the list again, when it is shown.
InterestsAnswered(c) ==
    /\ IsCall(c, "INTERESTS")
    /\ IF calls[c].answer.ok /\ page.view = "EXPLORE"
       THEN /\ calls' = Reloaded("LIST", c, page.tab)
            /\ page' = [Exploring(page) EXCEPT !.savingInterests = FALSE]
            /\ basis' = Nil
       ELSE /\ calls' = [calls EXCEPT ![c] = Nil]
            /\ page' = [page EXCEPT !.savingInterests = FALSE]
            /\ UNCHANGED basis
    /\ UNCHANGED known

GetAnswer(c) ==
    /\ calls[c] # Nil /\ calls[c].step = "ANSWERED"
    /\ ListAnswered(c) \/ SavedAnswered(c) \/ ToggleAnswered(c) \/ InterestsAnswered(c)
    /\ UNCHANGED <<server, allowed>>

\* The answer does not come: the handler fails before its next step, or has
\* done what it does.
LoseAnswer(c) ==
    /\ calls[c] # Nil /\ (calls[c].step = "ANSWERED" => calls[c].answer.ok)
    /\ allowed.other > 0
    /\ allowed' = [allowed EXCEPT !.other = @ - 1]
    /\ Answered(c, Refused)
    /\ UNCHANGED <<server, page, basis, known>>
-----------------------------------------------------------------------------
(* What happens elsewhere                                                  *)

Elsewhere ==
    /\ allowed.other > 0
    /\ allowed' = [allowed EXCEPT !.other = @ - 1]
    /\ \/ \E F \in Feeds \ {feed} : feed' = F /\ UNCHANGED <<interests, saved, created, events>>
       \/ \E t \in Interests \ {interests} : interests' = t /\ UNCHANGED <<feed, saved, created, events>>
       \/ \E i \in feed :
              /\ saved[i] = NoRow /\ created < Len(Stamp)
              /\ saved' = [saved EXCEPT ![i] = created + 1]
              /\ created' = created + 1 /\ events' = events + 1
              /\ UNCHANGED <<feed, interests>>
       \/ \E i \in Items :
              /\ saved[i] # NoRow
              /\ saved' = [saved EXCEPT ![i] = NoRow]
              /\ UNCHANGED <<feed, interests, created, events>>
    /\ UNCHANGED <<page, basis, known, calls>>

PageNext ==
    \/ UserStep
    \/ \E c \in Calls : HandleCall(c) \/ GetAnswer(c) \/ LoseAnswer(c)
    \/ Elsewhere

PageSpec == PageInit /\ [][PageNext]_pageVars
=============================================================================
