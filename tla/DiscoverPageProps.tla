-------------------------- MODULE DiscoverPageProps --------------------------
(***************************************************************************)
(* What the Discover screen promises about the lists it shows.             *)
(***************************************************************************)
EXTENDS DiscoverPage

Shown(s) == {s[k] : k \in DOMAIN s}
Distinct(s) == \A j, k \in DOMAIN s : s[j] = s[k] => j = k

AnyRow == [item : Items, id : 1 .. created]
AnyRows(s) == s \in Seq(AnyRow)

\* Every variable has its type, a mutation that is under way keeps its item
\* busy, and the saves that analytics counts are the rows that were created: a
\* save that finds the item saved by another tab is not counted (saveItem).
PageTypeOK ==
    /\ feed \in Feeds /\ interests \in Interests
    /\ saved \in [Items -> 0 .. created]
    /\ created \in Nat /\ events = created /\ known \in 0 .. created
    /\ page.view \in {"EXPLORE", "SAVED"} /\ page.tab \in Categories
    /\ page.status \in {"idle", "loading", "ready", "error"}
    /\ page.savedStatus \in {"idle", "loading", "ready", "error"}
    /\ page.items \in Seq(Items) /\ AnyRows(page.savedItems)
    /\ page.refs \in [Items -> 0 .. created]
    /\ page.saving \subseteq Items
    /\ \A c \in Calls : calls[c] # Nil =>
           /\ calls[c].step \in {"SENT", "LISTED", "CACHED", "CONFLICT", "ANSWERED"}
           /\ calls[c].op = "SAVE" => calls[c].about \in page.saving
           /\ calls[c].op = "DELETE" => calls[c].about.item \in page.saving
           /\ calls[c].op = "INTERESTS" => page.savingInterests

\* What the user has paged through is the beginning of the ranking of the
\* items the first page was computed from, and the button for more is there
\* until all of it is shown: the cursor, which names an item by its keys,
\* neither skips nor repeats one, whatever is answered in between and
\* whoever changes the interests (discover.service.ts listDiscover,
\* DiscoverPage.tsx loadMore).  A page computed from other items ends it.
PagesArePrefix ==
    basis # Nil /\ page.status = "ready" =>
        LET ranking == Ranking[basis.feed][page.tab][basis.interest] IN
        /\ Len(page.items) <= Len(ranking)
        /\ page.items = SubSeq(ranking, 1, Len(page.items))
        /\ (page.cursor = Nil) <=> (Len(page.items) = Len(ranking))

\* No item is shown twice, the items having changed between two pages or not
\* (mergeItems and mergeSavedItems).
NoItemTwice == Distinct(page.items) /\ Distinct(page.savedItems)

\* The list shown is the list of the tab chosen, and no late answer to
\* another tab's request gets into it (requestSequence).
ItemsOfTab == \A i \in Shown(page.items) : CategoryOf[i] = page.tab

\* All three hold in every state: what the screen lists is what it should list.
ListsSound == PagesArePrefix /\ NoItemTwice /\ ItemsOfTab

\* No row created so far has its millisecond and is listed before it.
FirstOfItsMillisecond(n, rows) ==
    \A m \in 1 .. rows : Stamp[m].ms = Stamp[n].ms => ~Precedes(Stamp[n], Stamp[m])

\* When the list of saved items is shown to its end, every row that was there
\* when it was begun and still is, is in it, although rows were added and
\* removed while it was read page by page (listSavedItems, loadMoreSaved),
\* unless another row of its millisecond is listed before it: at the end of a
\* page the cursor, cut to milliseconds, passes over the rest of them.
SavedComplete ==
    page.view = "SAVED" /\ page.savedStatus = "ready" /\ page.savedCursor = Nil =>
        \A i \in Items :
            saved[i] \in 1 .. known /\ FirstOfItsMillisecond(saved[i], created)
                => Row(i) \in Shown(page.savedItems)
=============================================================================
