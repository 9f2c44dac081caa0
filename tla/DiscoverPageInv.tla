--------------------------- MODULE DiscoverPageInv ---------------------------
(***************************************************************************)
(* The inductive invariant of the Discover screen: the types of everything *)
(* under way, which answer the page waits for, the list shown as a part of *)
(* its ranking, whose row is whose, and what the list of saved items and   *)
(* the answers on their way to it hold.                                    *)
(***************************************************************************)
EXTENDS DiscoverPageProps

ListCursor == [interest : Interests, keys : Seq(Int)]
RowStamp == [ms : Nat, us : 0 .. 999, uuid : Nat]
ListBasis == [feed : Feeds, interest : Interests]
Statuses == {"idle", "loading", "ready", "error"}

\* The fields of the page, of a call and of an answer, whatever is in them.
IsPage(p) ==
    p = [view |-> p.view, tab |-> p.tab, status |-> p.status, items |-> p.items, cursor |-> p.cursor,
         loadingMore |-> p.loadingMore, refs |-> p.refs, savedStatus |-> p.savedStatus,
         savedItems |-> p.savedItems, savedCursor |-> p.savedCursor,
         loadingMoreSaved |-> p.loadingMoreSaved, saving |-> p.saving,
         savingInterests |-> p.savingInterests]

IsAnswer(a) == a = [ok |-> a.ok, items |-> a.items, cursor |-> a.cursor, refs |-> a.refs]

IsCallRow(call) ==
    /\ call = [op |-> call.op, about |-> call.about, cursor |-> call.cursor, more |-> call.more,
               current |-> call.current, step |-> call.step, basis |-> call.basis, answer |-> call.answer]
    /\ IsAnswer(call.answer)

PageFields ==
    /\ IsPage(page)
    /\ page.view \in {"EXPLORE", "SAVED"} /\ page.tab \in Categories
    /\ page.status \in Statuses /\ page.savedStatus \in Statuses
    /\ page.items \in Seq(Items) /\ AnyRows(page.savedItems)
    /\ page.cursor \in ListCursor \cup {Nil} /\ page.savedCursor \in RowStamp \cup {Nil}
    /\ page.loadingMore \in BOOLEAN /\ page.loadingMoreSaved \in BOOLEAN
    /\ page.refs \in [Items -> 0 .. created]
    /\ page.saving \subseteq Items /\ page.savingInterests \in BOOLEAN

StateTypes ==
    /\ feed \in Feeds /\ interests \in Interests
    /\ saved \in [Items -> 0 .. created]
    /\ \A i, j \in Items : saved[i] = saved[j] /\ saved[i] # NoRow => i = j
    /\ created \in Nat /\ created <= Len(Stamp) /\ events = created /\ known \in 0 .. created
    /\ basis # Nil => basis \in ListBasis
    /\ calls = [c \in Calls |-> calls[c]]

ListCall(call) ==
    /\ call.about \in Categories
    /\ call.cursor \in ListCursor \cup {Nil}
    /\ call.more <=> call.cursor # Nil
    /\ call.more \/ call.current
    /\ call.step \in {"SENT", "LISTED", "ANSWERED"}
    /\ call.step = "SENT" => ~call.answer.ok
    /\ call.step = "LISTED" => call.answer.ok
    /\ call.answer.ok =>
           /\ call.basis \in ListBasis
           /\ call.cursor # Nil => call.cursor.interest = call.basis.interest
           /\ LET after == AfterCursor(call.basis.feed, call.about, call.basis.interest, call.cursor) IN
              /\ call.answer.items = FirstPage(after)
              /\ call.answer.cursor = CursorAfter(after, call.basis.feed, call.about, call.basis.interest)
    /\ call.answer.ok /\ call.step = "ANSWERED" => call.answer.refs \in [Items -> 0 .. created]

SavedCall(call) ==
    /\ call.cursor \in RowStamp \cup {Nil}
    /\ call.more <=> call.cursor # Nil
    /\ call.more \/ call.current
    /\ call.step \in {"SENT", "ANSWERED"}
    /\ call.step = "SENT" => ~call.answer.ok
    /\ call.answer.ok =>
           /\ call.basis \in 0 .. created
           /\ AnyRows(call.answer.items) /\ Distinct(call.answer.items)
           /\ call.answer.cursor \in RowStamp \cup {Nil}

SaveCall(call) ==
    /\ call.about \in page.saving
    /\ call.step \in {"SENT", "CACHED", "CONFLICT", "ANSWERED"}
    /\ call.step # "ANSWERED" => ~call.answer.ok
    /\ call.answer.ok => \E id \in 1 .. created : call.answer.items = <<[item |-> call.about, id |-> id]>>

DeleteCall(call) ==
    /\ call.about \in AnyRow /\ call.about.item \in page.saving
    /\ call.step \in {"SENT", "ANSWERED"}
    /\ call.step # "ANSWERED" => ~call.answer.ok

InterestsCall(call) ==
    /\ call.about \in Interests /\ page.savingInterests
    /\ call.step \in {"SENT", "ANSWERED"}
    /\ call.step # "ANSWERED" => ~call.answer.ok

CallWellFormed(call) ==
    /\ IsCallRow(call)
    /\ call.op \in {"LIST", "SAVED", "SAVE", "DELETE", "INTERESTS"}
    /\ call.more \in BOOLEAN /\ call.current \in BOOLEAN /\ call.answer.ok \in BOOLEAN
    /\ call.op = "LIST" => ListCall(call)
    /\ call.op = "SAVED" => SavedCall(call)
    /\ call.op = "SAVE" => SaveCall(call)
    /\ call.op = "DELETE" => DeleteCall(call)
    /\ call.op = "INTERESTS" => InterestsCall(call)

CallTypes == \A c \in Calls : calls[c] # Nil => CallWellFormed(calls[c])

\* The answer that the page waits for is to what it shows.
Awaited(call) ==
    /\ call.op = "LIST" /\ call.current =>
           /\ call.about = page.tab
           /\ ~call.more => page.status = "loading"
           /\ call.more => page.status = "ready" /\ page.loadingMore /\ call.cursor = page.cursor
    /\ call.op = "SAVED" /\ call.current =>
           /\ ~call.more => page.savedStatus = "loading"
           /\ call.more => page.savedStatus = "ready" /\ page.loadingMoreSaved /\ call.cursor = page.savedCursor

\* Two calls that the page never has under way together: two that it waits
\* for to show the same list, two toggles of an item, two choices of interests.
IsToggle(call) == call.op \in {"SAVE", "DELETE"}
ItemOf(call) == IF call.op = "SAVE" THEN call.about ELSE call.about.item

Clash(a, b) ==
    \/ a.op = b.op /\ a.op \in {"LIST", "SAVED"} /\ a.current /\ b.current
    \/ IsToggle(a) /\ IsToggle(b) /\ ItemOf(a) = ItemOf(b)
    \/ a.op = "INTERESTS" /\ b.op = "INTERESTS"

CurrentCalls ==
    /\ \A c \in Calls : calls[c] # Nil => Awaited(calls[c])
    /\ \A b, c \in Calls : b # c /\ calls[b] # Nil /\ calls[c] # Nil => ~ Clash(calls[b], calls[c])

PageShaped == StateTypes /\ PageFields /\ CallTypes /\ CurrentCalls

\* The items up to the cursor, or all of them without one.
RankedUpTo(F, tab, interest, items, cursor) ==
    LET ranking == Ranking[F][tab][interest]  m == Len(items) IN
    /\ m <= Len(ranking)
    /\ items = SubSeq(ranking, 1, m)
    /\ (cursor = Nil) <=> (m = Len(ranking))
    /\ cursor # Nil =>
           /\ m > 0
           /\ cursor = [interest |-> interest, keys |-> Ranked(ranking[m], InTab(F, tab), interest)]

RankingShown ==
    basis # Nil /\ page.status = "ready" =>
        RankedUpTo(basis.feed, page.tab, basis.interest, page.items, page.cursor)

ListsInv == RankingShown /\ NoItemTwice /\ ItemsOfTab

RefsNamed(owner, refs) == \A i \in Items : refs[i] # NoRow => owner[refs[i]] = i
RowsNamed(owner, rows) == \A k \in DOMAIN rows : owner[rows[k].id] = rows[k].item

CallNamed(owner, call) ==
    /\ call.op = "LIST" /\ call.answer.ok /\ call.step = "ANSWERED" => RefsNamed(owner, call.answer.refs)
    /\ call.op \in {"SAVED", "SAVE"} /\ call.answer.ok => RowsNamed(owner, call.answer.items)
    /\ call.op = "DELETE" => owner[call.about.id] = call.about.item

Owned(owner) ==
    /\ RefsNamed(owner, saved) /\ RefsNamed(owner, page.refs) /\ RowsNamed(owner, page.savedItems)
    /\ \A c \in Calls : calls[c] # Nil => CallNamed(owner, calls[c])

\* A row is of one item, wherever it is named.
RowsOwned == \E owner \in [1 .. created -> Items] : Owned(owner)

PastCursor(n, cursor) == cursor # Nil => Precedes(Stamp[n], cursor)
UpTo(n, cursor) == cursor # Nil => ~Precedes(Stamp[n], cursor)

\* The rows of an answer are all that there were between two cursors, but for
\* those behind a row of their millisecond; made is how many were created.
AnswerComplete(rows, made, call) ==
    \A i \in Items : /\ rows[i] \in 1 .. call.basis /\ FirstOfItsMillisecond(rows[i], made)
                     /\ PastCursor(rows[i], call.cursor) /\ UpTo(rows[i], call.answer.cursor)
        => [item |-> i, id |-> rows[i]] \in Shown(call.answer.items)

CallServed(rows, made, call) ==
    /\ call.op = "SAVED" /\ call.answer.ok => AnswerComplete(rows, made, call)
    /\ call.op = "DELETE" /\ call.answer.ok => rows[call.about.item] # call.about.id

\* The next page that is waited for was read after the list was begun.
MoreCovers(call) ==
    call.op = "SAVED" /\ call.answer.ok /\ call.current /\ call.cursor # Nil => known <= call.basis

ShownComplete ==
    page.savedStatus = "ready" =>
        \A i \in Items :
            /\ saved[i] \in 1 .. known /\ FirstOfItsMillisecond(saved[i], created)
            /\ UpTo(saved[i], page.savedCursor)
            => Row(i) \in Shown(page.savedItems)

SavedInv ==
    ShownComplete /\ \A c \in Calls : calls[c] # Nil => CallServed(saved, created, calls[c]) /\ MoreCovers(calls[c])

PageInv == PageShaped /\ ListsInv /\ RowsOwned /\ SavedInv
=============================================================================
