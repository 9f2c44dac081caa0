--------------------------- MODULE WebClientProps ---------------------------
(***************************************************************************)
(* What the gate of the old records and the list of sessions promise.      *)
(***************************************************************************)
EXTENDS WebClient

Original == Records(original)

\* Every variable has its type; the poll flag is up only during a poll.
TypeOK ==
    /\ store.sessions \in {Null, original.sessions} /\ store.quests \in {Null, original.quests}
    /\ store.marker \in Modes \cup {Null}
    /\ gate \in [Tabs -> {"CLOSED", "PASSED", "ready", "corrupted"}]
    /\ chosen \subseteq Modes
    /\ server \in [Ids -> {"NONE", "ACTIVE", "OVER"}]
    /\ view.status \in {"unmounted", "loading", "ready", "error", "unauthenticated"}
    /\ view.active \cup view.completed \subseteq Started
    /\ polling <=> (request # NoRequest /\ request.kind = "POLL")
    /\ view.status # "unmounted" => gate[Tab] = "PASSED"

\* An old record goes away only when the user's decision is on record,
\* wherever a call is cut off (completeLegacyDataMigration, appStorage.ts).
DroppedOnlyDecided == Records(store) # Original => store.marker # Null

\* Records the user wanted kept are summed up in whole, and corrupt ones never
\* are, although another tab may do the same, out of date, and a write may
\* fail between the summary, the marker and the removals; only a choice to
\* discard them takes the summary away (BETA_IMPLEMENTATION_PLAN.md:155).
KeptIsWhole ==
    store.marker = "referenced" =>
        /\ "BAD" \notin {original.sessions, original.quests}
        /\ ReferenceShown \in {Null, Original}
        /\ ReferenceShown = Null => "discarded" \in chosen

\* Both hold in every state: the old records are kept as the user decided.
RecordsSafe == DroppedOnlyDecided /\ KeptIsWhole

\* A session that the view has shown since the page was loaded stays in it, as
\* an active or as a completed one, whenever polls and loads are at rest: a
\* poll that finds it gone from the active ones reads the history
\* (refreshActiveSession), and a load after an error reads both anew (retry).
\* Only one that ends between the two parallel reads of such a load drops out
\* (synchronizeAll), and no longer than until the history is shown again.
NothingLost ==
    view.status = "ready" /\ request = NoRequest => shown \subseteq view.active \cup view.completed \cup slipped

\* A history that has been read to its end has every session that was over
\* when it was asked for: sessions that start and end while it is read page by
\* page do not make the cursor skip one (getAllSessionHistory, getSessionHistory).
HistoryComplete ==
    request # NoRequest /\ request.historyBegun /\ request.cursor = TheEnd => request.known \subseteq request.over

\* Both hold in every state: the view misses no session it could have read.
ViewComplete == NothingLost /\ HistoryComplete

\* Sessions that are over leave the list of active ones, unless the view says
\* that it is not up to date: no poll leaves the flag up that keeps the others
\* from starting (pollInFlightRef).
EndedLeave == []<>(view.active \cap With("OVER") = {} \/ view.status # "ready")
=============================================================================
