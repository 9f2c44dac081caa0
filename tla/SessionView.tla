----------------------------- MODULE SessionView -----------------------------
(***************************************************************************)
(* The sessions that one tab shows: SessionContext.tsx loads the active    *)
(* sessions and the whole history when it is mounted, then polls the       *)
(* active ones and reads the history again when they have changed.  Every  *)
(* request is answered from the sessions as they are at that time, the     *)
(* history page by page, while sessions start and end.                     *)
(*                                                                         *)
(* A session is named by the order in which it started.  The provider has  *)
(* at most one load or poll under way: polls run while the status is       *)
(* "ready", and a full load begins when it is not.  An answer is taken     *)
(* when it is used, at the latest.                                         *)
(***************************************************************************)
EXTENDS Integers, FiniteSets

CONSTANTS
    MaxSessions,
    PageSize,    \* limit=100 of getSessionHistoryPage
    NoRequest,
    MaxTroubles  \* bound on network faults and on logins that end

ASSUME ViewAssumption ==
    /\ {MaxSessions, PageSize} \subseteq Nat \ {0} /\ MaxTroubles \in Nat
    /\ NoRequest \notin [kind : {"LOAD", "POLL"}, activeRead : BOOLEAN, active : SUBSET Nat,
                         historyBegun : BOOLEAN, cursor : Nat, over : SUBSET Nat, known : SUBSET Nat]

VARIABLES
    server,    \* ai_sessions of the user: active or not, by session
    signedIn,
    view,      \* the state of SessionProvider
    request,   \* the load or the poll under way
    polling,   \* pollInFlightRef
    shown,     \* the sessions seen in the view since the page was loaded
    slipped,   \* the sessions that ended between the two reads of the last full load,
               \* until the history is shown anew
    troubles

viewVars == <<server, signedIn, view, request, polling, shown, slipped, troubles>>
viewServer == <<server, signedIn>>

Ids == 1 .. MaxSessions
With(status) == {i \in Ids : server[i] = status}
Started == {i \in Ids : server[i] # "NONE"}

NoView == [status |-> "unmounted", active |-> {}, completed |-> {}]

ViewInit ==
    /\ server = [i \in Ids |-> "NONE"]
    /\ signedIn = TRUE
    /\ view = NoView
    /\ request = NoRequest /\ polling = FALSE
    /\ shown = {} /\ slipped = {}
    /\ troubles = 0
-----------------------------------------------------------------------------
(* The server                                                              *)

StartSession(i) ==
    /\ server[i] = "NONE" /\ \A j \in 1 .. i - 1 : server[j] # "NONE"
    /\ server' = [server EXCEPT ![i] = "ACTIVE"]
    /\ UNCHANGED <<signedIn, view, request, polling, shown, slipped, troubles>>

\* A load reads the history and the active sessions in parallel, and the
\* history is past the session while the active ones are yet to be read.
BetweenReads(i) ==
    request # NoRequest /\ request.kind = "LOAD" /\ ~request.activeRead /\ request.cursor <= i

EndSession(i) ==
    /\ server[i] = "ACTIVE"
    /\ server' = [server EXCEPT ![i] = "OVER"]
    /\ slipped' = IF BetweenReads(i) THEN slipped \cup {i} ELSE slipped
    /\ UNCHANGED <<signedIn, view, request, polling, shown, troubles>>

\* The session cookie is revoked or expires.
SignOut ==
    /\ signedIn /\ troubles < MaxTroubles
    /\ signedIn' = FALSE /\ troubles' = troubles + 1
    /\ UNCHANGED <<server, view, request, polling, shown, slipped>>

GetActiveSessions == With("ACTIVE")

TheEnd == 0

\* The first rows below the cursor, latest first.
PageBelow(cursor) ==
    LET below == {i \in Started : i < cursor} IN
    {i \in below : Cardinality({j \in below : j > i}) < PageSize}

NextCursor(cursor) ==
    LET page == PageBelow(cursor) IN
    IF {i \in Started : i < cursor} = page THEN TheEnd ELSE CHOOSE i \in page : \A j \in page : i <= j
-----------------------------------------------------------------------------
(* Requests of the provider                                                *)

\* Above every session, those yet to start included.
FromTheTop == MaxSessions + 1

\* known: the sessions that were over when the history was asked for.
Request(kind) ==
    [kind |-> kind, activeRead |-> FALSE, active |-> {},
     historyBegun |-> kind = "LOAD", cursor |-> FromTheTop, over |-> {},
     known |-> IF kind = "LOAD" THEN With("OVER") ELSE {}]

\* The mount effect and, from the notice of an error, retry.
SynchronizeAll ==
    /\ view.status \in {"unmounted", "error"} /\ request = NoRequest
    /\ request' = Request("LOAD")
    /\ view' = [view EXCEPT !.status = "loading"]
    /\ slipped' = {}
    /\ UNCHANGED <<viewServer, polling, shown, troubles>>

\* Every five seconds, and when the tab is looked at again.
RefreshActiveSession ==
    /\ view.status = "ready" /\ ~polling
    /\ request' = Request("POLL") /\ polling' = TRUE
    /\ UNCHANGED <<viewServer, view, shown, slipped, troubles>>

\* Mutant: only a failure lets go of the in-flight flag.
ReleasedOnFailure(failed) == polling /\ ~failed

\* finally
Released(failed) == FALSE

Finish(failed) == request' = NoRequest /\ polling' = Released(failed)

ReadActive ==
    /\ request # NoRequest /\ ~request.activeRead /\ signedIn
    /\ request' = [request EXCEPT !.activeRead = TRUE, !.active = GetActiveSessions]
    /\ UNCHANGED <<viewServer, view, polling, shown, slipped, troubles>>

\* One turn of the loop of getAllSessionHistory; only sessions that are over
\* are selected.
ReadHistoryPage ==
    /\ request # NoRequest /\ request.historyBegun /\ request.cursor # TheEnd /\ signedIn
    /\ request' = [request EXCEPT !.over = @ \cup (PageBelow(request.cursor) \cap With("OVER")),
                                  !.cursor = NextCursor(request.cursor)]
    /\ UNCHANGED <<viewServer, view, polling, shown, slipped, troubles>>

Showing(active, completed) ==
    [status |-> "ready", active |-> active, completed |-> completed]

LoadSucceeds ==
    /\ request # NoRequest /\ request.kind = "LOAD" /\ request.activeRead /\ request.cursor = TheEnd
    /\ view' = Showing(request.active, request.over)
    /\ shown' = shown \cup request.active \cup request.over
    /\ Finish(FALSE)
    /\ UNCHANGED <<viewServer, slipped, troubles>>

\* Mutant: one session more and one less go unnoticed.
ChangedInNumber(before, active) == Cardinality(before) # Cardinality(active)

ActiveSessionsChanged(before, active) == before # active

\* The active sessions are shown at once, and the history is asked for.
PollShowsActive ==
    /\ request # NoRequest /\ request.kind = "POLL" /\ request.activeRead /\ ~request.historyBegun
    /\ view' = [view EXCEPT !.active = request.active]
    /\ shown' = shown \cup request.active
    /\ IF ActiveSessionsChanged(view.active, request.active)
       THEN request' = [request EXCEPT !.historyBegun = TRUE, !.active = {}, !.known = With("OVER")] /\ UNCHANGED polling
       ELSE Finish(FALSE)
    /\ UNCHANGED <<viewServer, slipped, troubles>>

PollShowsHistory ==
    /\ request # NoRequest /\ request.kind = "POLL" /\ request.historyBegun /\ request.cursor = TheEnd
    /\ view' = Showing(view.active, request.over)
    /\ shown' = shown \cup request.over /\ slipped' = {}
    /\ Finish(FALSE)
    /\ UNCHANGED <<viewServer, troubles>>

\* handleRequestError: a login that has ended empties the view, other errors
\* leave what it shows.
Failed(unauthorized) ==
    IF unauthorized THEN [status |-> "unauthenticated", active |-> {}, completed |-> {}]
    ELSE [view EXCEPT !.status = "error"]

\* requestApi throws: the answer is a 401, or there is none that can be used.
RequestFails ==
    /\ request # NoRequest /\ (~request.activeRead \/ (request.historyBegun /\ request.cursor # TheEnd))
    /\ \/ ~signedIn /\ view' = Failed(TRUE) /\ UNCHANGED troubles
       \/ troubles < MaxTroubles /\ view' = Failed(FALSE) /\ troubles' = troubles + 1
    /\ Finish(TRUE)
    /\ UNCHANGED <<viewServer, shown, slipped>>

\* The link to GitHub ends in a new page.
LogIn ==
    /\ view.status = "unauthenticated"
    /\ signedIn' = TRUE
    /\ view' = NoView /\ shown' = {} /\ slipped' = {}
    /\ UNCHANGED <<server, request, polling, troubles>>

\* The page goes away with its requests.
Unmount ==
    /\ view' = NoView /\ request' = NoRequest /\ polling' = FALSE
    /\ shown' = {} /\ slipped' = {}
    /\ UNCHANGED <<viewServer, troubles>>

ProviderStep ==
    \/ SynchronizeAll \/ RefreshActiveSession
    \/ ReadActive \/ ReadHistoryPage
    \/ LoadSucceeds \/ PollShowsActive \/ PollShowsHistory \/ RequestFails

ServerStep ==
    \/ \E i \in Ids : StartSession(i) \/ EndSession(i)
    \/ SignOut
=============================================================================
