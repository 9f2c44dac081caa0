----------------------------- MODULE AiSessions -----------------------------
(***************************************************************************)
(* The AI-session core of the API server for one user: the rows of         *)
(* ai_sessions, the ledger integration_events that makes plugin events     *)
(* idempotent, the manual-session API with its idempotency keys, and the   *)
(* recovery job that abandons silent sessions.                             *)
(*                                                                         *)
(* Every handler of a user runs in a transaction that first takes the      *)
(* user's advisory lock (tx below) and then reads the database clock.  The *)
(* recovery job does not take that lock: it may run between the moment a   *)
(* handler read the clock and the moment it writes its rows.               *)
(***************************************************************************)
EXTENDS Naturals, FiniteSets

CONSTANTS
    Sessions,          \* identifiers an ai_sessions row can have
    Devices,           \* linked plugin devices of the user
    SessionKeys,       \* hashed Codex session identifiers
    TurnKeys,          \* hashed Codex turn identifiers
    Messages,          \* the plugin events that may reach the server
    Outcomes,          \* the outcomes a user may end a session with
    ApiKeys,           \* Idempotency-Key values of the manual-session API
    Null,              \* SQL NULL
    HeartbeatTimeout,  \* 120 seconds
    ManualTimeout,     \* 12 hours
    DeferredTtl,       \* 24 hours
    MaxEventsPerTurn,  \* 500
    MaxClock           \* bound on the model's clock

TurnEvents == {"PreToolUse", "PermissionRequest", "PostToolUse", "Stop", "Heartbeat"}
EventNames == TurnEvents \cup {"SessionStart", "UserPromptSubmit"}

\* The CHECK of ai_sessions.terminal_reason.
TerminalReasons ==
    {"HOOK_STOP", "MANUAL_COMPLETED", "RECOVERED_LATE_STOP", "MANUAL_FAILED",
     "MANUAL_CANCELLED", "HEARTBEAT_TIMEOUT", "MANUAL_TIMEOUT", "SUPERSEDED_BY_NEW_TURN"}

\* validateIntegrationEvent: every event but SessionStart names its turn.
WellFormed(m) ==
    /\ m.device \in Devices
    /\ m.event \in EventNames
    /\ m.session \in SessionKeys
    /\ m.turn \in TurnKeys \cup {Null}
    /\ m.event # "SessionStart" => m.turn # Null

ASSUME MessagesAssumption ==
    /\ IsFiniteSet(Messages)
    /\ \A m \in Messages : WellFormed(m)

ASSUME NullAssumption ==
    /\ Null \notin Sessions \cup SessionKeys \cup TurnKeys \cup Messages \cup ApiKeys
    /\ Null \notin Nat \cup TerminalReasons \cup {"HOOK", "MANUAL"}
    /\ Messages \cap ApiKeys = {}

ASSUME OutcomesAssumption == Outcomes \subseteq {"COMPLETED", "FAILED", "ABANDONED"}

ASSUME TimeAssumption ==
    /\ {HeartbeatTimeout, ManualTimeout, DeferredTtl} \subseteq Nat \ {0}
    /\ {MaxEventsPerTurn, MaxClock} \subseteq Nat

VARIABLES
    sessions,   \* ai_sessions: identifier -> row, or a row of status NONE
    events,     \* integration_events: message -> its row, result NEW before
    replies,    \* api_idempotency_keys: key -> stored response
    tx,         \* the holder of the user's advisory lock and its clock reading
    clock       \* clock_timestamp()

vars == <<sessions, events, replies, tx, clock>>
-----------------------------------------------------------------------------
ActiveStatuses == {"RUNNING", "WAITING_FOR_USER"}
EndStatuses == {"COMPLETED", "FAILED", "ABANDONED"}

NoRow == [status |-> "NONE", origin |-> Null, key |-> Null, turn |-> Null,
          startedAt |-> 0, endedAt |-> Null, lastActivityAt |-> 0,
          reason |-> Null, timing |-> "EXACT"]
NewRow(origin, key, turn, at) ==
    [NoRow EXCEPT !.status = "RUNNING", !.origin = origin, !.key = key,
                  !.turn = turn, !.startedAt = at, !.lastActivityAt = at]

NoEvent == [result |-> "NEW", session |-> Null, receivedAt |-> 0]
NoReply == [op |-> Null, session |-> Null, created |-> FALSE]
Unlocked == [holder |-> Null, at |-> 0]

IsActive(row) == row.status \in ActiveStatuses
Later(a, b) == IF a < b THEN b ELSE a

Free(s) == sessions[s].status = "NONE"
ActiveManual == {s \in Sessions : IsActive(sessions[s]) /\ sessions[s].origin = "MANUAL"}
\* Mutant: a session that waits for the user is not found by its Codex session.
RunningWithKey(k) == {s \in Sessions : sessions[s].status = "RUNNING" /\ sessions[s].key = k}
ActiveWithKey(k) == {s \in Sessions : IsActive(sessions[s]) /\ sessions[s].key = k}
OfTurn(t) == {s \in Sessions : ~Free(s) /\ sessions[s].turn = t}

Stored == {n \in Messages : events[n].result # "NEW"}
-----------------------------------------------------------------------------
(* The three ways a row ends, and what one plugin event does to a row.     *)

Ended(row, status, reason, at) ==
    [row EXCEPT !.status = status, !.reason = reason,
                !.endedAt = Later(at, row.startedAt),
                !.lastActivityAt = Later(@, at)]

\* getEventStatus
StatusAfter(status, event) ==
    CASE event = "PermissionRequest" -> "WAITING_FOR_USER"
      [] event = "PostToolUse"       -> "RUNNING"
      [] event = "Stop"              -> "COMPLETED"
      [] OTHER                       -> status

\* applySessionEvent on an active row: a receipt before startedAt is moved to
\* startedAt and marks the timing as degraded.
Touched(row, event, at) ==
    LET effectiveAt == Later(at, row.startedAt)
    IN  [row EXCEPT
            !.status = StatusAfter(@, event),
            !.endedAt = IF event = "Stop" THEN effectiveAt ELSE Null,
            !.reason = IF event = "Stop" THEN "HOOK_STOP" ELSE Null,
            !.lastActivityAt = Later(@, effectiveAt),
            !.timing = IF at < row.startedAt THEN "DEGRADED" ELSE @]

\* Mutant: a session abandoned for another reason is recovered too.
RecoverableAnyReason(row, event, at, known) ==
    /\ event = "Stop"
    /\ row.status = "ABANDONED"
    /\ at <= row.endedAt + DeferredTtl
    /\ known

\* Mutant: so is a session that a Stop has completed.
RecoverableStopped(row, event, at, known) ==
    /\ event = "Stop"
    /\ row.reason \in {"HEARTBEAT_TIMEOUT", "HOOK_STOP"}
    /\ at <= row.endedAt + DeferredTtl
    /\ known

\* A Stop that comes late for a session the recovery job abandoned, from a
\* device with an earlier ledger row of that session.
Recoverable(row, event, at, known) ==
    /\ event = "Stop"
    /\ row.status = "ABANDONED"
    /\ row.reason = "HEARTBEAT_TIMEOUT"
    /\ at <= row.endedAt + DeferredTtl
    /\ known

\* Mutant: any event of an abandoned session makes it active again.
AfterEventReopening(row, event, at, known) ==
    IF IsActive(row) THEN Touched(row, event, at)
    ELSE IF row.status = "ABANDONED" THEN [Touched(row, event, at) EXCEPT !.status = "RUNNING"]
    ELSE row

AfterEvent(row, event, at, known) ==
    IF IsActive(row) THEN Touched(row, event, at)
    ELSE IF Recoverable(row, event, at, known)
         THEN [row EXCEPT !.status = "COMPLETED", !.reason = "RECOVERED_LATE_STOP",
                          !.timing = "DEGRADED"]
         ELSE row

EventResult(row, event, at, known) ==
    IF IsActive(row) \/ Recoverable(row, event, at, known)
    THEN "APPLIED" ELSE "IGNORED_TERMINAL"

\* priorDeviceEvents: any ledger row of the session from this device counts.
KnownDevice(s, d) == \E n \in Messages : events[n].session = s /\ n.device = d
-----------------------------------------------------------------------------
(* reprocessDeferredEvents: the deferred events of the turn, in the order  *)
(* of receipt, applied to the row of the session that just started.        *)

\* Mutant: the start of a turn leaves its deferred events where they are.
DeferredOfNone(t) == {n \in Messages : events[n].result = "DEFERRED" /\ n.turn = t /\ FALSE}

DeferredOf(t) == {n \in Messages : events[n].result = "DEFERRED" /\ n.turn = t}

Orders(D) ==
    {q \in [1..Cardinality(D) -> D] :
        /\ \A n \in D : \E i \in 1..Cardinality(D) : q[i] = n
        /\ \A i, j \in 1..Cardinality(D) :
               i < j => events[q[i]].receivedAt <= events[q[j]].receivedAt}

IsOrphan(n, startAt) == startAt > events[n].receivedAt + DeferredTtl

\* The row after one deferred event; an orphan leaves it as it was.
AfterDeferred(s, n, before, startAt) ==
    IF IsOrphan(n, startAt) THEN before
    ELSE AfterEvent(before, n.event, events[n].receivedAt, KnownDevice(s, n.device))

\* The row of session s before the first and after each of the deferred events.
Replay(s, row, q, size, startAt) ==
    LET after[i \in 0..size] ==
            IF i = 0 THEN row
            ELSE AfterDeferred(s, q[i], after[i - 1], startAt)
    IN  after

\* Mutant: a replayed event keeps its ledger row without the session.
ReplayedEventDetached(s, n, before, startAt) ==
    [events[n] EXCEPT !.result = EventResult(before, n.event, events[n].receivedAt,
                                             KnownDevice(s, n.device))]

ReplayedEvent(s, n, before, startAt) ==
    IF IsOrphan(n, startAt)
    THEN [events[n] EXCEPT !.result = "IGNORED_ORPHAN"]
    ELSE [events[n] EXCEPT !.session = s,
             !.result = EventResult(before, n.event, events[n].receivedAt,
                                    KnownDevice(s, n.device))]
-----------------------------------------------------------------------------
Init ==
    /\ sessions = [s \in Sessions |-> NoRow]
    /\ events = [m \in Messages |-> NoEvent]
    /\ replies = [k \in ApiKeys |-> NoReply]
    /\ tx = Unlocked
    /\ clock = 0

(* A handler's transaction opens by taking the user's lock and reading the  *)
(* clock.  processIntegrationEvent then locks the device's row and consults *)
(* the ledger: an event that is stored is answered from it, and an event   *)
(* that reuses an id or a sequence number, exceeds the limit of its turn   *)
(* or comes from a revoked device is refused; none of these changes a row. *)
Accepted(m) ==
    /\ m \notin Stored
    /\ \A n \in Stored : n.device = m.device =>
           /\ n.id # m.id
           /\ m.sequence # Null => n.sequence # m.sequence
    /\ m.turn # Null =>
           Cardinality({n \in Stored : n.turn = m.turn}) < MaxEventsPerTurn

BeginEvent(m) ==
    /\ tx.holder = Null
    /\ Accepted(m)
    /\ tx' = [holder |-> m, at |-> clock]
    /\ UNCHANGED <<sessions, events, replies, clock>>

\* Mutant: the stored response of an Idempotency-Key is not consulted.
BeginManualStartAgain(k) ==
    /\ tx.holder = Null
    /\ tx' = [holder |-> k, at |-> clock]
    /\ UNCHANGED <<sessions, events, replies, clock>>

\* startManualSession, for an Idempotency-Key without a stored response.
BeginManualStart(k) ==
    /\ tx.holder = Null
    /\ replies[k] = NoReply
    /\ tx' = [holder |-> k, at |-> clock]
    /\ UNCHANGED <<sessions, events, replies, clock>>

\* The process dies or the connection is lost before the commit.
Rollback ==
    /\ tx.holder # Null
    /\ tx' = Unlocked
    /\ UNCHANGED <<sessions, events, replies, clock>>

\* Mutant: the ledger row is written without its time of receipt.
LedgerUntimed(result, s) == [result |-> result, session |-> s, receivedAt |-> Null]

Ledger(result, s) == [result |-> result, session |-> s, receivedAt |-> tx.at]

Commit == /\ tx' = Unlocked
          /\ UNCHANGED <<replies, clock>>

StartSessionEvent(m) ==
    /\ tx.holder = m
    /\ m.event = "SessionStart"
    /\ events' = [events EXCEPT ![m] = Ledger("APPLIED", Null)]
    /\ UNCHANGED sessions
    /\ Commit

DeferEvent(m) ==
    /\ tx.holder = m
    /\ m.event \in TurnEvents
    /\ OfTurn(m.turn) = {}
    /\ events' = [events EXCEPT ![m] = Ledger("DEFERRED", Null)]
    /\ UNCHANGED sessions
    /\ Commit

ApplyEvent(m) ==
    /\ tx.holder = m
    /\ m.event \in TurnEvents
    /\ \E s \in OfTurn(m.turn) :
           LET known == KnownDevice(s, m.device)
               row == sessions[s]
           IN  /\ sessions' = [sessions EXCEPT
                                  ![s] = AfterEvent(row, m.event, tx.at, known)]
               /\ events' = [events EXCEPT
                                ![m] = Ledger(EventResult(row, m.event, tx.at, known), s)]
    /\ Commit

(* The end of a UserPromptSubmit: table is ai_sessions with the turn's     *)
(* session s in place; its deferred events are replayed and the event is   *)
(* recorded with its own result.                                           *)
FinishTurnStart(m, s, table, result) ==
    LET D == DeferredOf(m.turn)
        size == Cardinality(D)
    IN  \E q \in Orders(D) :
            LET after == Replay(s, table[s], q, size, tx.at)
                position(n) == CHOOSE i \in 1..size : q[i] = n
            IN  /\ sessions' = [table EXCEPT ![s] = after[size]]
                /\ events' = [n \in Messages |->
                       IF n = m THEN Ledger(result, s)
                       ELSE IF n \in D
                       THEN ReplayedEvent(s, n, after[position(n) - 1], tx.at)
                       ELSE events[n]]
                /\ Commit

RepeatTurnStart(m) ==
    /\ tx.holder = m
    /\ m.event = "UserPromptSubmit"
    /\ \E s \in OfTurn(m.turn) :
           FinishTurnStart(m, s, sessions,
               IF IsActive(sessions[s]) THEN "DUPLICATE" ELSE "IGNORED_TERMINAL")

Linked(row, m) == [row EXCEPT !.key = m.session, !.turn = m.turn,
                              !.lastActivityAt = Later(@, tx.at)]

\* An active manual session without a turn takes the turn instead of a new row.
LinkManualSession(m) ==
    /\ tx.holder = m
    /\ m.event = "UserPromptSubmit"
    /\ OfTurn(m.turn) = {}
    /\ ActiveWithKey(m.session) = {}
    /\ \E s \in ActiveManual :
           /\ sessions[s].turn = Null
           /\ FinishTurnStart(m, s, [sessions EXCEPT ![s] = Linked(sessions[s], m)],
                              "APPLIED")

\* The turn gets a row; the active session of the same Codex session, if
\* any, is superseded.
NewTurnTable(m, s) ==
    [r \in Sessions |->
        IF r = s THEN NewRow("HOOK", m.session, m.turn, tx.at)
        ELSE IF r \in ActiveWithKey(m.session)
        THEN Ended(sessions[r], "ABANDONED", "SUPERSEDED_BY_NEW_TURN", tx.at)
        ELSE sessions[r]]

CreateTurnSession(m) ==
    /\ tx.holder = m
    /\ m.event = "UserPromptSubmit"
    /\ OfTurn(m.turn) = {}
    /\ \/ ActiveWithKey(m.session) # {}
       \/ \A s \in ActiveManual : sessions[s].turn # Null
    /\ \E s \in Sessions :
           /\ Free(s)
           /\ FinishTurnStart(m, s, NewTurnTable(m, s), "APPLIED")

StartManualSession(k) ==
    /\ tx.holder = k
    /\ \/ /\ ActiveManual = {}
          /\ \E s \in Sessions :
                 /\ Free(s)
                 /\ sessions' = [sessions EXCEPT ![s] = NewRow("MANUAL", Null, Null, tx.at)]
                 /\ replies' = [replies EXCEPT
                                   ![k] = [op |-> "START", session |-> s, created |-> TRUE]]
       \/ \E s \in ActiveManual :
              /\ replies' = [replies EXCEPT
                                ![k] = [op |-> "START", session |-> s, created |-> FALSE]]
              /\ UNCHANGED sessions
    /\ tx' = Unlocked
    /\ UNCHANGED <<events, clock>>

\* getManualTerminalState
ManualReason == [COMPLETED |-> "MANUAL_COMPLETED", FAILED |-> "MANUAL_FAILED",
                 ABANDONED |-> "MANUAL_CANCELLED"]

(* endSession reads the clock with the row already locked, so it is one    *)
(* step.  An ended session is answered as it is.                           *)
EndSession(k, s, outcome) ==
    /\ tx.holder = Null
    /\ replies[k] = NoReply
    /\ ~Free(s)
    /\ sessions' = [sessions EXCEPT ![s] =
           IF IsActive(@) THEN Ended(@, outcome, ManualReason[outcome], clock) ELSE @]
    /\ replies' = [replies EXCEPT ![k] = [op |-> "END", session |-> s, created |-> FALSE]]
    /\ UNCHANGED <<events, tx, clock>>

\* Mutant: the recovery job passes over sessions that wait for the user.
SilentRunning(row) == /\ row.status = "RUNNING"
                      /\ row.turn # Null
                      /\ row.lastActivityAt + HeartbeatTimeout <= clock

(* One run of the recovery job: three UPDATE statements, no user lock.     *)
Silent(row) == /\ IsActive(row)
               /\ row.turn # Null
               /\ row.lastActivityAt + HeartbeatTimeout <= clock
Overlong(row) == /\ IsActive(row)
                 /\ row.turn = Null
                 /\ row.startedAt + ManualTimeout <= clock
Orphaned(event) == /\ event.result = "DEFERRED"
                   /\ event.receivedAt + DeferredTtl <= clock

Abandoned(row) ==
    IF Silent(row)
    THEN [row EXCEPT !.status = "ABANDONED", !.reason = "HEARTBEAT_TIMEOUT",
                     !.timing = "DEGRADED",
                     !.endedAt = row.lastActivityAt + HeartbeatTimeout]
    ELSE IF Overlong(row)
    THEN [row EXCEPT !.status = "ABANDONED", !.reason = "MANUAL_TIMEOUT",
                     !.timing = "DEGRADED",
                     !.endedAt = row.startedAt + ManualTimeout,
                     !.lastActivityAt = Later(@, row.startedAt + ManualTimeout)]
    ELSE row

RunCleanup ==
    /\ sessions' = [s \in Sessions |-> Abandoned(sessions[s])]
    /\ events' = [n \in Messages |->
           IF Orphaned(events[n]) THEN [events[n] EXCEPT !.result = "IGNORED_ORPHAN"]
           ELSE events[n]]
    /\ UNCHANGED <<replies, tx, clock>>

Tick ==
    /\ clock < MaxClock
    /\ clock' = clock + 1
    /\ UNCHANGED <<sessions, events, replies, tx>>

ProcessEvent(m) ==
    \/ StartSessionEvent(m)
    \/ DeferEvent(m)
    \/ ApplyEvent(m)
    \/ RepeatTurnStart(m)
    \/ LinkManualSession(m)
    \/ CreateTurnSession(m)

Next ==
    \/ \E m \in Messages : BeginEvent(m) \/ ProcessEvent(m)
    \/ \E k \in ApiKeys :
           \/ BeginManualStart(k)
           \/ StartManualSession(k)
           \/ \E s \in Sessions, o \in Outcomes : EndSession(k, s, o)
    \/ Rollback
    \/ RunCleanup
    \/ Tick

(* The recovery job runs on a 30-second interval and time passes; nothing  *)
(* else is certain to happen.                                              *)
Spec == Init /\ [][Next]_vars
FairSpec == Spec /\ WF_vars(RunCleanup) /\ WF_vars(Tick)
=============================================================================
