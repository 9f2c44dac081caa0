--------------------------- MODULE AiSessionsProps ---------------------------
(* The properties of AiSessions that its runs check and its proofs prove.   *)
EXTENDS AiSessions

Row == [status : ActiveStatuses \cup EndStatuses \cup {"NONE"},
        origin : {"HOOK", "MANUAL", Null},
        key : SessionKeys \cup {Null},
        turn : TurnKeys \cup {Null},
        startedAt : Nat,
        endedAt : Nat \cup {Null},
        lastActivityAt : Nat,
        reason : TerminalReasons \cup {Null},
        timing : {"EXACT", "DEGRADED"}]

Results == {"APPLIED", "DUPLICATE", "DEFERRED", "IGNORED_TERMINAL", "IGNORED_ORPHAN"}

EventRow == [result : Results \cup {"NEW"}, session : Sessions \cup {Null},
             receivedAt : Nat]
Reply == [op : {"START", "END", Null}, session : Sessions \cup {Null}, created : BOOLEAN]

\* Every variable keeps its type.
TypeOK ==
    /\ sessions \in [Sessions -> Row]
    /\ events \in [Messages -> EventRow]
    /\ replies \in [ApiKeys -> Reply]
    /\ tx \in [holder : Messages \cup ApiKeys \cup {Null}, at : Nat]
    /\ clock \in Nat
-----------------------------------------------------------------------------
ReasonOf(status) ==
    CASE status = "COMPLETED" -> {"HOOK_STOP", "MANUAL_COMPLETED", "RECOVERED_LATE_STOP"}
      [] status = "FAILED"    -> {"MANUAL_FAILED"}
      [] status = "ABANDONED" -> {"MANUAL_CANCELLED", "HEARTBEAT_TIMEOUT",
                                  "MANUAL_TIMEOUT", "SUPERSEDED_BY_NEW_TURN"}
      [] OTHER                -> {Null}

RowConstraints(row) ==
    /\ row.reason \in ReasonOf(row.status)
    /\ row.endedAt = Null <=> row.status \notin EndStatuses
    /\ row.endedAt # Null => row.endedAt >= row.startedAt
    /\ row.lastActivityAt >= row.startedAt

OneActiveManual == \A r, s \in ActiveManual : r = s
OneActivePerKey ==
    \A r, s \in Sessions :
        /\ IsActive(sessions[r]) /\ IsActive(sessions[s])
        /\ sessions[r].key # Null /\ sessions[r].key = sessions[s].key
        => r = s
OneSessionPerTurn ==
    \A r, s \in Sessions :
        sessions[r].turn # Null /\ sessions[r].turn = sessions[s].turn => r = s

\* No sequence of calls makes a handler write rows that a CHECK or a UNIQUE
\* index of ai_sessions refuses (the caller would get a 500 and the plugin
\* would retry the event for a day): the handlers' own lookups keep one active
\* session per Codex session, one active manual session and one row per turn,
\* although manual start, turn start and the recovery job share no lock.
SchemaHolds ==
    /\ \A s \in Sessions : RowConstraints(sessions[s])
    /\ OneActiveManual
    /\ OneActivePerKey
    /\ OneSessionPerTurn

\* Once a turn has a session, no event of the turn is left waiting for the
\* start: reprocessDeferredEvents settles each of them with the start itself,
\* and a later event never takes the deferred path.
NothingDeferredAfterStart ==
    \A n \in Messages : events[n].result = "DEFERRED" => OfTurn(n.turn) = {}

\* Exactly one Stop is ever applied to a session, and it is what completed it:
\* duplicated stops, stops of two devices, deferred stops and late stops never
\* complete a turn twice, nor complete one without a stop.
AppliedStops(s) == {n \in Messages : /\ n.event = "Stop"
                                     /\ events[n].result = "APPLIED"
                                     /\ events[n].session = s}
OneStopCompletes ==
    \A s \in Sessions :
        /\ \A m, n \in AppliedStops(s) : m = n
        /\ AppliedStops(s) # {} <=>
               sessions[s].reason \in {"HOOK_STOP", "RECOVERED_LATE_STOP"}

\* However late the recovery job runs, and whether or not a late Stop corrects
\* the outcome afterwards, an abandoned automatic session ended exactly one
\* timeout after its last activity and an abandoned manual one exactly one
\* timeout after its start, and its timing is marked as degraded.
AbandonedAtDeadline ==
    \A s \in Sessions :
        LET row == sessions[s]
        IN  /\ row.reason \in {"HEARTBEAT_TIMEOUT", "RECOVERED_LATE_STOP"} =>
                   /\ row.endedAt = row.lastActivityAt + HeartbeatTimeout
                   /\ row.timing = "DEGRADED"
            /\ row.reason = "MANUAL_TIMEOUT" =>
                   /\ row.endedAt = row.startedAt + ManualTimeout
                   /\ row.timing = "DEGRADED"
                   /\ row.turn = Null

\* A ledger row that points at a session points at the session of its own turn,
\* and only rows of a turn that was seen point at one.
LedgerMatchesSession ==
    \A n \in Messages :
        /\ events[n].session # Null =>
               /\ n.turn # Null
               /\ sessions[events[n].session].turn = n.turn
        /\ n.event # "SessionStart"
               /\ events[n].result \in {"APPLIED", "DUPLICATE", "IGNORED_TERMINAL"}
               => events[n].session # Null

\* Idempotent manual start: every manual row was created for exactly one
\* Idempotency-Key; retries and concurrent starts return that row.
ManualRowPerKey ==
    \A s \in Sessions :
        LET creators == {k \in ApiKeys : replies[k].created /\ replies[k].session = s}
        IN  /\ \A j, k \in creators : j = k
            /\ creators # {} <=> sessions[s].origin = "MANUAL"

\* Nothing hangs: an automatic session without activity for the timeout,
\* whether running or waiting for the user, is abandoned or becomes active
\* again, and a deferred event older than its time to live is settled.
Idle(row) == /\ IsActive(row) /\ row.turn # Null
             /\ row.lastActivityAt + HeartbeatTimeout <= clock
SilentSessionsEnd ==
    /\ \A s \in Sessions : Idle(sessions[s]) ~> ~Idle(sessions[s])
    /\ \A n \in Messages :
           (events[n].result = "DEFERRED" /\ events[n].receivedAt + DeferredTtl <= clock)
               ~> events[n].result # "DEFERRED"

\* The session core implements the lifecycle that readers rely on: phases by
\* status, with the heartbeat timeout as the one ending a late Stop may revise.
PhaseOf(row) ==
    IF row.status = "NONE" THEN "absent"
    ELSE IF IsActive(row) THEN "open"
    ELSE IF row.reason = "HEARTBEAT_TIMEOUT" THEN "lapsed"
    ELSE "closed"
Lifecycle == INSTANCE SessionLifecycle WITH
    phase <- [s \in Sessions |-> PhaseOf(sessions[s])],
    startedAt <- [s \in Sessions |-> sessions[s].startedAt],
    endedAt <- [s \in Sessions |-> sessions[s].endedAt]
LifecycleSpec == Lifecycle!Spec
=============================================================================
