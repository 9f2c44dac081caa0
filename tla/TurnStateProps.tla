--------------------------- MODULE TurnStateProps ---------------------------
(* The properties of TurnState.                                             *)
EXTENDS TurnState

WorkerSteps == {"OFF", "MAKE_LOCK", "READ_OWNER", "BREAK_LOCK", "REMAKE_LOCK", "WRITE_OWNER",
                "LOOP", "BEAT", "MARK", "WRITE", "REMOVE", "DELETE", "RELEASE"}

\* Every variable keeps its type.  The file is about a turn whose start is in
\* the queue and says when it was activated, however old the copy is that was
\* written last; only a hook of its own turn moves lastHookAt.
TypeOK ==
    /\ file # Null =>
           /\ file.turn \in Turns /\ file.host \in KnownHosts \cup {Null}
           /\ turns[file.turn].window # Null
           /\ file.activatedAt = turns[file.turn].startedAt
           /\ file.hookAt \in file.activatedAt .. turns[file.turn].lastHookAt
           /\ file.beatAt \in file.activatedAt .. clock
    /\ lock.made \in BOOLEAN /\ lock.owner \in Workers \cup {Null, Dead}
    /\ \A w \in Windows : hooks[w].turn \in Turns \cup {Null}
    /\ \A p \in Workers : workers[p].step \in WorkerSteps
    /\ beats \in [Turns -> Nat \cup {Null}]
    /\ diedAt \in [Windows -> Nat \cup {Null}]

\* No heartbeat is dated after the Codex process of its turn ended, later than
\* the lease after the last real hook where that process is unknown, or 12
\* hours after the turn began (SESSION_STATE_AND_DATA_FLOW.md:161-163), although
\* stale copies of the file are written back, and by two workers at once.
BeatsBounded ==
    \A t \in Turns : beats[t] # Null =>
        /\ beats[t] - turns[t].startedAt < MaxTurn
        /\ IF turns[t].window \in KnownHosts
           THEN diedAt[turns[t].window] # Null => beats[t] <= diedAt[turns[t].window]
           ELSE beats[t] - turns[t].lastHookAt < Lease

\* When every Codex process is gone the workers end, whatever file and locks
\* the hooks, killed workers and stale writes have left.
WorkersEnd ==
    (\A w \in Windows : diedAt[w] # Null) ~> (\A p \in Workers : At(p, "OFF"))
=============================================================================
