----------------------------- MODULE TurnState -----------------------------
(***************************************************************************)
(* active-turn.json and the heartbeat workers of the plugin.  Hooks of     *)
(* Codex windows write the file, refresh it and remove it; a worker reads  *)
(* it in a loop, puts a heartbeat in the queue when one is due and writes  *)
(* the time back.  Nobody locks the file: each change is a read and a      *)
(* later rename or removal.  Workers keep one another out with a lock      *)
(* directory whose owner is written after it is made.                      *)
(*                                                                         *)
(* A window runs one hook at a time and one turn at a time; Codex kills a  *)
(* hook that takes too long.  Process ids are not used twice.  What the    *)
(* queue does with an event is DeliveryQueue's subject.                    *)
(***************************************************************************)
EXTENDS Naturals

CONSTANTS
    Windows,    \* Codex processes
    KnownHosts, \* the windows whose hooks are told AISIDEQUEST_HOST_PID
    Turns,
    Workers,    \* heartbeat-worker.mjs processes at one time
    Null,
    Interval,   \* HEARTBEAT_INTERVAL_MS, 30 seconds
    Lease,      \* HEARTBEAT_FALLBACK_LEASE_MS, 120 seconds
    MaxTurn,    \* HEARTBEAT_MAX_TURN_MS, 12 hours
    LastHook,   \* bound: no hook starts later
    MaxHooks,   \* bound on hooks
    MaxKills,   \* bound on killed hooks and workers
    MaxClock    \* bound on the model's clock

ASSUME TurnAssumption ==
    /\ KnownHosts \subseteq Windows
    /\ {Interval, Lease, MaxTurn} \subseteq Nat \ {0}
    /\ {LastHook, MaxHooks, MaxKills, MaxClock} \subseteq Nat
    /\ Null \notin Windows \cup Turns \cup Workers \cup Nat

VARIABLES
    file,      \* active-turn.json
    lock,      \* heartbeat-worker.lock: whether it exists, and owner.json
    hooks,     \* the hook process of each window
    workers,
    turns,     \* what the hooks put in the queue about each turn
    beats,     \* observedAt of the last Heartbeat put in the queue, by turn
    diedAt,    \* when a window ended, Null while it runs; 0 if nobody can tell
    clock,
    left       \* the hooks and kills that the bounds still allow

vars == <<file, lock, hooks, workers, turns, beats, diedAt, clock, left>>
-----------------------------------------------------------------------------
NoTurn == [window |-> Null, startedAt |-> 0, lastHookAt |-> 0, stopped |-> FALSE]
NoHook == [step |-> "IDLE", turn |-> Null, read |-> Null]
NoWorker == [step |-> "OFF", turn |-> Null, now |-> 0]
NoLock == [made |-> FALSE, owner |-> Null]
Dead == "DEAD"  \* owner.json names a process that is gone

Running(t) == turns[t].window # Null /\ ~turns[t].stopped

HostOf(w) == IF w \in KnownHosts THEN w ELSE Null

\* The state activateTurn writes.
Activated(t, w) ==
    [turn |-> t, host |-> HostOf(w), activatedAt |-> clock, hookAt |-> clock, beatAt |-> clock]

\* Mutant: refreshing a turn starts it again.
RefreshedAnew(state, w) == Activated(state.turn, w)

Refreshed(state, w) ==
    [state EXCEPT !.host = IF HostOf(w) # Null THEN HostOf(w) ELSE state.host, !.hookAt = clock]

\* Mutant: a heartbeat counts as a hook and extends the lease.
MarkedAsHook(state, now) == [state EXCEPT !.beatAt = now, !.hookAt = now]

Marked(state, now) == [state EXCEPT !.beatAt = now]

\* Mutant: a turn ends only with its Stop.
AliveForever(state) == TRUE

\* isTurnAlive
IsTurnAlive(state) ==
    /\ clock - state.activatedAt < MaxTurn
    /\ IF state.host = Null THEN clock - state.hookAt < Lease ELSE diedAt[state.host] = Null

\* readActiveTurn finds the state of this turn.
IsCurrent(t) == file # Null /\ file.turn = t

Init ==
    /\ file = Null
    /\ lock = NoLock
    /\ hooks = [w \in Windows |-> NoHook]
    /\ workers = [p \in Workers |-> NoWorker]
    /\ turns = [t \in Turns |-> NoTurn]
    /\ beats = [t \in Turns |-> Null]
    /\ diedAt = [w \in Windows |-> Null]
    /\ clock = 0
    /\ left = [hooks |-> MaxHooks, kills |-> MaxKills]
-----------------------------------------------------------------------------
(* record-event.mjs: the event goes to the queue, then the turn state, then *)
(* the workers are launched.                                               *)

HookAt(w, step) == hooks[w].step = step
HookGoes(w, step, read) == hooks' = [hooks EXCEPT ![w].step = step, ![w].read = read]

CanHook(w) ==
    /\ HookAt(w, "IDLE") /\ diedAt[w] = Null
    /\ clock <= LastHook /\ left.hooks > 0

StartHook(w, t, step) ==
    /\ hooks' = [hooks EXCEPT ![w] = [step |-> step, turn |-> t, read |-> Null]]
    /\ left' = [left EXCEPT !.hooks = @ - 1]

Prompt(w, t) ==
    /\ CanHook(w)
    /\ turns[t].window = Null
    /\ \A u \in Turns : turns[u].window = w => turns[u].stopped
    /\ turns' = [turns EXCEPT ![t] = [window |-> w, startedAt |-> clock,
                                      lastHookAt |-> clock, stopped |-> FALSE]]
    /\ StartHook(w, t, "ACTIVATE")
    /\ UNCHANGED <<file, lock, workers, beats, diedAt, clock>>

\* PreToolUse, PermissionRequest and PostToolUse.
UseTool(w, t) ==
    /\ CanHook(w)
    /\ Running(t) /\ turns[t].window = w
    /\ StartHook(w, t, "REFRESH")
    /\ UNCHANGED <<file, lock, workers, turns, beats, diedAt, clock>>

Stop(w, t) ==
    /\ CanHook(w)
    /\ Running(t) /\ turns[t].window = w
    /\ turns' = [turns EXCEPT ![t].stopped = TRUE]
    /\ StartHook(w, t, "DEACTIVATE")
    /\ UNCHANGED <<file, lock, workers, beats, diedAt, clock>>

\* SessionStart touches no turn.
StartSession(w) ==
    /\ CanHook(w)
    /\ StartHook(w, Null, "LAUNCH")
    /\ UNCHANGED <<file, lock, workers, turns, beats, diedAt, clock>>

ActivateTurn(w) ==
    LET t == hooks[w].turn IN
    /\ HookAt(w, "ACTIVATE")
    /\ file' = Activated(t, w)
    /\ turns' = [turns EXCEPT ![t].startedAt = clock, ![t].lastHookAt = clock]
    /\ HookGoes(w, "LAUNCH", Null)
    /\ UNCHANGED <<lock, workers, beats, diedAt, clock, left>>

RefreshTurn(w) ==
    LET t == hooks[w].turn IN
    \/ /\ HookAt(w, "REFRESH")
       /\ IF IsCurrent(t) THEN HookGoes(w, "REWRITE", Refreshed(file, w))
                          ELSE HookGoes(w, "LAUNCH", Null)
       /\ turns' = [turns EXCEPT ![t].lastHookAt = clock]
       /\ UNCHANGED file
    \/ /\ HookAt(w, "REWRITE")
       /\ file' = hooks[w].read
       /\ HookGoes(w, "LAUNCH", Null)
       /\ UNCHANGED turns

DeactivateTurn(w) ==
    /\ \/ /\ HookAt(w, "DEACTIVATE")
          /\ HookGoes(w, IF IsCurrent(hooks[w].turn) THEN "DELETE" ELSE "LAUNCH", Null)
          /\ UNCHANGED file
       \/ /\ HookAt(w, "DELETE")
          /\ file' = Null
          /\ HookGoes(w, "LAUNCH", Null)
    /\ UNCHANGED turns

\* Workers bounds the processes: one launched beside all of them is left out.
LaunchHeartbeatWorker(w) ==
    LET off == {p \in Workers : workers[p].step = "OFF"} IN
    /\ HookAt(w, "LAUNCH")
    /\ workers' = IF off = {} THEN workers
                  ELSE [workers EXCEPT ![CHOOSE p \in off : TRUE].step = "MAKE_LOCK"]
    /\ hooks' = [hooks EXCEPT ![w] = NoHook]
    /\ UNCHANGED <<file, lock, turns, beats, diedAt, clock, left>>

HookStep(w) ==
    \/ ActivateTurn(w)
    \/ (RefreshTurn(w) \/ DeactivateTurn(w)) /\ UNCHANGED <<lock, workers, beats, diedAt, clock, left>>
    \/ LaunchHeartbeatWorker(w)

\* Codex kills the hook after 5 seconds, or its delivery attempt throws.
EndHookEarly(w) ==
    /\ ~HookAt(w, "IDLE") /\ left.kills > 0
    /\ hooks' = [hooks EXCEPT ![w] = NoHook]
    /\ left' = [left EXCEPT !.kills = @ - 1]
    /\ UNCHANGED <<file, lock, workers, turns, beats, diedAt, clock>>
-----------------------------------------------------------------------------
(* heartbeat-worker.mjs                                                    *)

At(p, step) == workers[p].step = step
Goes(p, step) == workers' = [workers EXCEPT ![p].step = step]
Exit(p) == workers' = [workers EXCEPT ![p] = NoWorker]

\* acquireProcessLock: mkdir, or read the owner, remove the directory of a dead
\* one and make it again, then write the owner.  A failing call ends the worker.
AcquireProcessLock(p) ==
    /\ \/ /\ At(p, "MAKE_LOCK")
          /\ IF lock.made THEN Goes(p, "READ_OWNER") /\ UNCHANGED lock
             ELSE Goes(p, "WRITE_OWNER") /\ lock' = [made |-> TRUE, owner |-> Null]
       \/ /\ At(p, "READ_OWNER")
          /\ IF lock.owner \in Workers THEN Exit(p) ELSE Goes(p, "BREAK_LOCK")
          /\ UNCHANGED lock
       \/ /\ At(p, "BREAK_LOCK")
          /\ lock' = NoLock
          /\ Goes(p, "REMAKE_LOCK")
       \/ /\ At(p, "REMAKE_LOCK")
          /\ IF lock.made THEN Exit(p) /\ UNCHANGED lock
             ELSE Goes(p, "WRITE_OWNER") /\ lock' = [made |-> TRUE, owner |-> Null]
       \/ /\ At(p, "WRITE_OWNER")
          /\ IF lock.made THEN Goes(p, "LOOP") /\ lock' = [lock EXCEPT !.owner = p]
             ELSE Exit(p) /\ UNCHANGED lock
    /\ UNCHANGED <<file, beats>>

Due(state) == clock - state.beatAt >= Interval

\* One turn of the loop; without a turn the worker leaves, and a turn that is
\* alive and has no heartbeat due changes nothing.
ReadTurn(p) ==
    /\ At(p, "LOOP")
    /\ IF file = Null THEN Goes(p, "RELEASE")
       ELSE /\ ~IsTurnAlive(file) \/ Due(file)
            /\ workers' = [workers EXCEPT ![p] =
                   [step |-> IF IsTurnAlive(file) THEN "BEAT" ELSE "REMOVE",
                    turn |-> file.turn, now |-> clock]]
    /\ UNCHANGED <<file, lock, beats>>

\* removeTurnIfCurrent
RemoveTurn(p) ==
    /\ \/ /\ At(p, "REMOVE")
          /\ Goes(p, IF IsCurrent(workers[p].turn) THEN "DELETE" ELSE "RELEASE")
          /\ UNCHANGED file
       \/ /\ At(p, "DELETE")
          /\ file' = Null
          /\ Goes(p, "RELEASE")
    /\ UNCHANGED <<lock, beats>>

EnqueueHeartbeat(p) ==
    /\ At(p, "BEAT")
    /\ beats' = [beats EXCEPT ![workers[p].turn] = workers[p].now]
    /\ Goes(p, "MARK")
    /\ UNCHANGED <<file, lock>>

\* markHeartbeat: what is written is what was read, with the time of the beat.
MarkHeartbeat(p) ==
    /\ \/ /\ At(p, "MARK")
          /\ IF IsCurrent(workers[p].turn)
             THEN workers' = [workers EXCEPT ![p].step = "WRITE",
                                             ![p].turn = Marked(file, workers[p].now)]
             ELSE Goes(p, "LOOP")
          /\ UNCHANGED file
       \/ /\ At(p, "WRITE")
          /\ file' = workers[p].turn
          /\ workers' = [workers EXCEPT ![p] = [NoWorker EXCEPT !.step = "LOOP"]]
    /\ UNCHANGED <<lock, beats>>

\* The release removes the directory, whoever made it.
ReleaseLock(p) ==
    /\ At(p, "RELEASE")
    /\ lock' = NoLock
    /\ Exit(p)
    /\ UNCHANGED <<file, beats>>

WorkerStep(p) ==
    /\ AcquireProcessLock(p) \/ ReadTurn(p) \/ RemoveTurn(p) \/ EnqueueHeartbeat(p)
          \/ MarkHeartbeat(p) \/ ReleaseLock(p)
    /\ UNCHANGED <<hooks, turns, diedAt, clock, left>>

KillWorker(p) ==
    /\ ~At(p, "OFF") /\ left.kills > 0
    /\ Exit(p)
    /\ lock' = IF lock.owner = p THEN [lock EXCEPT !.owner = Dead] ELSE lock
    /\ left' = [left EXCEPT !.kills = @ - 1]
    /\ UNCHANGED <<file, hooks, turns, beats, diedAt, clock>>

\* The window is closed; a hook it started may go on.
CloseWindow(w) ==
    /\ diedAt[w] = Null
    /\ diedAt' = [diedAt EXCEPT ![w] = IF w \in KnownHosts THEN clock ELSE 0]
    /\ UNCHANGED <<file, lock, hooks, workers, turns, beats, clock, left>>

\* A hook does not outlive its 5 seconds by a unit of the clock, 30 seconds.
Tick ==
    /\ clock < MaxClock
    /\ clock >= LastHook => \A w \in Windows : HookAt(w, "IDLE")
    /\ clock' = clock + 1
    /\ UNCHANGED <<file, lock, hooks, workers, turns, beats, diedAt, left>>

Next ==
    \/ \E w \in Windows, t \in Turns : Prompt(w, t) \/ UseTool(w, t) \/ Stop(w, t)
    \/ \E w \in Windows : StartSession(w) \/ HookStep(w) \/ EndHookEarly(w) \/ CloseWindow(w)
    \/ \E p \in Workers : WorkerStep(p) \/ KillWorker(p)
    \/ Tick

Spec == Init /\ [][Next]_vars

\* Time goes on, and a worker or a hook that is not killed runs.
FairSpec ==
    /\ Spec
    /\ WF_vars(Tick)
    /\ \A p \in Workers : WF_vars(WorkerStep(p))
    /\ \A w \in Windows : WF_vars(HookStep(w))
=============================================================================
