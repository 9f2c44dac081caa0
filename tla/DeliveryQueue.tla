---------------------------- MODULE DeliveryQueue ----------------------------
(***************************************************************************)
(* The plugin's delivery queue: files that short-lived processes share.    *)
(*                                                                         *)
(* Every event is produced by a process of its own, so an event also names *)
(* the process: a hook (or a round of the heartbeat worker) appends the    *)
(* event to the queue file, a hook then tries once to deliver the head of  *)
(* the queue itself, and each of them finally launches a queue worker,     *)
(* which goes on delivering until it finds the queue empty.  That worker   *)
(* is the same process here, its launcher being over.                      *)
(*                                                                         *)
(* A lock directory serialises the accesses to the files, not the requests *)
(* made between them.  A process makes the directory and reads the files,  *)
(* writes what follows from what it read, and removes the directory,       *)
(* whoever owns it by then.  A process may be killed at any of its steps;  *)
(* the directory it leaves is removed by those who wait for it, and two of *)
(* them may do so one after the other.                                     *)
(***************************************************************************)
EXTENDS Naturals, FiniteSets, Sequences

CONSTANTS
    Events,       \* the events, each with the processes that handle it
    Heartbeats,   \* those that the heartbeat worker produces
    Turn,         \* the turn of each event
    Null,
    MaxItems,     \* 10,000 records
    MaxAttempts,  \* 300 attempts
    Faults,       \* what may go wrong in an instance, some of AllFaults
    MaxMishaps    \* bound on the faults other than timeouts in a behaviour

AllFaults == {"timeout", "refuse", "age", "revoke", "crash"}

ASSUME EventsAssumption ==
    /\ IsFiniteSet(Events)
    /\ Heartbeats \subseteq Events
    /\ DOMAIN Turn = Events
    /\ Null \notin Events

ASSUME LimitsAssumption ==
    /\ MaxItems \in Nat \ {0}
    /\ MaxAttempts \in Nat \ {0}
    /\ MaxMishaps \in Nat
    /\ Faults \subseteq AllFaults

VARIABLES
    queue,    \* the items that readQueue finds in delivery-queue.jsonl
    state,    \* delivery-state.json
    dead,     \* the events in dead-letter.jsonl
    lock,     \* delivery-queue.lock: its creator, or Null
    inside,   \* the processes that made the directory and have not removed it
    breakers, \* those that found a stale directory and are about to remove it
    overlap,  \* history: the directory of a process inside was removed
    owner,    \* delivery-worker.lock: Null, "UNKNOWN" or the pid in owner.json
    pc,       \* where the process of each event is
    job,      \* what it holds in memory
    aged,     \* the events queued more than 48 hours ago
    strays,   \* requests whose sender no longer waits for the answer
    mishaps,  \* the number of faults so far, timeouts aside
    linked,   \* whether the server accepts the token of the device
    stored,   \* the ledger of the server for this device, in order of receipt
    returned  \* the events whose enqueueEvent has returned

vars == <<queue, state, dead, lock, inside, breakers, overlap, owner, pc, job, aged, strays,
          mishaps, linked, stored, returned>>

lockVars == <<lock, inside, breakers, overlap>>
-----------------------------------------------------------------------------
SequenceNumbers == 1..Cardinality(Events)
NoRetry == [attempts |-> 0, waiting |-> FALSE]
FirstState == [next |-> 1, acked |-> 0, retries |-> [n \in SequenceNumbers |-> NoRetry]]
NoJob == [item |-> Null, attempts |-> 0, answer |-> Null, read |-> FirstState, seen |-> {}]

\* A process that launched its queue worker goes on as that worker.
WorkerSteps == {"CLAIMED", "WORKING", "SENDING_W", "ANSWERED_W", "BURIED_W", "LEAVING"}
IsRunning(e) == pc[e] \notin {"IDLE", "OVER", "KILLED", "TORN"}
Torn == {e \in Events : pc[e] = "TORN"}
Killed == {e \in Events : pc[e] = "KILLED"} \cup Torn
-----------------------------------------------------------------------------
(* readQueue and normalizeQueue.                                            *)

\* A line whose sequence number another event owned takes its place.
SetItem(items, item) == {i \in items : i.sequence # item.sequence} \cup {item}

EventsOf(items) == {i.event : i \in items}
Unacked(items, acked) == {i \in items : i.sequence > acked}

\* The order in which a full queue gives its items up.
GivenUpBefore(i, j) ==
    \/ i.event \in Heartbeats /\ j.event \notin Heartbeats
    \/ /\ i.event \in Heartbeats <=> j.event \in Heartbeats
       /\ i.sequence < j.sequence
Overflow(items) ==
    {i \in items : Cardinality({j \in items : GivenUpBefore(j, i)}) + MaxItems
                       < Cardinality(items)}

\* What remains of a queue when what is too old or too much is dead.
Kept(items, acked) ==
    LET fresh == {i \in Unacked(items, acked) : i.event \notin aged}
    IN  fresh \ Overflow(fresh)

\* The items that a process goes on with, from the files as it has read them.
Items(e) == Kept(job[e].seen, job[e].read.acked)
Discarded(e) == EventsOf(Unacked(job[e].seen, job[e].read.acked)) \ EventsOf(Items(e))

\* The file is rewritten only when something was discarded.
Normalized(e) == IF Discarded(e) = {} THEN queue ELSE Items(e)

\* Mutant: the newest item goes first.
NewestFirst(items) == CHOOSE i \in items : \A j \in items : i.sequence >= j.sequence
First(items) == CHOOSE i \in items : \A j \in items : i.sequence <= j.sequence
Last(items) == CHOOSE i \in items : \A j \in items : i.sequence >= j.sequence
-----------------------------------------------------------------------------
Init ==
    /\ queue = {}
    /\ state = FirstState
    /\ dead = {}
    /\ lock = Null
    /\ inside = {}
    /\ breakers = {}
    /\ overlap = FALSE
    /\ owner = Null
    /\ pc = [e \in Events |-> "IDLE"]
    /\ job = [e \in Events |-> NoJob]
    /\ aged = {}
    /\ strays = {}
    /\ mishaps = 0
    /\ linked = TRUE
    /\ stored = << >>
    /\ returned = {}

Mishap(fault) ==
    /\ fault \in Faults
    /\ mishaps < MaxMishaps
    /\ mishaps' = mishaps + 1

Goto(e, step) == pc' = [pc EXCEPT ![e] = step]

\* A hook tries once after its enqueue, a worker until the queue is empty.
InlineAttempt(e) == pc[e] = "QUEUED" /\ e \notin Heartbeats
Attempting(e) == InlineAttempt(e) \/ pc[e] = "WORKING"
IsSending(e) == pc[e] \in {"SENDING", "SENDING_W"}
IsAnswered(e) == pc[e] \in {"ANSWERED", "ANSWERED_W"}
-----------------------------------------------------------------------------
(* acquireLock and the release.                                             *)

TakesLock(e) == pc[e] = "IDLE" \/ Attempting(e) \/ IsAnswered(e)
Waits(e) == TakesLock(e) /\ e \notin inside \cup breakers

\* The directory is made, and the files are read.
Enter(e) ==
    /\ Waits(e)
    /\ lock = Null
    /\ lock' = e
    /\ inside' = inside \cup {e}
    /\ job' = [job EXCEPT ![e].read = state, ![e].seen = queue]
    /\ UNCHANGED <<queue, state, dead, breakers, overlap, owner, pc, aged, strays, mishaps,
                   linked, stored, returned>>

\* The release removes the directory, whoever made it.
Release(e) ==
    /\ e \in inside
    /\ inside' = inside \ {e}
    /\ lock' = Null
    /\ UNCHANGED <<breakers, overlap>>

Stay(e) == e \in inside /\ UNCHANGED lockVars

\* The lock was not to be had in 2 seconds: the error ends the process.
Abandon(e) ==
    /\ \/ pc[e] \in {"IDLE", "ANSWERED"} /\ Goto(e, "OVER")
       \/ InlineAttempt(e) /\ Goto(e, "OVER")
       \/ pc[e] \in {"WORKING", "ANSWERED_W"} /\ Goto(e, "LEAVING")
    /\ job' = [job EXCEPT ![e] = NoJob]

\* Only the lock of a process that was killed is held for so long: a live one
\* holds it for milliseconds.
GiveUpLock(e) ==
    /\ Waits(e)
    /\ lock \in Killed
    /\ Abandon(e)
    /\ UNCHANGED <<queue, state, dead, lockVars, owner, aged, strays, mishaps, linked, stored,
                   returned>>

\* The directory is found older than 30 seconds, ...
SeeStaleLock(e) ==
    /\ Waits(e)
    /\ lock \in Killed
    /\ breakers' = breakers \cup {e}
    /\ UNCHANGED <<queue, state, dead, lock, inside, overlap, owner, pc, job, aged, strays,
                   mishaps, linked, stored, returned>>

\* ... and is removed, by now perhaps that of another process.  The process
\* then tries again, unless its 2 seconds are over.
RemoveLock(e) ==
    /\ e \in breakers
    /\ breakers' = breakers \ {e}
    /\ lock' = Null
    /\ overlap' = (overlap \/ lock \notin Killed \cup {Null})
    /\ Abandon(e) \/ UNCHANGED <<pc, job>>
    /\ UNCHANGED <<queue, state, dead, inside, owner, aged, strays, mishaps, linked, stored,
                   returned>>
-----------------------------------------------------------------------------
(* enqueueEvent                                                            *)

Mergeable(e) ==
    /\ e \in Heartbeats
    /\ Items(e) # {}
    /\ Last(Items(e)).event \in Heartbeats
    /\ Turn[Last(Items(e)).event] = Turn[e]

MergeHeartbeat(e) ==
    /\ pc[e] = "IDLE"
    /\ Release(e)
    /\ Mergeable(e)
    /\ queue' = SetItem(Normalized(e), [Last(Items(e)) EXCEPT !.event = e])
    /\ dead' = dead \cup Discarded(e)
    /\ returned' = returned \cup {e}
    /\ job' = [job EXCEPT ![e] = NoJob]
    /\ Goto(e, "QUEUED")
    /\ UNCHANGED <<state, owner, aged, strays, mishaps, linked, stored>>

AppendItem(e) ==
    /\ pc[e] = "IDLE"
    /\ Stay(e)
    /\ ~Mergeable(e)
    /\ queue' = SetItem(Normalized(e), [event |-> e, sequence |-> job[e].read.next])
    /\ dead' = dead \cup Discarded(e)
    /\ job' = [job EXCEPT ![e].seen = {}]
    /\ Goto(e, "APPENDED")
    /\ UNCHANGED <<state, owner, aged, strays, mishaps, linked, stored, returned>>

SaveNextSequence(e) ==
    /\ pc[e] = "APPENDED"
    /\ Release(e)
    /\ state' = [job[e].read EXCEPT !.next = @ + 1]
    /\ job' = [job EXCEPT ![e] = NoJob]
    /\ returned' = returned \cup {e}
    /\ Goto(e, "QUEUED")
    /\ UNCHANGED <<queue, dead, owner, aged, strays, mishaps, linked, stored>>
-----------------------------------------------------------------------------
(* processNextEvent: under the lock, the head of the queue is chosen; it is *)
(* sent without the lock; under the lock again, the answer is recorded.    *)

AsWorker(e) == pc[e] \in WorkerSteps
SendingAs(e) == IF AsWorker(e) THEN "SENDING_W" ELSE "SENDING"
AnsweredAs(e) == IF AsWorker(e) THEN "ANSWERED_W" ELSE "ANSWERED"
BuriedAs(e) == IF AsWorker(e) THEN "BURIED_W" ELSE "BURIED"
Continue(e) == Goto(e, IF AsWorker(e) THEN "WORKING" ELSE "LAUNCHING")
Stop(e) == Goto(e, IF AsWorker(e) THEN "LEAVING" ELSE "LAUNCHING")

ReadUnderLock(e) ==
    /\ Attempting(e)
    /\ Release(e)
    /\ queue' = Normalized(e)
    /\ dead' = dead \cup Discarded(e)
    /\ UNCHANGED <<state, owner, aged, strays, mishaps, linked, stored, returned>>

FindEmpty(e) ==
    /\ ReadUnderLock(e)
    /\ Items(e) = {}
    /\ job' = [job EXCEPT ![e] = NoJob]
    /\ Stop(e)

\* The worker sleeps until the time of the next attempt.
FindWaiting(e) ==
    /\ ReadUnderLock(e)
    /\ Items(e) # {}
    /\ job[e].read.retries[First(Items(e)).sequence].waiting
    /\ job' = [job EXCEPT ![e] = NoJob]
    /\ Continue(e)

Prepare(e) ==
    /\ ReadUnderLock(e)
    /\ Items(e) # {}
    /\ LET item == First(Items(e))
           retry == job[e].read.retries[item.sequence]
       IN  /\ ~retry.waiting
           /\ job' = [job EXCEPT ![e] =
                  [NoJob EXCEPT !.item = item, !.attempts = retry.attempts]]
    /\ Goto(e, SendingAs(e))

Answer(e, answer) ==
    /\ IsSending(e)
    /\ job' = [job EXCEPT ![e].answer = answer]
    /\ Goto(e, AnsweredAs(e))
    /\ UNCHANGED <<queue, state, dead, lockVars, owner, aged, linked, returned>>

\* processIntegrationEvent: a known event is answered from the ledger, a known
\* sequence number with another event is a conflict.
Known(item) == \E i \in 1..Len(stored) : stored[i].event = item.event
Conflict(item) ==
    \E i \in 1..Len(stored) : /\ stored[i].sequence = item.sequence
                              /\ stored[i].event # item.event
LedgerAfter(item) == IF Known(item) \/ Conflict(item) THEN stored ELSE Append(stored, item)

ServerAnswers(e) ==
    /\ linked
    /\ Answer(e, IF ~Known(job[e].item) /\ Conflict(job[e].item) THEN "REFUSED" ELSE "OK")
    /\ stored' = LedgerAfter(job[e].item)
    /\ UNCHANGED <<strays, mishaps>>

\* Another 4xx, such as the limit of events per turn.
ServerRefuses(e) ==
    /\ Mishap("refuse")
    /\ linked
    /\ Answer(e, "REFUSED")
    /\ UNCHANGED <<strays, stored>>

\* 401 or 403: the device was disconnected, or its token replaced.
ServerDenies(e) ==
    /\ ~linked
    /\ Answer(e, "DENIED")
    /\ UNCHANGED <<strays, mishaps, stored>>

\* No answer in 3 seconds, or 408, 429, 5xx: the request may yet be served.
NoAnswer(e) ==
    /\ "timeout" \in Faults
    /\ Answer(e, "RETRY")
    /\ strays' = strays \cup {job[e].item}
    /\ UNCHANGED <<mishaps, stored>>

StrayArrives(item) ==
    /\ stored' = IF linked THEN LedgerAfter(item) ELSE stored
    /\ strays' = strays \ {item}
    /\ UNCHANGED <<queue, state, dead, lockVars, owner, pc, job, aged, mishaps, linked, returned>>

Settling(e) ==
    /\ IsAnswered(e)
    /\ e \in inside
    /\ UNCHANGED <<owner, aged, strays, mishaps, linked, stored, returned>>
\* Mutant: the checkpoint is not read again after the request.
SettledUnchecked(e) == FALSE
SettledBefore(e) == job[e].read.acked >= job[e].item.sequence
Exhausted(e) == job[e].attempts + 1 >= MaxAttempts

\* Another process has settled this item in the meantime.
FindSettled(e) ==
    /\ Settling(e)
    /\ Release(e)
    /\ SettledBefore(e)
    /\ job' = [job EXCEPT ![e] = NoJob]
    /\ Continue(e)
    /\ UNCHANGED <<queue, state, dead>>

\* Mutant: an acknowledgement covers all that is queued.
AcknowledgedAll(read, n) == [read EXCEPT !.acked = read.next - 1, !.retries[n] = NoRetry]
Acknowledged(read, n) == [read EXCEPT !.acked = n, !.retries[n] = NoRetry]

Acknowledge(e) ==
    /\ Settling(e)
    /\ Release(e)
    /\ ~SettledBefore(e)
    /\ job[e].answer = "OK"
    /\ LET n == job[e].item.sequence
           remaining == {i \in job[e].seen : i.sequence > n}
       IN  /\ state' = Acknowledged(job[e].read, n)
           /\ queue' = IF remaining = {} THEN {} ELSE queue
    /\ job' = [job EXCEPT ![e] = NoJob]
    /\ Continue(e)
    /\ UNCHANGED dead

BlockOnAuth(e) ==
    /\ Settling(e)
    /\ Release(e)
    /\ ~SettledBefore(e)
    /\ job[e].answer = "DENIED"
    /\ job' = [job EXCEPT ![e] = NoJob]
    /\ Stop(e)
    /\ UNCHANGED <<queue, state, dead>>

\* The attempt is counted, and the next one set for later.
CountAttempt(e) ==
    /\ Settling(e)
    /\ Release(e)
    /\ ~SettledBefore(e)
    /\ job[e].answer = "RETRY"
    /\ ~Exhausted(e)
    /\ state' = [job[e].read EXCEPT !.retries[job[e].item.sequence] =
                     [attempts |-> job[e].attempts + 1, waiting |-> TRUE]]
    /\ job' = [job EXCEPT ![e] = NoJob]
    /\ UNCHANGED <<queue, dead>>

\* Mutant: the worker ends instead of waiting for the next attempt.
ScheduleRetryAndStop(e) == CountAttempt(e) /\ Stop(e)
ScheduleRetry(e) == CountAttempt(e) /\ Continue(e)

\* Given up: first the dead letter, then the acknowledgement.
AppendDeadLetter(e) ==
    /\ Settling(e)
    /\ Stay(e)
    /\ ~SettledBefore(e)
    /\ \/ job[e].answer = "REFUSED"
       \/ job[e].answer = "RETRY" /\ Exhausted(e)
    /\ dead' = dead \cup {job[e].item.event}
    /\ job' = [job EXCEPT ![e].seen = {}]
    /\ Goto(e, BuriedAs(e))
    /\ UNCHANGED <<queue, state>>

\* Mutant: the lock is not released on this path.
SaveDeadLetterLocked(e) ==
    /\ pc[e] \in {"BURIED", "BURIED_W"}
    /\ state' = Acknowledged(job[e].read, job[e].item.sequence)
    /\ inside' = inside \ {e}
    /\ job' = [job EXCEPT ![e] = NoJob]
    /\ Continue(e)
    /\ UNCHANGED <<queue, dead, lock, breakers, overlap, owner, aged, strays, mishaps, linked,
                   stored, returned>>

SaveDeadLetter(e) ==
    /\ pc[e] \in {"BURIED", "BURIED_W"}
    /\ Release(e)
    /\ state' = Acknowledged(job[e].read, job[e].item.sequence)
    /\ job' = [job EXCEPT ![e] = NoJob]
    /\ Continue(e)
    /\ UNCHANGED <<queue, dead, owner, aged, strays, mishaps, linked, stored, returned>>
-----------------------------------------------------------------------------
(* The queue worker and its process lock.                                   *)

OwnerAlive == owner \in Events /\ IsRunning(owner)
LaunchStep(e) ==
    /\ pc[e] \in {"LAUNCHING", "STALE", "REMOVED"} \/ (pc[e] = "QUEUED" /\ e \in Heartbeats)
    /\ UNCHANGED <<queue, state, dead, lockVars, job, aged, strays, mishaps, linked, stored, returned>>

\* acquireProcessLock: mkdir, and the owner.json of the directory that is there.
LaunchWorker(e) ==
    /\ LaunchStep(e)
    /\ pc[e] \notin {"STALE", "REMOVED"}
    /\ Goto(e, IF owner = Null THEN "CLAIMED" ELSE IF OwnerAlive THEN "OVER" ELSE "STALE")
    /\ owner' = IF owner = Null THEN "UNKNOWN" ELSE owner

\* The directory of a process that is gone, or that has not yet written its
\* owner.json, is removed, whoever owns it by now.
RemoveStale(e) ==
    /\ LaunchStep(e)
    /\ pc[e] = "STALE"
    /\ Goto(e, "REMOVED")
    /\ owner' = Null

\* The second mkdir fails when another process came first.
RemakeDirectory(e) ==
    /\ LaunchStep(e)
    /\ pc[e] = "REMOVED"
    /\ Goto(e, IF owner = Null THEN "CLAIMED" ELSE "OVER")
    /\ owner' = IF owner = Null THEN "UNKNOWN" ELSE owner

\* Without the directory, which a worker removes on leaving, the write fails.
WriteOwner(e) ==
    /\ pc[e] = "CLAIMED"
    /\ IF owner = Null
       THEN Goto(e, "OVER") /\ UNCHANGED owner
       ELSE Goto(e, "WORKING") /\ owner' = e
    /\ UNCHANGED <<queue, state, dead, lockVars, job, aged, strays, mishaps, linked, stored, returned>>

LeaveWorker(e) ==
    /\ pc[e] = "LEAVING"
    /\ owner' = Null
    /\ Goto(e, "OVER")
    /\ UNCHANGED <<queue, state, dead, lockVars, job, aged, strays, mishaps, linked, stored, returned>>
-----------------------------------------------------------------------------
(* What else may happen.                                                    *)

WaitOver(n) ==
    /\ state.retries[n].waiting
    /\ state' = [state EXCEPT !.retries[n].waiting = FALSE]
    /\ UNCHANGED <<queue, dead, lockVars, owner, pc, job, aged, strays, mishaps, linked, stored,
                   returned>>

Age(e) ==
    /\ Mishap("age")
    /\ e \in EventsOf(queue) \ aged
    /\ aged' = aged \cup {e}
    /\ UNCHANGED <<queue, state, dead, lockVars, owner, pc, job, strays, linked, stored, returned>>

Revoke ==
    /\ linked
    /\ Mishap("revoke")
    /\ linked' = FALSE
    /\ UNCHANGED <<queue, state, dead, lockVars, owner, pc, job, aged, strays, stored, returned>>

\* Codex kills a hook after 5 seconds, a user or a reboot any process; a
\* request that was under way may still be served, and the lock stays behind.
Kill(e) ==
    /\ Mishap("crash")
    /\ IsRunning(e) \/ e \in inside \cup breakers
    /\ Goto(e, IF pc[e] = "APPENDED" THEN "TORN" ELSE "KILLED")
    /\ strays' = IF IsSending(e) THEN strays \cup {job[e].item} ELSE strays
    /\ job' = [job EXCEPT ![e] = NoJob]
    /\ inside' = inside \ {e}
    /\ breakers' = breakers \ {e}
    /\ UNCHANGED <<queue, state, dead, lock, overlap, owner, aged, linked, stored, returned>>

Enqueue(e) == MergeHeartbeat(e) \/ AppendItem(e) \/ SaveNextSequence(e)

Deliver(e) ==
    \/ FindEmpty(e) \/ FindWaiting(e) \/ Prepare(e)
    \/ ServerAnswers(e) \/ ServerRefuses(e) \/ ServerDenies(e) \/ NoAnswer(e)
    \/ FindSettled(e) \/ Acknowledge(e) \/ BlockOnAuth(e) \/ ScheduleRetry(e)
    \/ AppendDeadLetter(e) \/ SaveDeadLetter(e)
    \/ LaunchWorker(e) \/ RemoveStale(e) \/ RemakeDirectory(e) \/ WriteOwner(e) \/ LeaveWorker(e)

Next ==
    \/ \E e \in Events :
           \/ Enter(e) \/ GiveUpLock(e) \/ SeeStaleLock(e) \/ RemoveLock(e)
           \/ Enqueue(e)
           \/ Deliver(e)
           \/ Age(e) \/ Kill(e)
    \/ \E item \in strays : StrayArrives(item)
    \/ \E n \in SequenceNumbers : WaitOver(n)
    \/ Revoke

Spec == Init /\ [][Next]_vars

(* The operating system runs the processes that are alive, and waits end.   *)
EnterAgain(e) == pc[e] # "IDLE" /\ Enter(e)
Run(e) == EnterAgain(e) \/ Enqueue(e) \/ Deliver(e)

FairSpec ==
    /\ Spec
    /\ \A e \in Events : WF_vars(Run(e))
    /\ \A n \in SequenceNumbers : WF_vars(WaitOver(n))
=============================================================================
