------------------------- MODULE DeliveryQueueProps -------------------------
(***************************************************************************)
(* What the delivery queue promises.                                       *)
(***************************************************************************)
EXTENDS DeliveryQueue

Lifecycle == Events \ Heartbeats
StoredEvents == {stored[i].event : i \in 1..Len(stored)}
IsQueued(e) == e \in EventsOf(Unacked(queue, state.acked))

Item == [event : Events, sequence : SequenceNumbers]
Retry == [attempts : 0..MaxAttempts, waiting : BOOLEAN]
DeliveryState ==
    [next : SequenceNumbers \cup {Cardinality(Events) + 1},
     acked : SequenceNumbers \cup {0},
     retries : [SequenceNumbers -> Retry]]
Job == [item : Item \cup {Null}, attempts : 0..MaxAttempts,
        answer : {Null, "OK", "REFUSED", "DENIED", "RETRY"}, read : DeliveryState,
        seen : SUBSET Item]
Steps == {"IDLE", "APPENDED", "QUEUED", "SENDING", "ANSWERED", "BURIED", "LAUNCHING",
          "STALE", "REMOVED", "OVER", "KILLED", "TORN"} \cup WorkerSteps

\* A number belongs to one event (setItem); and unless a waiting process removed
\* the directory of another that was inside, the directory is that of the only
\* process inside, or of one that was killed there (delivery-queue.mjs:53-79).
OneInside == \A e \in Events : e \in inside <=> lock = e /\ e \notin Killed
TypeOK ==
    /\ queue \subseteq Item
    /\ \A i, j \in queue : i.sequence = j.sequence \/ i.event = j.event => i = j
    /\ state \in DeliveryState
    /\ dead \subseteq Events
    /\ lock \in Events \cup {Null}
    /\ inside \subseteq Events
    /\ breakers \subseteq Events
    /\ overlap \in BOOLEAN
    /\ ~overlap => OneInside
    /\ owner \in Events \cup {Null, "UNKNOWN"}
    /\ pc \in [Events -> Steps]
    /\ job \in [Events -> Job]
    /\ aged \subseteq Events
    /\ strays \subseteq Item
    /\ mishaps \in 0..MaxMishaps
    /\ linked \in BOOLEAN
    /\ stored \in Seq(Item)
    /\ returned \subseteq Events

\* A lifecycle event whose enqueueEvent returned is not lost: it waits in the
\* queue, or it is in the dead-letter file, or the server has it
\* (delivery-queue.mjs; docs/ai/BETA_IMPLEMENTATION_PLAN.md:189 and 193).
NothingLost ==
    \A e \in returned \cap Lifecycle : IsQueued(e) \/ e \in dead \cup StoredEvents

\* Nothing is lost whatever else happens, unless a process was killed between
\* the append to the queue file and the write of the next sequence number
\* (delivery-queue.mjs:399-400), or two processes that waited for the lock of a
\* killed one both removed it, the second that of the first (lines 63-68).
LostOnlyWhenTorn == Torn = {} /\ ~overlap => NothingLost

\* The server receives the events of the device in the order of their numbers,
\* whichever processes send them; only a heartbeat or an event that was given up
\* may still arrive late (docs/ai/BETA_IMPLEMENTATION_PLAN.md:188), unless a
\* process was killed between the append to the queue file and the write of the
\* next sequence number, or the lock was removed twice: two events then have one
\* number, and when the first is given up the second may be overtaken.
Late == dead \cup Heartbeats
InOrder ==
    Torn = {} /\ ~overlap =>
        \A i, j \in 1..Len(stored) :
            i < j /\ stored[j].event \notin Late => stored[i].sequence < stored[j].sequence

\* The checkpoint in delivery-state.json never goes back, so that nothing
\* acknowledged is sent again and no number is used twice, as long as no
\* directory of a process inside was removed: of two processes inside, the
\* slower one writes the checkpoint it has read back over the newer one.
CheckpointMonotone ==
    [][~overlap' => state'.acked >= state.acked /\ state'.next >= state.next]_vars

\* While a queue worker runs, every queued event is eventually delivered or
\* given up, unless a process is killed or the device is disconnected
\* (queue-worker.mjs:15-21; docs/ai/BETA_IMPLEMENTATION_PLAN.md:190).
WorkerRuns == \E w \in Events : AsWorker(w) /\ pc[w] \notin {"CLAIMED", "LEAVING"}
WorkerDrains ==
    \A e \in Events :
        (IsQueued(e) /\ WorkerRuns) ~> (~IsQueued(e) \/ Killed # {} \/ ~linked)
=============================================================================
