------------------------- MODULE DeliveryQueue_proofs -------------------------
(* Theorems about DeliveryQueue, for any number of events and faults.       *)
EXTENDS DeliveryQueueProps, FiniteSetTheorems, SequenceTheorems, WellFoundedInduction, TLAPS

-----------------------------------------------------------------------------
(* The inductive invariant.                                                 *)

IsBuried(e) == pc[e] \in {"BURIED", "BURIED_W"}
Carrying(e) == IsSending(e) \/ IsAnswered(e) \/ IsBuried(e)
Holding(e) == pc[e] = "APPENDED" \/ IsBuried(e)

\* The items that a request was or is to be made about.
Sent == strays \cup {job[e].item : e \in {b \in Events : Carrying(b)}}
               \cup {stored[i] : i \in 1..Len(stored)}

\* The items that a process has read.
Seen == UNION {job[e].seen : e \in Events}

\* The events that somebody has heard of.
Heard == EventsOf(queue) \cup EventsOf(Sent) \cup EventsOf(Seen) \cup returned

Distinct(items) == \A i, j \in items : i.sequence = j.sequence \/ i.event = j.event => i = j

DataOK ==
    /\ queue \subseteq Item
    /\ Distinct(queue)
    /\ state \in DeliveryState
    /\ dead \subseteq Events
    /\ lock \in Events \cup {Null}
    /\ inside \subseteq Events
    /\ breakers \subseteq Events
    /\ overlap \in BOOLEAN
    /\ owner \in Events \cup {Null, "UNKNOWN"}
    /\ pc \in [Events -> Steps]
    /\ job \in [Events -> Job]
    /\ aged \subseteq Events
    /\ strays \subseteq Item
    /\ mishaps \in 0..MaxMishaps
    /\ linked \in BOOLEAN
    /\ stored \in Seq(Item)
    /\ returned \subseteq Events

\* What a process holds whatever becomes of the lock: the item it carries, a
\* queue it has read, and an event nobody has heard of before it starts.
JobOK(e) ==
    /\ Carrying(e) => job[e].item \in Item
    /\ Distinct(job[e].seen)
    /\ e \in inside => TakesLock(e) \/ Holding(e)
    /\ e \in breakers => TakesLock(e) /\ e \notin inside
    /\ Holding(e) => e \in inside
    /\ pc[e] = "IDLE" => e \notin Heard

\* What a process knows as long as it is alone inside: the checkpoint and the
\* queue are as it has read them, and what it has written of its two writes.
ProcessOK(e) ==
    /\ IsAnswered(e) /\ job[e].answer = "OK" => job[e].item.event \in StoredEvents
    /\ e \in inside => job[e].read.next = state.next /\ job[e].read.acked = state.acked
    /\ e \in inside => Holding(e) \/ job[e].seen = queue
    /\ pc[e] = "APPENDED" => [event |-> e, sequence |-> state.next] \in queue
    /\ IsBuried(e) => job[e].item.sequence > state.acked /\ job[e].item.event \in dead

\* Every number that was taken was taken for an event of its own.
Done == {e \in Events : pc[e] \notin {"IDLE", "APPENDED"}}
NumbersCounted ==
    /\ state.next <= Cardinality(Done) + 1
    /\ \A e \in Events : job[e].read.next <= Cardinality(Done) + 1

\* A number belongs to one event, or to heartbeats merged into one another.
OwnNumber(i, j) ==
    /\ i.sequence = j.sequence => i = j \/ {i.event, j.event} \subseteq Heartbeats
    /\ i.event = j.event => i = j
NumbersOwn ==
    /\ state.acked < state.next
    /\ \A i \in queue : i.sequence < state.next \/ (i.sequence = state.next /\ pc[i.event] = "APPENDED")
    /\ \A i \in Sent : i.sequence < state.next
    /\ \A i, j \in queue \cup Sent : OwnNumber(i, j)

\* Nothing is sent before what is queued ahead of it.
SentInTurn == \A i \in Sent : \A q \in queue : q.sequence < i.sequence => q.sequence <= state.acked

\* What was sent leaves the queue for a reason, and what is acknowledged is
\* dead or at the server.
SentIsKept ==
    \A i \in Sent : i.event \in Lifecycle => i \in queue \/ i.event \in dead \/ i.sequence <= state.acked
AckedIsSettled ==
    \A i \in queue \cup Sent :
        i.event \in Lifecycle /\ i.sequence <= state.acked => i.event \in dead \cup StoredEvents
ReturnedIsKept ==
    \A e \in returned \cap Lifecycle : e \in EventsOf(queue) \cup dead \cup StoredEvents

StoredInOrder ==
    \A i, j \in 1..Len(stored) :
        i < j /\ stored[j].event \notin Late => stored[i].sequence < stored[j].sequence

Ordered ==
    NumbersOwn /\ SentInTurn /\ SentIsKept /\ AckedIsSettled /\ ReturnedIsKept /\ StoredInOrder

Typed == DataOK /\ (\A e \in Events : JobOK(e)) /\ NumbersCounted
Sound == OneInside /\ \A e \in Events : ProcessOK(e)

IInv ==
    /\ Typed
    /\ ~overlap => Sound /\ (Torn = {} => Ordered)
-----------------------------------------------------------------------------
(* The operators of the queue.                                              *)

LEMMA LeastElement ==
    ASSUME NEW S \in SUBSET Nat, S # {}
    PROVE  \E m \in S : \A k \in S : m <= k
<1>1. PICK m \in S : \A k \in S : ~ (<<k, m>> \in OpToRel(<, Nat))
  BY NatLessThanWellFounded, WFMin
<1>2. \A k \in S : ~ (k < m)
  BY <1>1 DEF OpToRel
<1> QED
  BY <1>2

LEMMA CountOfEvents == Cardinality(Events) \in Nat
BY EventsAssumption, FS_CardinalityType

\* The head of a queue is the item with the least number.
LEMMA FirstOfItems ==
    ASSUME NEW S \in SUBSET Item, S # {}
    PROVE  First(S) \in S /\ \A j \in S : First(S).sequence <= j.sequence
<1> DEFINE Numbers == {i.sequence : i \in S}
<1>1. Numbers \in SUBSET Nat /\ Numbers # {}
  BY CountOfEvents DEF Item, SequenceNumbers
<1>2. PICK m \in Numbers : \A k \in Numbers : m <= k
  BY <1>1, LeastElement
<1>3. \E i \in S : \A j \in S : i.sequence <= j.sequence
  BY <1>2
<1> QED
  BY <1>3 DEF First

LEMMA LastOfItems ==
    ASSUME NEW S \in SUBSET Item, S # {}
    PROVE  Last(S) \in S /\ \A j \in S : Last(S).sequence >= j.sequence
<1> DEFINE N == Cardinality(Events)
           Distances == {N - i.sequence : i \in S}
<1>1. N \in Nat /\ \A i \in S : i.sequence \in 1..N
  BY CountOfEvents DEF Item, SequenceNumbers
<1>2. Distances \in SUBSET Nat /\ Distances # {}
  BY <1>1
<1>3. PICK m \in Distances : \A k \in Distances : m <= k
  BY <1>2, LeastElement
<1>4. PICK i \in S : m = N - i.sequence
  BY <1>3
<1>5. \A j \in S : N - i.sequence <= N - j.sequence
  BY <1>3, <1>4
<1>6. \A j \in S : i.sequence >= j.sequence
  BY <1>1, <1>5
<1> QED
  BY <1>6 DEF Last

\* A process that is alone inside has read the queue as it is.
Sees(e) == job[e].seen = queue /\ job[e].read.acked = state.acked

LEMMA SeesTheFiles ==
    ASSUME Sound, NEW e \in Events, e \in inside, ~ Holding(e)
    PROVE  Sees(e)
BY DEF Sound, ProcessOK, Sees

\* What a process goes on with, whatever it has read.
LEMMA ReadingAQueue ==
    ASSUME Typed, NEW e \in Events
    PROVE  /\ Items(e) \subseteq job[e].seen /\ job[e].seen \subseteq Item
           /\ Normalized(e) \in SUBSET Item /\ Distinct(Normalized(e))
           /\ EventsOf(Normalized(e)) \subseteq Heard /\ EventsOf(Items(e)) \subseteq Heard
           /\ Discarded(e) \subseteq Events
<1>1. job[e].seen \subseteq Item /\ Distinct(job[e].seen)
  BY DEF Typed, DataOK, Job, JobOK
<1>2. /\ Items(e) \subseteq job[e].seen
      /\ Unacked(job[e].seen, job[e].read.acked) \subseteq job[e].seen
  BY DEF Items, Kept, Unacked
<1>3. Discarded(e) \subseteq Events
  BY <1>1, <1>2 DEF Discarded, EventsOf, Item
<1>4. queue \subseteq Item /\ Distinct(queue) /\ EventsOf(queue) \subseteq Heard
  BY DEF Typed, DataOK, Heard
<1>5. EventsOf(Items(e)) \subseteq Heard /\ Distinct(Items(e))
  BY <1>1, <1>2 DEF Heard, Seen, EventsOf, Distinct
<1> QED
  BY <1>1, <1>2, <1>3, <1>4, <1>5 DEF Normalized

\* What it goes on with when it has read the queue as it is, and what becomes of
\* the rest.
LEMMA ReadingTheQueue ==
    ASSUME DataOK, NEW e \in Events, Sees(e)
    PROVE  /\ Items(e) \subseteq Normalized(e) /\ Normalized(e) \subseteq queue
           /\ Discarded(e) \subseteq Events
           /\ \A q \in queue : \/ q \in Normalized(e)
                               \/ q.event \in Discarded(e)
                               \/ q.sequence <= state.acked
           /\ \A q \in Normalized(e) : q.sequence > state.acked => q \in Items(e)
<1> DEFINE U == Unacked(queue, state.acked)
<1>1. Items(e) \subseteq U /\ U \subseteq queue
  BY DEF Sees, Items, Kept, Unacked
<1>2. Discarded(e) = EventsOf(U) \ EventsOf(Items(e))
  BY DEF Sees, Discarded
<1>3. Discarded(e) \subseteq Events
  BY <1>1, <1>2 DEF EventsOf, DataOK, Item
<1>4. Items(e) \subseteq Normalized(e) /\ Normalized(e) \subseteq queue
  BY <1>1 DEF Normalized
<1>5. ASSUME NEW q \in queue, q.sequence > state.acked
      PROVE  q \in Items(e) \/ q.event \in Discarded(e)
  <2>1. q \in U
    BY <1>5 DEF Unacked
  <2>2. q.event \in EventsOf(U)
    BY <2>1 DEF EventsOf
  <2>3. CASE q.event \in EventsOf(Items(e))
    <3>1. PICK i \in Items(e) : i.event = q.event
      BY <2>3 DEF EventsOf
    <3>2. i = q
      BY <1>1, <3>1 DEF DataOK, Distinct
    <3> QED
      BY <3>1, <3>2
  <2> QED
    BY <1>2, <2>2, <2>3
<1>6. \A q \in queue : q.sequence \in Nat /\ state.acked \in Nat
  BY CountOfEvents DEF DataOK, DeliveryState, Item, SequenceNumbers
<1>7. \A q \in queue : ~ (q.sequence <= state.acked) => q.sequence > state.acked
  BY <1>6
<1>8. ASSUME NEW q \in Normalized(e), q.sequence > state.acked
      PROVE  q \in Items(e)
  BY <1>4, <1>5, <1>8 DEF Normalized
<1>9. ASSUME NEW q \in queue
      PROVE  q \in Normalized(e) \/ q.event \in Discarded(e) \/ q.sequence <= state.acked
  BY <1>4, <1>5, <1>7
<1> QED
  BY <1>3, <1>4, <1>8, <1>9

LEMMA ReadsWell ==
    ASSUME Typed, NEW e \in Events, Items(e) # {}
    PROVE  /\ First(Items(e)) \in Items(e) /\ First(Items(e)) \in Item
           /\ \A j \in Items(e) : First(Items(e)).sequence <= j.sequence
           /\ Last(Items(e)) \in Items(e) /\ Last(Items(e)) \in Item
<1>1. Items(e) \in SUBSET Item
  BY ReadingAQueue
<1> QED
  BY <1>1, FirstOfItems, LastOfItems

\* The file after a line was written.
LEMMA WritingALine ==
    ASSUME NEW items \in SUBSET Item, NEW item \in Item,
           Distinct(items), \A i \in items : i.event # item.event
    PROVE  /\ SetItem(items, item) \in SUBSET Item
           /\ Distinct(SetItem(items, item))
           /\ item \in SetItem(items, item)
           /\ \A i \in items : i.sequence # item.sequence => i \in SetItem(items, item)
           /\ \A i \in SetItem(items, item) : i \in items \/ i = item
           /\ EventsOf(SetItem(items, item)) \subseteq EventsOf(items) \cup {item.event}
BY DEF SetItem, EventsOf, Distinct

-----------------------------------------------------------------------------
(* The records.                                                             *)

LEMMA FirstRecords ==
    /\ NoRetry \in Retry /\ NoRetry.attempts = 0
    /\ FirstState \in DeliveryState /\ FirstState.next = 1 /\ FirstState.acked = 0
    /\ NoJob \in Job
<1>1. NoRetry \in Retry /\ NoRetry.attempts = 0
  BY LimitsAssumption DEF NoRetry, Retry
<1>2. 1 \in SequenceNumbers \cup {Cardinality(Events) + 1}
  BY CountOfEvents DEF SequenceNumbers
<1>3. FirstState \in DeliveryState
  BY <1>1, <1>2 DEF FirstState, DeliveryState
<1>4. NoJob \in Job
  BY <1>3, LimitsAssumption DEF NoJob, Job
<1> QED
  BY <1>1, <1>3, <1>4 DEF FirstState

LEMMA AcknowledgedFits ==
    ASSUME NEW s \in DeliveryState, NEW n \in SequenceNumbers
    PROVE  /\ Acknowledged(s, n) \in DeliveryState
           /\ Acknowledged(s, n).acked = n
           /\ Acknowledged(s, n).next = s.next
<1>1. NoRetry \in Retry
  BY FirstRecords
<1>2. [s.retries EXCEPT ![n] = NoRetry] \in [SequenceNumbers -> Retry]
  BY <1>1 DEF DeliveryState
<1>3. Acknowledged(s, n) = [s EXCEPT !.acked = n, !.retries = [s.retries EXCEPT ![n] = NoRetry]]
  BY DEF Acknowledged, DeliveryState
<1>4. s = [next |-> s.next, acked |-> s.acked, retries |-> s.retries]
  BY DEF DeliveryState
<1>5. Acknowledged(s, n) =
          [next |-> s.next, acked |-> n, retries |-> [s.retries EXCEPT ![n] = NoRetry]]
  BY <1>3, <1>4
<1> QED
  BY <1>2, <1>5 DEF DeliveryState

\* The state with other retries.
WithRetry(s, n, retry) == [s EXCEPT !.retries[n] = retry]
LEMMA RetryFits ==
    ASSUME NEW s \in DeliveryState, NEW n \in SequenceNumbers, NEW retry \in Retry
    PROVE  /\ WithRetry(s, n, retry) \in DeliveryState
           /\ WithRetry(s, n, retry).acked = s.acked
           /\ WithRetry(s, n, retry).next = s.next
<1>1. [s.retries EXCEPT ![n] = retry] \in [SequenceNumbers -> Retry]
  BY DEF DeliveryState
<1>2. s = [next |-> s.next, acked |-> s.acked, retries |-> s.retries]
  BY DEF DeliveryState
<1>3. WithRetry(s, n, retry) =
          [next |-> s.next, acked |-> s.acked, retries |-> [s.retries EXCEPT ![n] = retry]]
  BY <1>2 DEF WithRetry
<1> QED
  BY <1>1, <1>3 DEF DeliveryState

\* The state after an append.
LEMMA NextFits ==
    ASSUME NEW s \in DeliveryState, s.next + 1 <= Cardinality(Events) + 1
    PROVE  /\ [s EXCEPT !.next = @ + 1] \in DeliveryState
           /\ [s EXCEPT !.next = @ + 1].acked = s.acked
           /\ [s EXCEPT !.next = @ + 1].next = s.next + 1
<1>1. s.next \in Nat /\ s.next >= 1
  BY CountOfEvents DEF DeliveryState, SequenceNumbers
<1>2. s.next + 1 \in SequenceNumbers \cup {Cardinality(Events) + 1}
  BY <1>1, CountOfEvents DEF SequenceNumbers
<1>3. [s EXCEPT !.next = @ + 1] = [next |-> s.next + 1, acked |-> s.acked, retries |-> s.retries]
  BY DEF DeliveryState
<1> QED
  BY <1>2, <1>3 DEF DeliveryState
-----------------------------------------------------------------------------
(* What a step of one process leaves alone.                                 *)

\* Only the process of this event moves.
OthersStay(e) ==
    \A b \in Events \ {e} :
        /\ pc'[b] = pc[b] /\ job'[b] = job[b]
        /\ b \in inside' <=> b \in inside
        /\ b \in breakers' <=> b \in breakers

\* The process moves, and with it goes what it holds in memory or nothing.
LEMMA Moving ==
    ASSUME DataOK, NEW e \in Events, NEW step \in Steps, Goto(e, step),
           job' = job \/ \E j \in Job : job' = [job EXCEPT ![e] = j],
           inside' = inside \/ inside' = inside \ {e},
           breakers' = breakers \/ breakers' = breakers \ {e}
    PROVE  /\ OthersStay(e)
           /\ pc' \in [Events -> Steps] /\ pc'[e] = step
           /\ job' \in [Events -> Job]
           /\ inside' \subseteq Events /\ breakers' \subseteq Events
BY DEF DataOK, Goto, OthersStay

LEMMA SentAfter ==
    ASSUME NEW e \in Events, NEW New, OthersStay(e),
           \A i \in strays' : i \in Sent \cup New,
           \A k \in 1..Len(stored') : stored'[k] \in Sent \cup New,
           Carrying(e)' => job'[e].item \in Sent \cup New
    PROVE  Sent' \subseteq Sent \cup New
<1>1. ASSUME NEW i \in Sent' PROVE i \in Sent \cup New
  <2>1. CASE i \in strays' \/ \E k \in 1..Len(stored') : i = stored'[k]
    BY <2>1
  <2>2. CASE \E b \in Events : Carrying(b)' /\ i = job'[b].item
    <3>1. PICK b \in Events : Carrying(b)' /\ i = job'[b].item
      BY <2>2
    <3>2. CASE b = e
      BY <3>1, <3>2
    <3>3. CASE b # e
      <4>1. Carrying(b) /\ i = job[b].item
        BY <3>1, <3>3 DEF OthersStay, Carrying, IsSending, IsAnswered, IsBuried
      <4> QED
        BY <4>1 DEF Sent
    <3> QED
      BY <3>2, <3>3
  <2> QED
    BY <2>1, <2>2, <1>1 DEF Sent
<1> QED
  BY <1>1

\* The same when nothing arrives at the server and no request is left alone.
LEMMA SentStays ==
    ASSUME NEW e \in Events, NEW New, OthersStay(e), strays' = strays, stored' = stored,
           Carrying(e)' => job'[e].item \in Sent \cup New
    PROVE  Sent' \subseteq Sent \cup New
<1>1. \A i \in strays' : i \in Sent \cup New
  BY DEF Sent
<1>2. \A k \in 1..Len(stored') : stored'[k] \in Sent \cup New
  BY DEF Sent
<1> QED
  BY <1>1, <1>2, SentAfter

LEMMA StoredStays ==
    ASSUME stored' = stored
    PROVE  StoredEvents' = StoredEvents
BY DEF StoredEvents

\* What the process has read and sent, it has read from others.
LEMMA HeardAfter ==
    ASSUME NEW e \in Events, OthersStay(e),
           EventsOf(Sent') \subseteq Heard \cup {e},
           EventsOf(queue') \subseteq Heard \cup {e},
           EventsOf(job'[e].seen) \subseteq Heard \cup {e},
           returned' \subseteq returned \cup {e}
    PROVE  Heard' \subseteq Heard \cup {e}
<1>1. ASSUME NEW i \in Seen' PROVE i.event \in Heard \cup {e}
  <2>1. PICK b \in Events : i \in job'[b].seen
    BY <1>1 DEF Seen
  <2>2. CASE b = e
    BY <2>1, <2>2 DEF EventsOf
  <2>3. CASE b # e
    <3>1. i \in Seen
      BY <2>1, <2>3 DEF OthersStay, Seen
    <3> QED
      BY <3>1 DEF Heard, EventsOf
  <2> QED
    BY <2>2, <2>3
<1>2. EventsOf(Seen') \subseteq Heard \cup {e}
  BY <1>1 DEF EventsOf
<1>3. Heard' = EventsOf(queue') \cup EventsOf(Sent') \cup EventsOf(Seen') \cup returned'
  BY DEF Heard, EventsOf
<1>4. returned \subseteq Heard
  BY DEF Heard
<1> QED
  BY <1>2, <1>3, <1>4

\* The process forgets what it has read, or reads nothing new.
LEMMA HeardNothingNew ==
    ASSUME NEW e \in Events, OthersStay(e), Sent' \subseteq Sent, queue' \subseteq queue,
           job'[e].seen \subseteq job[e].seen \cup queue,
           returned' \subseteq returned \cup {e}
    PROVE  Heard' \subseteq Heard \cup {e}
<1>1. /\ EventsOf(Sent') \subseteq Heard /\ EventsOf(queue') \subseteq Heard
      /\ EventsOf(job'[e].seen) \subseteq Heard
  BY DEF Heard, EventsOf, Seen
<1> QED
  BY <1>1, HeardAfter

LEMMA JobsAfter ==
    ASSUME Typed, NEW e \in Events, OthersStay(e), JobOK(e)', Heard' \subseteq Heard \cup {e}
    PROVE  \A b \in Events : JobOK(b)'
<1>1. ASSUME NEW b \in Events, b # e PROVE JobOK(b)'
  <2>1. /\ JobOK(b) /\ pc'[b] = pc[b] /\ job'[b] = job[b]
        /\ b \in inside' <=> b \in inside
        /\ b \in breakers' <=> b \in breakers
    BY <1>1 DEF Typed, OthersStay
  <2>2. /\ Carrying(b)' = Carrying(b) /\ Holding(b)' = Holding(b)
        /\ TakesLock(b)' = TakesLock(b)
    BY <2>1 DEF Carrying, IsSending, IsAnswered, IsBuried, Holding, TakesLock, Attempting,
          InlineAttempt
  <2>3. pc'[b] = "IDLE" => b \notin Heard'
    BY <1>1, <2>1 DEF JobOK
  <2>4. Distinct(job'[b].seen)
    BY <2>1 DEF JobOK
  <2> QED
    BY <2>1, <2>2, <2>3, <2>4 DEF JobOK, Distinct
<1> QED
  BY <1>1

\* The lock is free for the process: nobody else is inside.
Free(e) == lock \in {Null, e} \cup Killed

LEMMA OtherProcess ==
    ASSUME Typed, Sound, NEW e \in Events, NEW b \in Events, b # e, OthersStay(e),
           StoredEvents \subseteq StoredEvents', dead \subseteq dead',
           \/ Free(e)
           \/ queue' = queue /\ state'.next = state.next /\ state'.acked = state.acked
    PROVE  ProcessOK(b)'
<1>1. /\ ProcessOK(b) /\ pc'[b] = pc[b] /\ job'[b] = job[b]
      /\ b \in inside' <=> b \in inside
  BY DEF Sound, OthersStay
<1>2. /\ IsAnswered(b)' = IsAnswered(b)
      /\ Holding(b)' = Holding(b) /\ IsBuried(b)' = IsBuried(b)
  BY <1>1 DEF IsAnswered, IsBuried, Holding
<1>3. b \in inside => lock = b /\ b \notin Killed
  BY DEF Sound, OneInside
<1>4. b \in inside => queue' = queue /\ state'.next = state.next /\ state'.acked = state.acked
  BY <1>3, EventsAssumption DEF Free
<1>5. Holding(b) => b \in inside
  BY DEF Typed, JobOK
<1>6. b \in inside' => job'[b].read.next = state'.next /\ job'[b].read.acked = state'.acked
  BY <1>1, <1>4 DEF ProcessOK
<1>7. b \in inside' => Holding(b)' \/ job'[b].seen = queue'
  BY <1>1, <1>2, <1>4 DEF ProcessOK
<1>8. pc'[b] = "APPENDED" => [event |-> b, sequence |-> state'.next] \in queue'
  BY <1>1, <1>4, <1>5 DEF ProcessOK, Holding
<1>9. IsBuried(b)' => job'[b].item.sequence > state'.acked /\ job'[b].item.event \in dead'
  BY <1>1, <1>2, <1>4, <1>5 DEF ProcessOK, Holding
<1>10. IsAnswered(b)' /\ job'[b].answer = "OK" => job'[b].item.event \in StoredEvents'
  BY <1>1, <1>2 DEF ProcessOK
<1> QED
  BY <1>6, <1>7, <1>8, <1>9, <1>10 DEF ProcessOK

LEMMA LockAfter ==
    ASSUME Sound, NEW e \in Events, OthersStay(e),
           lock' = lock \/ (Free(e) /\ lock' \in {Null, e}),
           e \in inside' <=> lock' = e /\ e \notin Killed'
    PROVE  OneInside'
<1>1. ASSUME NEW b \in Events PROVE b \in inside' <=> lock' = b /\ b \notin Killed'
  <2>1. CASE b = e
    BY <2>1
  <2>2. CASE b # e
    <3>1. pc'[b] = pc[b] /\ (b \in inside' <=> b \in inside)
      BY <2>2 DEF OthersStay
    <3>2. b \in Killed' <=> b \in Killed
      BY <3>1 DEF Killed, Torn
    <3>3. b \in inside <=> lock = b /\ b \notin Killed
      BY DEF Sound, OneInside
    <3>4. CASE lock' = lock
      BY <3>1, <3>2, <3>3, <3>4
    <3>5. CASE Free(e) /\ lock' \in {Null, e}
      BY <2>2, <3>1, <3>3, <3>5, EventsAssumption DEF Free
    <3> QED
      BY <3>4, <3>5
  <2> QED
    BY <2>1, <2>2
<1> QED
  BY <1>1 DEF OneInside

LEMMA SoundAfter ==
    ASSUME Typed, Sound, NEW e \in Events, OthersStay(e), ProcessOK(e)',
           StoredEvents \subseteq StoredEvents', dead \subseteq dead',
           \/ Free(e)
           \/ queue' = queue /\ state'.next = state.next /\ state'.acked = state.acked,
           lock' = lock \/ (Free(e) /\ lock' \in {Null, e}),
           e \in inside' <=> lock' = e /\ e \notin Killed'
    PROVE  Sound'
<1>1. \A b \in Events : ProcessOK(b)'
  BY OtherProcess
<1>2. OneInside'
  BY LockAfter
<1> QED
  BY <1>1, <1>2 DEF Sound

LEMMA CountAfter ==
    ASSUME Typed, NEW e \in Events, OthersStay(e), e \in Done => e \in Done',
           state'.next <= Cardinality(Done) + 1,
           job'[e].read.next <= Cardinality(Done) + 1,
           state'.next \in Nat, job'[e].read.next \in Nat
    PROVE  NumbersCounted'
<1>1. Done \in SUBSET Done' /\ Done' \in SUBSET Events
  BY DEF Done, OthersStay
<1>2. IsFiniteSet(Done')
  BY <1>1, EventsAssumption, FS_Subset
<1>3. Cardinality(Done) <= Cardinality(Done') /\ IsFiniteSet(Done)
  BY <1>1, <1>2, FS_Subset
<1>4. Cardinality(Done) \in Nat /\ Cardinality(Done') \in Nat
  BY <1>2, <1>3, FS_CardinalityType
<1>5. ASSUME NEW b \in Events PROVE job'[b].read.next <= Cardinality(Done') + 1
  <2>1. CASE b = e
    BY <1>3, <1>4, <2>1
  <2>2. CASE b # e
    <3>1. job[b].read.next \in Nat
      BY CountOfEvents DEF Typed, DataOK, Job, DeliveryState, SequenceNumbers
    <3>2. job[b].read.next <= Cardinality(Done) + 1 /\ job'[b] = job[b]
      BY <2>2 DEF Typed, NumbersCounted, OthersStay
    <3> QED
      BY <1>3, <1>4, <3>1, <3>2
  <2> QED
    BY <2>1, <2>2
<1> QED
  BY <1>3, <1>4, <1>5 DEF NumbersCounted

LEMMA ReadNumbers ==
    ASSUME Typed
    PROVE  /\ \A e \in Events : /\ job[e].read \in DeliveryState
                                /\ job[e].read.next \in Nat /\ job[e].read.acked \in Nat
                                /\ job[e].read.next <= Cardinality(Done) + 1
           /\ state.next \in Nat /\ state.next <= Cardinality(Done) + 1
           /\ NoJob.read.next \in Nat /\ NoJob.read.next <= Cardinality(Done) + 1
           /\ Cardinality(Done) \in Nat
<1>1. ASSUME NEW e \in Events
      PROVE  /\ job[e].read \in DeliveryState
             /\ job[e].read.next \in Nat /\ job[e].read.acked \in Nat
             /\ job[e].read.next <= Cardinality(Done) + 1
  <2>1. job[e].read \in DeliveryState
    BY DEF Typed, DataOK, Job
  <2> QED
    BY <2>1, CountOfEvents DEF Typed, DeliveryState, SequenceNumbers, NumbersCounted
<1>2. state.next \in Nat /\ state.next <= Cardinality(Done) + 1
  BY CountOfEvents DEF Typed, DataOK, DeliveryState, SequenceNumbers, NumbersCounted
<1>3. Cardinality(Done) \in Nat
  BY EventsAssumption, FS_Subset, FS_CardinalityType DEF Done
<1>4. NoJob.read.next = 1
  BY FirstRecords DEF NoJob
<1> QED
  BY <1>1, <1>2, <1>3, <1>4

\* The process goes on without a job, or with the one it had.
LEMMA CountUnread ==
    ASSUME Typed, NEW e \in Events, OthersStay(e), e \in Done => e \in Done',
           state'.next = state.next \/ \E b \in Events : state'.next = job[b].read.next,
           job'[e].read \in {NoJob.read, job[e].read, state}
    PROVE  NumbersCounted'
<1>1. /\ state'.next \in Nat /\ state'.next <= Cardinality(Done) + 1
      /\ job'[e].read.next \in Nat /\ job'[e].read.next <= Cardinality(Done) + 1
  BY ReadNumbers
<1> QED
  BY <1>1, CountAfter
-----------------------------------------------------------------------------
(* How the order survives, by kinds of step.                                *)

\* No file but the dead letters changes, and nothing new is sent.
LEMMA OrderAtRest ==
    ASSUME Ordered, queue' = queue, stored' = stored, returned' = returned,
           state'.next = state.next, state'.acked = state.acked,
           dead \subseteq dead', Sent' \subseteq Sent,
           \A b \in EventsOf(queue) : pc[b] = "APPENDED" => pc'[b] = "APPENDED"
    PROVE  Ordered'
<1>1. StoredEvents' = StoredEvents
  BY StoredStays
<1>2. NumbersOwn'
  BY DEF Ordered, NumbersOwn, OwnNumber, EventsOf
<1>3. SentInTurn'
  BY DEF Ordered, SentInTurn
<1>4. SentIsKept'
  BY DEF Ordered, SentIsKept
<1>5. AckedIsSettled'
  BY <1>1 DEF Ordered, AckedIsSettled
<1>6. ReturnedIsKept'
  BY <1>1 DEF Ordered, ReturnedIsKept, EventsOf
<1>7. StoredInOrder'
  BY DEF Ordered, StoredInOrder, Late
<1> QED
  BY <1>2, <1>3, <1>4, <1>5, <1>6, <1>7 DEF Ordered

\* What the order says of one item is also true of an item that the server
\* receives: whatever is ahead of it is there, dead, or a heartbeat.
LEMMA OvertakesNone ==
    ASSUME DataOK, Ordered, NEW x \in Sent, NEW y \in Sent,
           y.event \in Lifecycle, y.event \notin dead \cup StoredEvents
    PROVE  ~ (y.sequence < x.sequence)
<1>1. SUFFICES ASSUME y.sequence < x.sequence PROVE FALSE
  OBVIOUS
<1>2. y \in queue \/ y.sequence <= state.acked
  BY DEF Ordered, SentIsKept
<1>3. y.sequence <= state.acked
  BY <1>1, <1>2 DEF Ordered, SentInTurn
<1> QED
  BY <1>3 DEF Ordered, AckedIsSettled

\* An item arrives at the server.
LEMMA OrderOfArrival ==
    ASSUME DataOK, Ordered, NEW item \in Sent, item \in Item, Sent \subseteq Item,
           stored' = LedgerAfter(item), Sent' \subseteq Sent,
           queue' = queue, dead' = dead, returned' = returned,
           state'.next = state.next, state'.acked = state.acked,
           \A b \in EventsOf(queue) : pc[b] = "APPENDED" => pc'[b] = "APPENDED"
    PROVE  Ordered'
<1>1. CASE stored' = stored
  BY <1>1, OrderAtRest
<1>2. CASE stored' # stored
  <2>1. ~ Known(item) /\ ~ Conflict(item) /\ stored' = Append(stored, item)
    BY <1>2 DEF LedgerAfter
  <2>2. stored \in Seq(Item)
    BY DEF DataOK
  <2>3. /\ Len(stored') = Len(stored) + 1 /\ Len(stored) \in Nat
        /\ \A k \in 1..Len(stored) : stored'[k] = stored[k]
        /\ stored'[Len(stored) + 1] = item
    BY <2>1, <2>2, AppendProperties, LenProperties
  <2>4. \A k \in 1..Len(stored') : k \in 1..Len(stored) \/ k = Len(stored) + 1
    BY <2>3
  <2>5. StoredEvents \subseteq StoredEvents'
    BY <2>3 DEF StoredEvents
  <2>6. item.event \notin StoredEvents
    BY <2>1 DEF Known, StoredEvents
  <2>7. NumbersOwn'
    BY DEF Ordered, NumbersOwn, OwnNumber, EventsOf
  <2>8. SentInTurn' /\ SentIsKept'
    BY DEF Ordered, SentInTurn, SentIsKept
  <2>9. AckedIsSettled'
    BY <2>5 DEF Ordered, AckedIsSettled
  <2>10. ReturnedIsKept'
    BY <2>5 DEF Ordered, ReturnedIsKept, EventsOf
  <2>11. ASSUME NEW k \in 1..Len(stored), item.event \notin Late
         PROVE  stored[k].sequence < item.sequence
    <3>1. item.event \in Lifecycle /\ item.event \notin dead
      BY <2>11 DEF Late, Lifecycle, Item
    <3>2. stored[k] \in Sent /\ stored[k] \in Item
      BY DEF Sent
    <3>3. ~ (item.sequence < stored[k].sequence)
      BY <2>6, <3>1, <3>2, OvertakesNone
    <3>4. item.sequence # stored[k].sequence
      BY <2>1 DEF Known, Conflict
    <3>5. item.sequence \in Nat /\ stored[k].sequence \in Nat
      BY <3>2, CountOfEvents DEF Item, SequenceNumbers
    <3> QED
      BY <3>3, <3>4, <3>5
  <2>12. StoredInOrder'
    <3>1. ASSUME NEW i \in 1..Len(stored'), NEW j \in 1..Len(stored'),
                 i < j, stored'[j].event \notin Late'
          PROVE  stored'[i].sequence < stored'[j].sequence
      <4>1. Late' = Late
        BY DEF Late
      <4>2. i \in 1..Len(stored)
        BY <2>3, <2>4, <3>1
      <4>3. CASE j \in 1..Len(stored)
        BY <2>3, <3>1, <4>1, <4>2, <4>3 DEF Ordered, StoredInOrder
      <4>4. CASE j = Len(stored) + 1
        BY <2>3, <2>11, <3>1, <4>1, <4>2, <4>4
      <4> QED
        BY <2>4, <4>3, <4>4
    <3> QED
      BY <3>1 DEF StoredInOrder
  <2> QED
    BY <2>7, <2>8, <2>9, <2>10, <2>12 DEF Ordered
<1> QED
  BY <1>1, <1>2

\* The checkpoint goes up to an item that is settled.
LEMMA OrderOfCheckpoint ==
    ASSUME DataOK, Ordered, NEW item \in Sent, Sent \subseteq Item,
           item.event \in dead \cup StoredEvents,
           item.sequence > state.acked, state'.acked = item.sequence,
           state'.next = state.next, Sent' \subseteq Sent,
           \/ queue' = queue
           \/ queue' = {} /\ \A q \in queue : ~ (q.sequence > item.sequence),
           dead' = dead, stored' = stored, returned' = returned,
           \A b \in EventsOf(queue) : pc[b] = "APPENDED" => pc'[b] = "APPENDED"
    PROVE  Ordered'
<1>1. StoredEvents' = StoredEvents
  BY StoredStays
<1>2. state.acked \in Nat /\ state.next \in Nat /\ \A i \in queue \cup Sent : i.sequence \in Nat
  BY CountOfEvents DEF DataOK, DeliveryState, Item, SequenceNumbers
<1>3. \A q \in queue : queue' = {} => q.sequence <= item.sequence
  BY <1>2
<1>4. ASSUME NEW i \in queue \cup Sent, i.event \in Lifecycle, i.sequence <= item.sequence
      PROVE  i.event \in dead \cup StoredEvents
  <2>1. CASE i.sequence = item.sequence
    BY <1>4, <2>1 DEF Ordered, NumbersOwn, OwnNumber, Lifecycle
  <2>2. CASE i.sequence < item.sequence
    <3>1. i \in queue \/ i.event \in dead \/ i.sequence <= state.acked
      BY <1>4 DEF Ordered, SentIsKept
    <3>2. i \in queue => i.sequence <= state.acked
      BY <2>2 DEF Ordered, SentInTurn
    <3> QED
      BY <1>4, <3>1, <3>2 DEF Ordered, AckedIsSettled
  <2> QED
    BY <1>2, <1>4, <2>1, <2>2
<1>5. \A i \in queue \cup Sent : i.sequence <= state.acked => i.sequence <= item.sequence
  BY <1>2
<1>6. NumbersOwn'
  BY <1>2 DEF Ordered, NumbersOwn, OwnNumber, EventsOf
<1>7. SentInTurn'
  BY <1>5 DEF Ordered, SentInTurn
<1>8. SentIsKept'
  BY <1>3, <1>5 DEF Ordered, SentIsKept
<1>9. AckedIsSettled'
  BY <1>1, <1>4 DEF AckedIsSettled
<1>10. ReturnedIsKept'
  <2>1. ASSUME NEW e \in returned \cap Lifecycle
        PROVE  e \in EventsOf(queue') \cup dead' \cup StoredEvents'
    <3>1. CASE e \in dead \cup StoredEvents
      BY <1>1, <3>1
    <3>2. CASE e \in EventsOf(queue)
      <4>1. PICK q \in queue : q.event = e
        BY <3>2 DEF EventsOf
      <4>2. queue' = {} => e \in dead \cup StoredEvents
        BY <1>3, <1>4, <2>1, <4>1
      <4>3. queue' = queue => e \in EventsOf(queue')
        BY <3>2
      <4> QED
        BY <1>1, <4>2, <4>3
    <3> QED
      BY <2>1, <3>1, <3>2 DEF Ordered, ReturnedIsKept
  <2> QED
    BY <2>1 DEF ReturnedIsKept, EventsOf
<1>11. StoredInOrder'
  BY DEF Ordered, StoredInOrder, Late
<1> QED
  BY <1>6, <1>7, <1>8, <1>9, <1>10, <1>11 DEF Ordered

\* The queue was read, what is too old or too much is dead, and an item may have
\* been written.
LEMMA OrderOfReading ==
    ASSUME DataOK, Ordered, NEW e \in Events, Sees(e),
           dead' = dead \cup Discarded(e), stored' = stored,
           state'.acked = state.acked,
           \A q \in Normalized(e) : q.event \in Lifecycle => q \in queue',
           returned' \cap Lifecycle = returned \cap Lifecycle,
           NumbersOwn', SentInTurn',
           \A i \in Sent' : i \in Sent \/ i \in queue',
           \A i \in queue' : i \in queue \/ i.event \notin Lifecycle \/ ~ (i.sequence <= state.acked)
    PROVE  Ordered'
<1>1. StoredEvents' = StoredEvents
  BY StoredStays
<1>2. ASSUME NEW q \in queue, q.event \in Lifecycle
      PROVE  q \in queue' \/ q.event \in dead' \/ q.sequence <= state.acked
  BY <1>2, ReadingTheQueue
<1>3. SentIsKept'
  BY <1>2 DEF Ordered, SentIsKept
<1>4. AckedIsSettled'
  <2>1. ASSUME NEW i \in queue' \cup Sent', i.event \in Lifecycle, i.sequence <= state.acked
        PROVE  i.event \in dead' \cup StoredEvents'
    <3>1. i \in queue \cup Sent
      BY <2>1
    <3> QED
      BY <1>1, <2>1, <3>1 DEF Ordered, AckedIsSettled
  <2> QED
    BY <2>1 DEF AckedIsSettled
<1>5. ReturnedIsKept'
  <2>1. ASSUME NEW b \in returned \cap Lifecycle
        PROVE  b \in EventsOf(queue') \cup dead' \cup StoredEvents'
    <3>1. CASE b \in dead \cup StoredEvents
      BY <1>1, <3>1
    <3>2. CASE b \in EventsOf(queue)
      <4>1. PICK q \in queue : q.event = b
        BY <3>2 DEF EventsOf
      <4>2. CASE q \in queue'
        BY <4>1, <4>2 DEF EventsOf
      <4>3. CASE q.event \in dead'
        BY <4>1, <4>3
      <4>4. CASE q.sequence <= state.acked
        BY <1>1, <2>1, <4>1, <4>4 DEF Ordered, AckedIsSettled
      <4> QED
        BY <1>2, <2>1, <4>1, <4>2, <4>3, <4>4
    <3> QED
      BY <2>1, <3>1, <3>2 DEF Ordered, ReturnedIsKept
  <2> QED
    BY <2>1 DEF ReturnedIsKept, EventsOf
<1>6. StoredInOrder'
  BY DEF Ordered, StoredInOrder, Late
<1> QED
  BY <1>3, <1>4, <1>5, <1>6 DEF Ordered
-----------------------------------------------------------------------------
(* The steps.  A torn process stays torn.                                   *)

Keeps ==
    /\ Typed'
    /\ overlap => overlap'
    /\ Sound /\ ~overlap' =>
           Sound' /\ Torn \subseteq Torn' /\ (Torn' = {} /\ Ordered => Ordered')

LEMMA TornStays ==
    ASSUME NEW e \in Events, OthersStay(e), pc[e] # "TORN"
    PROVE  Torn \subseteq Torn'
BY DEF Torn, OthersStay

LEMMA SentItems ==
    ASSUME Typed
    PROVE  Sent \subseteq Item
<1>1. \A e \in Events : Carrying(e) => job[e].item \in Item
  BY DEF Typed, JobOK
<1>2. \A k \in 1..Len(stored) : stored[k] \in Item
  BY DEF Typed, DataOK
<1>3. strays \subseteq Item
  BY DEF Typed, DataOK
<1> QED
  BY <1>1, <1>2, <1>3 DEF Sent

\* What a process that carries an item knows of it.
LEMMA CarriedItem ==
    ASSUME Typed, NEW e \in Events, Carrying(e)
    PROVE  /\ job[e].item \in Item /\ job[e].item \in Sent
           /\ job[e].item.event \in Events /\ job[e].item.sequence \in SequenceNumbers
<1>1. job[e].item \in Sent
  BY DEF Sent
<1> QED
  BY <1>1, SentItems DEF Item

LEMMA Numbers ==
    ASSUME Typed
    PROVE  /\ state.acked \in Nat /\ state.next \in Nat
           /\ \A i \in queue \cup Sent : i.sequence \in Nat
BY SentItems, CountOfEvents DEF Typed, DataOK, DeliveryState, Item, SequenceNumbers

LEMMA NobodyElseAppended ==
    ASSUME Typed, NEW e \in Events, OthersStay(e), pc[e] # "APPENDED"
    PROVE  \A b \in EventsOf(queue) : pc[b] = "APPENDED" => pc'[b] = "APPENDED"
<1>1. EventsOf(queue) \subseteq Events
  BY DEF Typed, DataOK, EventsOf, Item
<1> QED
  BY <1>1 DEF OthersStay

\* What a process does to the lock: nothing, outside of it, or the release.
LEMMA Unheld ==
    ASSUME Sound, NEW e \in Events, e \notin inside, pc[e] \notin {"KILLED", "TORN"}
    PROVE  lock # e
BY DEF Sound, OneInside, Killed, Torn

LEMMA Alone ==
    ASSUME Sound, NEW e \in Events, e \in inside
    PROVE  Free(e) /\ lock = e
BY DEF Sound, OneInside, Free

LEMMA Released ==
    ASSUME Sound, NEW e \in Events, Release(e)
    PROVE  Free(e) /\ lock' = Null /\ (e \in inside' <=> lock' = e /\ e \notin Killed')
BY Alone, EventsAssumption DEF Release

\* A process inside that is not at the first write of an enqueue is alone there:
\* nobody is.
LEMMA NobodyAppended ==
    ASSUME Typed, Sound, NEW e \in Events, e \in inside, pc[e] # "APPENDED"
    PROVE  \A b \in Events : pc[b] # "APPENDED"
<1>1. \A b \in Events : pc[b] = "APPENDED" => b \in inside
  BY DEF Typed, JobOK, Holding
<1>2. \A b \in inside : b = e
  BY Alone DEF Typed, DataOK
<1> QED
  BY <1>1, <1>2

\* A process that waits for the lock removes the directory.
ClearsLock(e) ==
    /\ e \in breakers /\ e \notin inside
    /\ breakers' = breakers \ {e} /\ inside' = inside /\ lock' = Null
    /\ overlap' = (overlap \/ lock \notin Killed \cup {Null})

\* A process moves on without touching the files.
QuietSteps == {"LAUNCHING", "WORKING", "LEAVING", "CLAIMED", "STALE", "REMOVED", "OVER"}
MovesOn(e) ==
    /\ pc[e] \notin {"KILLED", "TORN", "APPENDED", "BURIED", "BURIED_W"}
    /\ \E step \in QuietSteps : Goto(e, step)
    /\ job' = job \/ job' = [job EXCEPT ![e] = NoJob]
    /\ \/ Release(e) /\ e \notin breakers
       \/ e \notin inside \cup breakers /\ UNCHANGED lockVars
       \/ ClearsLock(e)
    /\ owner' \in Events \cup {Null, "UNKNOWN"}
    /\ UNCHANGED <<queue, state, dead, aged, strays, mishaps, linked, stored, returned>>

LEMMA QuietActions ==
    ASSUME Typed, NEW e \in Events,
           \/ LaunchWorker(e) \/ RemoveStale(e) \/ RemakeDirectory(e) \/ WriteOwner(e)
           \/ LeaveWorker(e) \/ FindSettled(e) \/ BlockOnAuth(e) \/ GiveUpLock(e)
           \/ RemoveLock(e) /\ Abandon(e)
    PROVE  MovesOn(e)
<1> USE DEF MovesOn, QuietSteps
<1>1. DataOK /\ (e \in inside => TakesLock(e) \/ Holding(e)) /\ (e \in breakers => TakesLock(e) /\ e \notin inside)
  BY DEF Typed, JobOK
<1>2. pc[e] \in {"LAUNCHING", "STALE", "REMOVED", "CLAIMED", "LEAVING"} => e \notin inside \cup breakers
  BY <1>1 DEF TakesLock, Attempting, InlineAttempt, IsAnswered, Holding, IsBuried
<1>3. pc[e] = "QUEUED" /\ e \in Heartbeats => e \notin inside \cup breakers
  BY <1>1 DEF TakesLock, Attempting, InlineAttempt, IsAnswered, Holding, IsBuried
<1>4. CASE LaunchWorker(e)
  BY <1>1, <1>2, <1>3, <1>4 DEF LaunchWorker, LaunchStep, DataOK, Goto
<1>5. CASE RemoveStale(e)
  BY <1>1, <1>2, <1>5 DEF RemoveStale, LaunchStep, DataOK, Goto
<1>6. CASE RemakeDirectory(e)
  BY <1>1, <1>2, <1>6 DEF RemakeDirectory, LaunchStep, DataOK, Goto
<1>7. CASE WriteOwner(e)
  BY <1>1, <1>2, <1>7 DEF WriteOwner, DataOK, Goto
<1>8. CASE LeaveWorker(e)
  BY <1>1, <1>2, <1>8 DEF LeaveWorker, DataOK, Goto
<1>9. CASE FindSettled(e)
  BY <1>1, <1>9 DEF FindSettled, Settling, IsAnswered, Continue, DataOK, Goto
<1>10. CASE BlockOnAuth(e)
  BY <1>1, <1>10 DEF BlockOnAuth, Settling, IsAnswered, Stop, DataOK, Goto
<1>11. CASE GiveUpLock(e)
  BY <1>1, <1>11 DEF GiveUpLock, Waits, Abandon, InlineAttempt, DataOK, Goto
<1>12. CASE RemoveLock(e) /\ Abandon(e)
  <2>1. ClearsLock(e)
    BY <1>1, <1>12 DEF RemoveLock, ClearsLock
  <2> QED
    BY <1>1, <1>12, <2>1 DEF RemoveLock, Abandon, InlineAttempt, DataOK, Goto
<1> QED
  BY <1>4, <1>5, <1>6, <1>7, <1>8, <1>9, <1>10, <1>11, <1>12

\* A process that has moved on holds nothing and waits for nothing.
LEMMA MovedOn ==
    ASSUME NEW e \in Events, pc'[e] \in QuietSteps \cup {"QUEUED"}, Distinct(job'[e].seen),
           e \notin inside', e \notin breakers'
    PROVE  /\ JobOK(e)' /\ ProcessOK(e)' /\ ~ Carrying(e)' /\ ~ Holding(e)'
           /\ e \in Done'
<1>1. /\ ~ Carrying(e)' /\ ~ Holding(e)' /\ ~ IsAnswered(e)' /\ ~ IsBuried(e)'
      /\ pc'[e] \notin {"IDLE", "APPENDED"}
  BY DEF Carrying, Holding, IsSending, IsAnswered, IsBuried, QuietSteps
<1>2. JobOK(e)'
  BY <1>1 DEF JobOK, Distinct
<1>3. ProcessOK(e)'
  BY <1>1 DEF ProcessOK
<1> QED
  BY <1>1, <1>2, <1>3 DEF Done

LEMMA NoJobIsEmpty ==
    ASSUME DataOK, NEW e \in Events, job' = [job EXCEPT ![e] = NoJob]
    PROVE  /\ job'[e] = NoJob /\ job'[e].seen = {} /\ Distinct(job'[e].seen)
           /\ job'[e].read = NoJob.read
BY DEF DataOK, NoJob, Distinct

LEMMA MovingOnKeeps ==
    ASSUME Typed, NEW e \in Events, MovesOn(e)
    PROVE  Keeps
<1>1. PICK step \in QuietSteps : Goto(e, step)
  BY DEF MovesOn
<1>2. DataOK /\ step \in Steps /\ NoJob \in Job
  BY FirstRecords DEF Typed, QuietSteps, Steps, WorkerSteps
<1>3. /\ inside' = inside \/ inside' = inside \ {e}
      /\ breakers' = breakers \/ breakers' = breakers \ {e}
      /\ overlap' \in BOOLEAN /\ (overlap => overlap')
      /\ e \notin inside' /\ e \notin breakers'
      /\ lock' \in Events \cup {Null}
  <2>1. CASE Release(e) /\ e \notin breakers
    BY <1>2, <2>1 DEF Release, DataOK
  <2>2. CASE e \notin inside \cup breakers /\ UNCHANGED lockVars
    BY <1>2, <2>2 DEF lockVars, DataOK
  <2>3. CASE ClearsLock(e)
    BY <1>2, <2>3 DEF ClearsLock, DataOK
  <2> QED
    BY <2>1, <2>2, <2>3 DEF MovesOn
<1>4. /\ OthersStay(e) /\ pc' \in [Events -> Steps] /\ pc'[e] = step
      /\ job' \in [Events -> Job] /\ inside' \subseteq Events /\ breakers' \subseteq Events
  BY <1>1, <1>2, <1>3, Moving DEF MovesOn
<1>5. DataOK'
  BY <1>2, <1>3, <1>4 DEF DataOK, Distinct, MovesOn
<1>6. /\ Distinct(job'[e].seen) /\ job'[e].seen \subseteq job[e].seen \cup queue
      /\ job'[e].read \in {NoJob.read, job[e].read, state}
  <2>1. CASE job' = job
    BY <2>1 DEF Typed, JobOK
  <2>2. CASE job' = [job EXCEPT ![e] = NoJob]
    BY <1>2, <2>2, NoJobIsEmpty
  <2> QED
    BY <2>1, <2>2 DEF MovesOn
<1>7. /\ JobOK(e)' /\ ProcessOK(e)' /\ ~ Carrying(e)' /\ ~ Holding(e)'
      /\ e \in Done'
  BY <1>3, <1>4, <1>6, MovedOn
<1>8. Sent' \subseteq Sent
  BY <1>4, <1>7, SentStays DEF MovesOn
<1>9. StoredEvents' = StoredEvents
  BY StoredStays DEF MovesOn
<1>10. Heard' \subseteq Heard \cup {e}
  BY <1>4, <1>6, <1>8, HeardNothingNew DEF MovesOn
<1>11. NumbersCounted'
  BY <1>4, <1>6, <1>7, CountUnread DEF MovesOn
<1>12. Typed'
  BY <1>4, <1>5, <1>7, <1>10, <1>11, JobsAfter DEF Typed
<1>13. Torn \subseteq Torn'
  BY <1>4, TornStays DEF MovesOn
<1>14. ASSUME Sound, ~ overlap' PROVE Sound'
  <2>1. /\ lock' = lock \/ (Free(e) /\ lock' \in {Null, e})
        /\ e \in inside' <=> lock' = e /\ e \notin Killed'
    <3>1. CASE Release(e) /\ e \notin breakers
      BY <1>14, <3>1, Released
    <3>2. CASE e \notin inside \cup breakers /\ UNCHANGED lockVars
      BY <1>3, <1>14, <3>2, Unheld DEF MovesOn, lockVars
    <3>3. CASE ClearsLock(e)
      <4>1. lock \in Killed \cup {Null} /\ lock' = Null /\ e \notin inside'
        BY <1>2, <1>14, <3>3 DEF ClearsLock, DataOK
      <4> QED
        BY <4>1, EventsAssumption DEF Free
    <3> QED
      BY <3>1, <3>2, <3>3 DEF MovesOn
  <2> QED
    BY <1>4, <1>7, <1>9, <1>14, <2>1, SoundAfter DEF MovesOn
<1>15. ASSUME Ordered PROVE Ordered'
  <2>1. pc[e] # "APPENDED"
    BY DEF MovesOn
  <2> QED
    BY <1>4, <1>8, <1>15, <2>1, NobodyElseAppended, OrderAtRest DEF MovesOn
<1> QED
  BY <1>3, <1>12, <1>13, <1>14, <1>15 DEF Keeps

\* What the ledger of the server is after an item.
LEMMA LedgerFits ==
    ASSUME DataOK, NEW item \in Item, stored' = LedgerAfter(item)
    PROVE  /\ stored' \in Seq(Item)
           /\ StoredEvents \subseteq StoredEvents'
           /\ \A k \in 1..Len(stored') :
                  stored'[k] = item \/ \E m \in 1..Len(stored) : stored'[k] = stored[m]
           /\ Known(item) \/ ~ Conflict(item) => item.event \in StoredEvents'
<1>1. stored \in Seq(Item)
  BY DEF DataOK
<1>2. CASE Known(item)
  BY <1>1, <1>2 DEF LedgerAfter, Known, StoredEvents
<1>3. CASE ~ Known(item) /\ Conflict(item)
  BY <1>1, <1>3 DEF LedgerAfter, StoredEvents
<1>4. CASE ~ Known(item) /\ ~ Conflict(item)
  <2>1. stored' = Append(stored, item)
    BY <1>4 DEF LedgerAfter
  <2>2. /\ stored' \in Seq(Item) /\ Len(stored') = Len(stored) + 1 /\ Len(stored) \in Nat
        /\ \A k \in 1..Len(stored) : stored'[k] = stored[k]
        /\ stored'[Len(stored) + 1] = item
    BY <1>1, <2>1, AppendProperties, LenProperties
  <2>3. \A k \in 1..Len(stored') : k \in 1..Len(stored) \/ k = Len(stored) + 1
    BY <2>2
  <2>4. StoredEvents \subseteq StoredEvents' /\ item.event \in StoredEvents'
    BY <2>2 DEF StoredEvents
  <2> QED
    BY <2>2, <2>3, <2>4
<1> QED
  BY <1>2, <1>3, <1>4

\* A request comes to an end.
Answers(e) ==
    /\ \E answer \in {"OK", "REFUSED", "DENIED", "RETRY"} :
           /\ Answer(e, answer)
           /\ answer = "OK" => job[e].item.event \in StoredEvents'
    /\ stored' = stored \/ stored' = LedgerAfter(job[e].item)
    /\ strays' \subseteq strays \cup {job[e].item}
    /\ mishaps' \in 0..MaxMishaps

LEMMA AnswerActions ==
    ASSUME Typed, NEW e \in Events,
           ServerAnswers(e) \/ ServerRefuses(e) \/ ServerDenies(e) \/ NoAnswer(e)
    PROVE  Answers(e)
<1> USE LimitsAssumption
<1>1. Carrying(e)
  BY DEF ServerAnswers, ServerRefuses, ServerDenies, NoAnswer, Answer, Carrying
<1>2. job[e].item \in Item /\ DataOK /\ mishaps \in 0..MaxMishaps
  BY <1>1, CarriedItem DEF Typed, DataOK
<1>3. CASE ServerAnswers(e)
  <2>1. Known(job[e].item) \/ ~ Conflict(job[e].item) => job[e].item.event \in StoredEvents'
    BY <1>2, <1>3, LedgerFits DEF ServerAnswers
  <2> QED
    BY <1>2, <1>3, <2>1 DEF ServerAnswers, Answers
<1>4. CASE ServerRefuses(e)
  BY <1>2, <1>4 DEF ServerRefuses, Answers, Mishap
<1>5. CASE ServerDenies(e)
  BY <1>2, <1>5 DEF ServerDenies, Answers
<1>6. CASE NoAnswer(e)
  BY <1>2, <1>6 DEF NoAnswer, Answers
<1> QED
  BY <1>3, <1>4, <1>5, <1>6

\* The job with an answer.
LEMMA AnswerFits ==
    ASSUME NEW j \in Job, NEW answer \in {"OK", "REFUSED", "DENIED", "RETRY"}
    PROVE  /\ [j EXCEPT !.answer = answer] \in Job
           /\ [j EXCEPT !.answer = answer].item = j.item
           /\ [j EXCEPT !.answer = answer].answer = answer
           /\ [j EXCEPT !.answer = answer].read = j.read
           /\ [j EXCEPT !.answer = answer].seen = j.seen
BY DEF Job

LEMMA AnsweringKeeps ==
    ASSUME Typed, NEW e \in Events, Answers(e)
    PROVE  Keeps
<1>1. PICK answer \in {"OK", "REFUSED", "DENIED", "RETRY"} :
          /\ Answer(e, answer)
          /\ answer = "OK" => job[e].item.event \in StoredEvents'
  BY DEF Answers
<1>2. DataOK /\ AnsweredAs(e) \in Steps /\ job[e] \in Job /\ job \in [Events -> Job]
  BY DEF Typed, DataOK, AnsweredAs, Steps, WorkerSteps
<1>3. /\ Carrying(e) /\ ~ Holding(e) /\ pc[e] \notin {"KILLED", "TORN", "IDLE", "APPENDED"}
      /\ Goto(e, AnsweredAs(e)) /\ UNCHANGED lockVars
      /\ e \notin inside /\ e \notin breakers
  <2>1. /\ e \in inside => TakesLock(e) \/ Holding(e)
        /\ e \in breakers => TakesLock(e)
    BY DEF Typed, JobOK
  <2>2. ~ TakesLock(e) /\ ~ Holding(e)
    BY <1>1 DEF Answer, IsSending, TakesLock, Attempting, InlineAttempt, IsAnswered, Holding, IsBuried
  <2> QED
    BY <1>1, <2>1, <2>2 DEF Answer, Carrying, IsSending, IsBuried
<1>4. PICK j \in Job : /\ j = [job[e] EXCEPT !.answer = answer]
                       /\ j.item = job[e].item /\ j.answer = answer
                       /\ j.read = job[e].read /\ j.seen = job[e].seen
  <2>1. job[e] \in Job
    BY <1>2
  <2>2. /\ [job[e] EXCEPT !.answer = answer] \in Job
        /\ [job[e] EXCEPT !.answer = answer].item = job[e].item
        /\ [job[e] EXCEPT !.answer = answer].answer = answer
        /\ [job[e] EXCEPT !.answer = answer].read = job[e].read
        /\ [job[e] EXCEPT !.answer = answer].seen = job[e].seen
    BY ONLY <2>1, AnswerFits
  <2> QED
    BY <2>2
<1>5. job' = [job EXCEPT ![e] = j]
  BY <1>1, <1>2, <1>4 DEF Answer
<1>6. inside' = inside /\ breakers' = breakers /\ lock' = lock /\ overlap' = overlap
  BY <1>3 DEF lockVars
<1>7. /\ OthersStay(e) /\ pc' \in [Events -> Steps] /\ pc'[e] = AnsweredAs(e)
      /\ job' \in [Events -> Job] /\ job'[e] = j
  BY <1>2, <1>3, <1>5, <1>6, Moving
<1>8. job[e].item \in Item /\ job[e].item \in Sent
  BY <1>3, CarriedItem
<1>9. /\ stored' \in Seq(Item) /\ StoredEvents \subseteq StoredEvents'
      /\ \A k \in 1..Len(stored') :
             stored'[k] = job[e].item \/ \E m \in 1..Len(stored) : stored'[k] = stored[m]
  <2>1. CASE stored' = stored
    BY <1>2, <2>1, StoredStays DEF DataOK
  <2>2. CASE stored' = LedgerAfter(job[e].item)
    BY <1>2, <1>8, <2>2, LedgerFits
  <2> QED
    BY <2>1, <2>2 DEF Answers
<1>10. DataOK'
  BY <1>1, <1>2, <1>6, <1>7, <1>8, <1>9 DEF Answer, Answers, DataOK, Distinct
<1>11. /\ IsAnswered(e)' /\ ~ Holding(e)' /\ ~ IsBuried(e)' /\ pc'[e] \notin {"APPENDED", "IDLE", "KILLED"}
  BY <1>7 DEF AnsweredAs, IsAnswered, Holding, IsBuried
<1>12. JobOK(e)' /\ ProcessOK(e)'
  <2>1. Distinct(j.seen)
    BY <1>4 DEF Typed, JobOK
  <2>2. JobOK(e)'
    BY <1>3, <1>4, <1>6, <1>7, <1>8, <1>11, <2>1 DEF JobOK, Distinct
  <2>3. ProcessOK(e)'
    BY <1>1, <1>3, <1>4, <1>6, <1>7, <1>11 DEF ProcessOK
  <2> QED
    BY <2>2, <2>3
<1>13. Sent' \subseteq Sent
  <2>1. \A i \in strays' : i \in Sent
    BY <1>8 DEF Answers, Sent
  <2>2. \A k \in 1..Len(stored') : stored'[k] \in Sent
    BY <1>8, <1>9 DEF Sent
  <2>3. Sent' \subseteq Sent \cup {}
    BY <1>4, <1>7, <1>8, <2>1, <2>2, SentAfter
  <2> QED
    BY <2>3
<1>14. Heard' \subseteq Heard \cup {e}
  BY <1>1, <1>4, <1>7, <1>13, HeardNothingNew DEF Answer
<1>15. NumbersCounted'
  BY <1>1, <1>4, <1>7, <1>11, CountUnread DEF Answer, Done
<1>16. Typed'
  BY <1>7, <1>10, <1>12, <1>14, <1>15, JobsAfter DEF Typed
<1>17. Torn \subseteq Torn'
  BY <1>3, <1>7, TornStays
<1>18. ASSUME Sound PROVE Sound'
  <2>1. lock # e
    BY <1>3, <1>18, Unheld
  <2> QED
    BY <1>1, <1>3, <1>6, <1>7, <1>9, <1>12, <1>18, <2>1, SoundAfter DEF Answer
<1>19. ASSUME Ordered PROVE Ordered'
  <2>1. \A b \in EventsOf(queue) : pc[b] = "APPENDED" => pc'[b] = "APPENDED"
    BY <1>3, <1>7, NobodyElseAppended
  <2>2. CASE stored' = stored
    BY <1>1, <1>13, <1>19, <2>1, <2>2, OrderAtRest DEF Answer
  <2>3. CASE stored' = LedgerAfter(job[e].item)
    BY <1>1, <1>2, <1>8, <1>13, <1>19, <2>1, <2>3, SentItems, OrderOfArrival DEF Answer
  <2> QED
    BY <2>2, <2>3 DEF Answers
<1> QED
  BY <1>6, <1>16, <1>17, <1>18, <1>19 DEF Keeps
-----------------------------------------------------------------------------
(* The steps that read the queue.                                           *)

\* While a process reads, every number in the queue was taken.
LEMMA NumbersTaken ==
    ASSUME Typed, Sound, Ordered, NEW e \in Events, e \in inside, pc[e] # "APPENDED"
    PROVE  \A q \in queue : q.sequence < state.next
<1>1. \A q \in queue : q.event \in Events
  BY DEF Typed, DataOK, Item
<1>2. \A q \in queue : pc[q.event] # "APPENDED"
  BY <1>1, NobodyAppended
<1> QED
  BY <1>2 DEF Ordered, NumbersOwn

\* The job of a process that sends an item.
SendingJob(s, item) ==
    [NoJob EXCEPT !.item = item, !.attempts = s.retries[item.sequence].attempts]

LEMMA SendingFits ==
    ASSUME NEW s \in DeliveryState, NEW item \in Item
    PROVE  /\ SendingJob(s, item) \in Job /\ SendingJob(s, item).item = item
           /\ SendingJob(s, item).read = NoJob.read /\ SendingJob(s, item).seen = {}
<1>1. s.retries[item.sequence].attempts \in 0..MaxAttempts
  BY DEF DeliveryState, Item, Retry
<1>2. FirstState \in DeliveryState
  BY FirstRecords
<1> QED
  BY <1>1, <1>2 DEF NoJob, Job, SendingJob

\* What a process goes on with after reading the queue.
ReadOn(e) ==
    /\ ReadUnderLock(e)
    /\ \/ \E step \in QuietSteps : Goto(e, step) /\ job' = [job EXCEPT ![e] = NoJob]
       \/ /\ Items(e) # {}
          /\ Goto(e, SendingAs(e))
          /\ \E j \in Job : /\ j.item = First(Items(e)) /\ j.read = NoJob.read /\ j.seen = {}
                            /\ job' = [job EXCEPT ![e] = j]

LEMMA ReadActions ==
    ASSUME Typed, NEW e \in Events, FindEmpty(e) \/ FindWaiting(e) \/ Prepare(e)
    PROVE  ReadOn(e)
<1>1. CASE FindEmpty(e)
  BY <1>1 DEF FindEmpty, Stop, ReadOn, QuietSteps
<1>2. CASE FindWaiting(e)
  BY <1>2 DEF FindWaiting, Continue, ReadOn, QuietSteps
<1>3. CASE Prepare(e)
  <2>1. Items(e) # {}
    BY <1>3 DEF Prepare
  <2>2. PICK item \in Item : item = First(Items(e))
    BY <2>1, ReadsWell
  <2>3. PICK s \in DeliveryState : s = job[e].read
    BY ReadNumbers
  <2>4. PICK j \in Job : /\ j = SendingJob(s, item)
                         /\ j.item = item /\ j.read = NoJob.read /\ j.seen = {}
    BY ONLY <2>2, <2>3, SendingFits
  <2>5. job' = [job EXCEPT ![e] = j]
    BY <1>3, <2>2, <2>3, <2>4 DEF Prepare, SendingJob
  <2> QED
    BY <1>3, <2>1, <2>2, <2>4, <2>5 DEF Prepare, ReadOn
<1> QED
  BY <1>1, <1>2, <1>3

LEMMA ReadingKeeps ==
    ASSUME Typed, NEW e \in Events, ReadOn(e)
    PROVE  Keeps
<1> DEFINE New == {i \in Items(e) : i = First(Items(e))}
<1>1. PICK step \in Steps, j \in Job :
          /\ Goto(e, step) /\ job' = [job EXCEPT ![e] = j]
          /\ j.read = NoJob.read /\ j.seen = {}
          /\ \/ step \in QuietSteps
             \/ /\ Items(e) # {} /\ step \in {"SENDING", "SENDING_W"}
                /\ j.item = First(Items(e))
  <2>1. CASE \E step \in QuietSteps : Goto(e, step) /\ job' = [job EXCEPT ![e] = NoJob]
    <3>1. NoJob \in Job /\ NoJob.seen = {}
      BY FirstRecords DEF NoJob
    <3>2. PICK step \in QuietSteps : Goto(e, step) /\ job' = [job EXCEPT ![e] = NoJob]
      BY <2>1
    <3>3. step \in Steps
      BY DEF QuietSteps, Steps, WorkerSteps
    <3> QED
      BY <3>1, <3>2, <3>3
  <2>2. CASE /\ Items(e) # {} /\ Goto(e, SendingAs(e))
             /\ \E j \in Job : /\ j.item = First(Items(e)) /\ j.read = NoJob.read /\ j.seen = {}
                               /\ job' = [job EXCEPT ![e] = j]
    <3>1. SendingAs(e) \in Steps /\ SendingAs(e) \in {"SENDING", "SENDING_W"}
      BY DEF SendingAs, Steps, WorkerSteps
    <3>2. PICK j \in Job : /\ j.item = First(Items(e)) /\ j.read = NoJob.read /\ j.seen = {}
                           /\ job' = [job EXCEPT ![e] = j]
      BY <2>2
    <3> QED
      BY <2>2, <3>1, <3>2
  <2> QED
    BY <2>1, <2>2 DEF ReadOn
<1>2. DataOK /\ step \in Steps
  BY <1>1 DEF Typed, QuietSteps, Steps, WorkerSteps
<1>3. /\ pc[e] \in {"QUEUED", "WORKING"} /\ Release(e)
      /\ queue' = Normalized(e) /\ dead' = dead \cup Discarded(e)
      /\ UNCHANGED <<state, owner, aged, strays, mishaps, linked, stored, returned>>
  BY DEF ReadOn, ReadUnderLock, Attempting, InlineAttempt
<1>4. /\ e \in inside /\ inside' = inside \ {e} /\ breakers' = breakers /\ overlap' = overlap
      /\ lock' = Null /\ e \notin inside' /\ e \notin breakers'
  BY <1>3 DEF Release, Typed, JobOK
<1>5. /\ OthersStay(e) /\ pc' \in [Events -> Steps] /\ pc'[e] = step
      /\ job' \in [Events -> Job] /\ job'[e] = j
      /\ inside' \subseteq Events /\ breakers' \subseteq Events
  BY <1>1, <1>2, <1>4, Moving DEF DataOK
<1>6. /\ Normalized(e) \in SUBSET Item /\ Distinct(Normalized(e))
      /\ EventsOf(Normalized(e)) \subseteq Heard /\ EventsOf(Items(e)) \subseteq Heard
      /\ Discarded(e) \subseteq Events
  BY ReadingAQueue
<1>7. DataOK'
  BY <1>2, <1>3, <1>4, <1>5, <1>6 DEF DataOK, Distinct
<1>8. Carrying(e)' => /\ Items(e) # {} /\ j.item = First(Items(e))
                      /\ j.item \in Items(e) /\ j.item \in Item
  <2>1. CASE step \in QuietSteps
    BY <1>5, <2>1 DEF QuietSteps, Carrying, IsSending, IsAnswered, IsBuried
  <2>2. CASE Items(e) # {} /\ j.item = First(Items(e))
    BY <2>2, ReadsWell
  <2> QED
    BY <1>1, <2>1, <2>2
<1>9. /\ ~ Holding(e)' /\ ~ IsBuried(e)' /\ ~ IsAnswered(e)'
      /\ pc'[e] \notin {"APPENDED", "IDLE", "KILLED", "TORN"}
  BY <1>1, <1>5 DEF Holding, IsBuried, IsAnswered, QuietSteps
<1>10. JobOK(e)' /\ ProcessOK(e)'
  <2>1. JobOK(e)'
    BY <1>1, <1>4, <1>5, <1>8, <1>9 DEF JobOK, Distinct
  <2>2. ProcessOK(e)'
    BY <1>4, <1>9 DEF ProcessOK
  <2> QED
    BY <2>1, <2>2
<1>11. Sent' \subseteq Sent \cup New
  <2>1. Carrying(e)' => job'[e].item \in Sent \cup New
    BY <1>5, <1>8
  <2> HIDE DEF New
  <2> QED
    BY <1>3, <1>5, <2>1, SentStays
<1>12. Heard' \subseteq Heard \cup {e}
  <2>1. EventsOf(Sent') \subseteq Heard
    BY <1>6, <1>11 DEF EventsOf, Heard
  <2>2. EventsOf(job'[e].seen) = {}
    BY <1>1, <1>5 DEF EventsOf
  <2> QED
    BY <1>3, <1>5, <1>6, <2>1, <2>2, HeardAfter
<1>13. StoredEvents' = StoredEvents
  BY <1>3, StoredStays
<1>14. NumbersCounted'
  BY <1>1, <1>3, <1>5, <1>9, CountUnread DEF Done
<1>15. Typed'
  BY <1>5, <1>7, <1>10, <1>12, <1>14, JobsAfter DEF Typed
<1>16. Torn \subseteq Torn'
  BY <1>3, <1>5, TornStays
<1>17. ASSUME Sound PROVE Sound'
  BY <1>3, <1>5, <1>10, <1>13, <1>17, Released, SoundAfter
<1>18. ASSUME Sound, Ordered PROVE Ordered'
  <2>1. Sees(e)
    BY <1>3, <1>4, <1>18, SeesTheFiles DEF Holding, IsBuried
  <2>2. /\ Items(e) \subseteq Normalized(e) /\ Normalized(e) \subseteq queue
        /\ \A q \in Normalized(e) : q.sequence > state.acked => q \in Items(e)
    BY <1>2, <2>1, ReadingTheQueue
  <2>3. \A q \in queue : q.sequence < state.next
    BY <1>3, <1>4, <1>18, NumbersTaken
  <2>4. queue' \subseteq queue /\ Sent' \subseteq queue \cup Sent
    BY <1>3, <1>11, <2>2
  <2>5. NumbersOwn'
    <3>1. \A i \in queue' : i.sequence < state'.next
      BY <1>3, <2>3, <2>4
    <3>2. \A i \in Sent' : i.sequence < state'.next
      BY <1>3, <1>18, <2>3, <2>4 DEF Ordered, NumbersOwn
    <3>3. \A i, k \in queue' \cup Sent' : OwnNumber(i, k)
      BY <1>18, <2>4 DEF Ordered, NumbersOwn
    <3>4. state'.acked < state'.next
      BY <1>3, <1>18 DEF Ordered, NumbersOwn
    <3> QED
      BY <3>1, <3>2, <3>3, <3>4 DEF NumbersOwn, OwnNumber
  <2>6. SentInTurn'
    <3>1. ASSUME NEW i \in Sent', NEW q \in queue', q.sequence < i.sequence
          PROVE  q.sequence <= state'.acked
      <4>1. CASE i \in Sent
        BY <1>3, <1>18, <2>4, <3>1, <4>1 DEF Ordered, SentInTurn
      <4>2. CASE i \in Items(e) /\ i = First(Items(e))
        <5>1. \A p \in Items(e) : i.sequence <= p.sequence
          BY <4>2, ReadsWell
        <5>2. q \in Item /\ i \in Item
          BY <1>2, <2>2, <2>4, <4>2 DEF DataOK
        <5>3. q.sequence \in Nat /\ i.sequence \in Nat /\ state.acked \in Nat
          BY <5>2, Numbers, CountOfEvents DEF Item, SequenceNumbers
        <5>4. ~ (q.sequence > state.acked)
          BY <1>3, <2>2, <3>1, <5>1, <5>3
        <5> QED
          BY <1>3, <5>3, <5>4
      <4> QED
        BY <1>11, <4>1, <4>2
    <3> QED
      BY <3>1 DEF SentInTurn
  <2>7. \A i \in Sent' : i \in Sent \/ i \in queue'
    BY <1>3, <1>11, <2>2
  <2>8. \A q \in Normalized(e) : q.event \in Lifecycle => q \in queue'
    BY <1>3
  <2>9. /\ dead' = dead \cup Discarded(e) /\ stored' = stored /\ state'.acked = state.acked
        /\ returned' \cap Lifecycle = returned \cap Lifecycle
        /\ \A i \in queue' : i \in queue
    BY <1>3, <2>4
  <2> QED
    BY ONLY <1>2, <1>18, <2>1, <2>5, <2>6, <2>7, <2>8, <2>9, OrderOfReading
<1> QED
  BY <1>4, <1>15, <1>16, <1>17, <1>18 DEF Keeps
-----------------------------------------------------------------------------
(* The steps that record an answer.                                         *)

\* An item is settled, at the server or as a dead letter.
Settles(e) ==
    /\ Carrying(e) /\ ~ IsSending(e) /\ Release(e)
    /\ \E step \in QuietSteps : Goto(e, step)
    /\ job' = [job EXCEPT ![e] = NoJob]
    /\ state' \in DeliveryState
    /\ state'.acked = job[e].item.sequence /\ state'.next = job[e].read.next
    /\ \/ queue' = queue
       \/ /\ queue' = {} /\ ~ Holding(e)
          /\ \A q \in job[e].seen : ~ (q.sequence > job[e].item.sequence)
    /\ Sound => /\ job[e].item.event \in dead \cup StoredEvents
                /\ job[e].item.sequence > state.acked
    /\ UNCHANGED <<dead, owner, aged, strays, mishaps, linked, stored, returned>>

LEMMA SettleActions ==
    ASSUME Typed, NEW e \in Events, Acknowledge(e) \/ SaveDeadLetter(e)
    PROVE  Settles(e)
<1>1. Carrying(e) /\ Release(e) /\ e \in inside
  BY DEF Acknowledge, Settling, SaveDeadLetter, Carrying, IsBuried, Release
<1>2. /\ job[e].item \in Item /\ job[e].item.sequence \in SequenceNumbers
      /\ job[e].item.sequence \in Nat
  BY <1>1, CarriedItem, CountOfEvents DEF SequenceNumbers
<1>3. job[e].read \in DeliveryState /\ job[e].read.acked \in Nat
  BY ReadNumbers
<1>4. CASE Acknowledge(e)
  <2>1. IsAnswered(e) /\ ~ IsBuried(e) /\ ~ IsSending(e) /\ ~ Holding(e)
    BY <1>4 DEF Acknowledge, Settling, IsAnswered, IsBuried, IsSending, Holding
  <2>2. job[e].read.acked < job[e].item.sequence
    BY <1>2, <1>3, <1>4 DEF Acknowledge, SettledBefore
  <2>3. Sound => /\ job[e].item.event \in StoredEvents
                 /\ job[e].item.sequence > state.acked
    BY <1>1, <1>2, <1>4, <2>1, <2>2, Numbers DEF Acknowledge, Sound, ProcessOK
  <2>4. state' = Acknowledged(job[e].read, job[e].item.sequence)
    BY <1>4 DEF Acknowledge
  <2>5. /\ state' \in DeliveryState /\ state'.acked = job[e].item.sequence
        /\ state'.next = job[e].read.next
    BY <1>2, <1>3, <2>4, AcknowledgedFits
  <2>6. \/ queue' = queue
        \/ queue' = {} /\ \A q \in job[e].seen : ~ (q.sequence > job[e].item.sequence)
    BY <1>4 DEF Acknowledge
  <2>7. \E step \in QuietSteps : Goto(e, step)
    BY <1>4 DEF Acknowledge, Continue, QuietSteps
  <2>8. /\ job' = [job EXCEPT ![e] = NoJob]
        /\ UNCHANGED <<dead, owner, aged, strays, mishaps, linked, stored, returned>>
    BY <1>4 DEF Acknowledge, Settling
  <2> QED
    BY <1>1, <2>1, <2>2, <2>3, <2>5, <2>6, <2>7, <2>8 DEF Settles
<1>5. CASE SaveDeadLetter(e)
  <2>1. IsBuried(e) /\ Holding(e) /\ ~ IsSending(e)
    BY <1>5 DEF SaveDeadLetter, IsBuried, Holding, IsSending
  <2>2. Sound => job[e].item.event \in dead /\ job[e].item.sequence > state.acked
    BY <2>1 DEF Sound, ProcessOK
  <2>3. state' = Acknowledged(job[e].read, job[e].item.sequence)
    BY <1>5 DEF SaveDeadLetter
  <2>4. /\ state' \in DeliveryState /\ state'.acked = job[e].item.sequence
        /\ state'.next = job[e].read.next
    BY <1>2, <1>3, <2>3, AcknowledgedFits
  <2>5. \E step \in QuietSteps : Goto(e, step)
    BY <1>5 DEF SaveDeadLetter, Continue, QuietSteps
  <2>6. /\ job' = [job EXCEPT ![e] = NoJob] /\ queue' = queue
        /\ UNCHANGED <<dead, owner, aged, strays, mishaps, linked, stored, returned>>
    BY <1>5 DEF SaveDeadLetter
  <2> QED
    BY <1>1, <1>5, <2>1, <2>2, <2>4, <2>5, <2>6 DEF Settles
<1> QED
  BY <1>4, <1>5

LEMMA SettlingKeeps ==
    ASSUME Typed, NEW e \in Events, Settles(e)
    PROVE  Keeps
<1>1. PICK step \in QuietSteps : Goto(e, step)
  BY DEF Settles
<1>2. DataOK /\ step \in Steps /\ NoJob \in Job
  BY FirstRecords DEF Typed, QuietSteps, Steps, WorkerSteps
<1>3. /\ Release(e) /\ Carrying(e) /\ ~ IsSending(e) /\ job' = [job EXCEPT ![e] = NoJob]
      /\ state' \in DeliveryState /\ queue' \in {queue, {}}
      /\ UNCHANGED <<dead, owner, aged, strays, mishaps, linked, stored, returned>>
  BY DEF Settles
<1>4. /\ e \in inside /\ inside' = inside \ {e} /\ breakers' = breakers /\ overlap' = overlap
      /\ lock' = Null /\ e \notin inside' /\ e \notin breakers'
  BY <1>3 DEF Release, Typed, JobOK
<1>5. /\ OthersStay(e) /\ pc' \in [Events -> Steps] /\ pc'[e] = step
      /\ job' \in [Events -> Job] /\ inside' \subseteq Events /\ breakers' \subseteq Events
  BY <1>1, <1>2, <1>3, <1>4, Moving
<1>6. DataOK'
  BY <1>2, <1>3, <1>4, <1>5 DEF DataOK, Distinct
<1>7. pc[e] \notin {"KILLED", "TORN", "APPENDED", "IDLE"}
  BY <1>3 DEF Carrying, IsSending, IsAnswered, IsBuried
<1>8. job'[e].seen = {} /\ Distinct(job'[e].seen) /\ job'[e].read = NoJob.read
  BY <1>2, <1>3, NoJobIsEmpty
<1>9. JobOK(e)' /\ ProcessOK(e)' /\ ~ Carrying(e)' /\ e \in Done'
  BY <1>4, <1>5, <1>8, MovedOn
<1>10. Sent' \subseteq Sent
  BY <1>3, <1>5, <1>9, SentStays
<1>11. StoredEvents' = StoredEvents
  BY <1>3, StoredStays
<1>12. Heard' \subseteq Heard \cup {e}
  <2>1. queue' \subseteq queue /\ job'[e].seen \subseteq job[e].seen \cup queue
    BY <1>3, <1>8
  <2> QED
    BY <1>3, <1>5, <1>10, <2>1, HeardNothingNew
<1>13. NumbersCounted'
  <2>1. state'.next = job[e].read.next
    BY DEF Settles
  <2> QED
    BY <1>5, <1>8, <1>9, <2>1, CountUnread
<1>14. Typed'
  BY <1>5, <1>6, <1>9, <1>12, <1>13, JobsAfter DEF Typed
<1>15. Torn \subseteq Torn'
  BY <1>5, <1>7, TornStays
<1>16. ASSUME Sound PROVE Sound'
  BY <1>3, <1>5, <1>9, <1>11, <1>16, Released, SoundAfter
<1>17. ASSUME Sound, Ordered PROVE Ordered'
  <2>1. \A b \in EventsOf(queue) : pc[b] = "APPENDED" => pc'[b] = "APPENDED"
    BY <1>5, <1>7, NobodyElseAppended
  <2>2. PICK item \in Sent : item = job[e].item
    BY <1>3, CarriedItem
  <2>3. Sent \subseteq Item
    BY SentItems
  <2>4. ~ Holding(e) => job[e].seen = queue
    BY <1>4, <1>17, SeesTheFiles DEF Sees
  <2>5. job[e].read.next = state.next
    BY <1>4, <1>17 DEF Sound, ProcessOK
  <2>6. /\ item.event \in dead \cup StoredEvents
        /\ item.sequence > state.acked /\ state'.acked = item.sequence
        /\ state'.next = state.next
        /\ \/ queue' = queue
           \/ queue' = {} /\ \A q \in queue : ~ (q.sequence > item.sequence)
        /\ dead' = dead /\ stored' = stored /\ returned' = returned
    BY <1>17, <2>2, <2>4, <2>5 DEF Settles
  <2> QED
    BY ONLY <1>2, <1>10, <1>17, <2>1, <2>3, <2>6, OrderOfCheckpoint
<1> QED
  BY <1>4, <1>14, <1>15, <1>16, <1>17 DEF Keeps

LEMMA RetryingKeeps ==
    ASSUME Typed, NEW e \in Events, ScheduleRetry(e)
    PROVE  Keeps
<1>1. PICK step \in QuietSteps : Goto(e, step)
  BY DEF ScheduleRetry, Continue, QuietSteps
<1>2. DataOK /\ step \in Steps /\ NoJob \in Job
  BY FirstRecords DEF Typed, QuietSteps, Steps, WorkerSteps
<1>3. /\ IsAnswered(e) /\ Release(e) /\ job' = [job EXCEPT ![e] = NoJob]
      /\ UNCHANGED <<queue, dead, owner, aged, strays, mishaps, linked, stored, returned>>
  BY DEF ScheduleRetry, CountAttempt, Settling
<1>4. /\ e \in inside /\ inside' = inside \ {e} /\ breakers' = breakers /\ overlap' = overlap
      /\ lock' = Null /\ e \notin inside' /\ e \notin breakers'
  BY <1>3 DEF Release, Typed, JobOK
<1>5. /\ OthersStay(e) /\ pc' \in [Events -> Steps] /\ pc'[e] = step
      /\ job' \in [Events -> Job] /\ inside' \subseteq Events /\ breakers' \subseteq Events
  BY <1>1, <1>2, <1>3, <1>4, Moving
<1>6. Carrying(e) /\ pc[e] \notin {"KILLED", "TORN", "APPENDED", "IDLE"}
  BY <1>3 DEF Carrying, IsAnswered
<1>7. /\ job[e].item.sequence \in SequenceNumbers /\ job[e] \in Job
      /\ job[e].read \in DeliveryState
  BY <1>2, <1>6, CarriedItem, ReadNumbers DEF DataOK
<1>8. /\ job[e].attempts \in Nat /\ job[e].attempts + 1 <= MaxAttempts
  BY <1>7, LimitsAssumption DEF Job, ScheduleRetry, CountAttempt, Exhausted
<1>9. [attempts |-> job[e].attempts + 1, waiting |-> TRUE] \in Retry
  BY <1>8, LimitsAssumption DEF Retry
<1>10. /\ state' \in DeliveryState
       /\ state'.acked = job[e].read.acked /\ state'.next = job[e].read.next
  <2>1. state' = WithRetry(job[e].read, job[e].item.sequence,
                           [attempts |-> job[e].attempts + 1, waiting |-> TRUE])
    BY DEF ScheduleRetry, CountAttempt, WithRetry
  <2> QED
    BY <1>7, <1>9, <2>1, RetryFits
<1>11. DataOK'
  BY <1>2, <1>3, <1>4, <1>5, <1>10 DEF DataOK, Distinct
<1>12. job'[e].seen = {} /\ Distinct(job'[e].seen) /\ job'[e].read = NoJob.read
  BY <1>2, <1>3, NoJobIsEmpty
<1>13. JobOK(e)' /\ ProcessOK(e)' /\ ~ Carrying(e)' /\ e \in Done'
  BY <1>4, <1>5, <1>12, MovedOn
<1>14. Sent' \subseteq Sent
  BY <1>3, <1>5, <1>13, SentStays
<1>15. StoredEvents' = StoredEvents
  BY <1>3, StoredStays
<1>16. Heard' \subseteq Heard \cup {e}
  <2>1. queue' \subseteq queue /\ job'[e].seen \subseteq job[e].seen \cup queue
    BY <1>3, <1>12
  <2> QED
    BY <1>3, <1>5, <1>14, <2>1, HeardNothingNew
<1>17. NumbersCounted'
  BY <1>5, <1>10, <1>12, <1>13, CountUnread
<1>18. Typed'
  BY <1>5, <1>11, <1>13, <1>16, <1>17, JobsAfter DEF Typed
<1>19. Torn \subseteq Torn'
  BY <1>5, <1>6, TornStays
<1>20. ASSUME Sound PROVE Sound'
  BY <1>3, <1>5, <1>13, <1>15, <1>20, Released, SoundAfter
<1>21. ASSUME Sound, Ordered PROVE Ordered'
  <2>1. state'.acked = state.acked /\ state'.next = state.next
    BY <1>4, <1>10, <1>21 DEF Sound, ProcessOK
  <2>2. \A b \in EventsOf(queue) : pc[b] = "APPENDED" => pc'[b] = "APPENDED"
    BY <1>5, <1>6, NobodyElseAppended
  <2> QED
    BY <1>3, <1>14, <1>21, <2>1, <2>2, OrderAtRest
<1> QED
  BY <1>4, <1>18, <1>19, <1>20, <1>21 DEF Keeps

\* The job when the file has been written.
LEMMA WrittenFits ==
    ASSUME NEW j \in Job
    PROVE  /\ [j EXCEPT !.seen = {}] \in Job
           /\ [j EXCEPT !.seen = {}].item = j.item
           /\ [j EXCEPT !.seen = {}].answer = j.answer
           /\ [j EXCEPT !.seen = {}].read = j.read
           /\ [j EXCEPT !.seen = {}].seen = {}
BY DEF Job

LEMMA Written ==
    ASSUME Typed, NEW e \in Events, job' = [job EXCEPT ![e].seen = {}]
    PROVE  \E j \in Job : /\ job' = [job EXCEPT ![e] = j]
                          /\ j.item = job[e].item /\ j.answer = job[e].answer
                          /\ j.read = job[e].read /\ j.seen = {}
<1>1. job \in [Events -> Job] /\ job[e] \in Job
  BY DEF Typed, DataOK
<1>2. job' = [job EXCEPT ![e] = [job[e] EXCEPT !.seen = {}]]
  BY <1>1
<1>3. /\ [job[e] EXCEPT !.seen = {}] \in Job
      /\ [job[e] EXCEPT !.seen = {}].item = job[e].item
      /\ [job[e] EXCEPT !.seen = {}].answer = job[e].answer
      /\ [job[e] EXCEPT !.seen = {}].read = job[e].read
      /\ [job[e] EXCEPT !.seen = {}].seen = {}
  BY ONLY <1>1, WrittenFits
<1> QED
  BY <1>2, <1>3

LEMMA BuryingKeeps ==
    ASSUME Typed, NEW e \in Events, AppendDeadLetter(e)
    PROVE  Keeps
<1>1. /\ IsAnswered(e) /\ Stay(e) /\ Goto(e, BuriedAs(e))
      /\ ~ (job[e].read.acked >= job[e].item.sequence)
      /\ dead' = dead \cup {job[e].item.event}
      /\ job' = [job EXCEPT ![e].seen = {}]
      /\ UNCHANGED <<queue, state, owner, aged, strays, mishaps, linked, stored, returned>>
  BY DEF AppendDeadLetter, Settling, SettledBefore
<1>2. DataOK /\ BuriedAs(e) \in Steps
  BY DEF Typed, BuriedAs, Steps, WorkerSteps
<1>3. Carrying(e) /\ ~ Holding(e)
  BY <1>1 DEF Carrying, IsAnswered, Holding, IsBuried
<1>4. /\ job[e].item \in Item /\ job[e].item \in Sent /\ job[e].item.event \in Events
      /\ job[e].item.sequence \in Nat /\ job[e].read.acked \in Nat
  BY <1>3, CarriedItem, Numbers, ReadNumbers
<1>5. PICK j \in Job : /\ job' = [job EXCEPT ![e] = j]
                       /\ j.item = job[e].item /\ j.answer = job[e].answer
                       /\ j.read = job[e].read /\ j.seen = {}
  BY <1>1, Written
<1>6. /\ inside' = inside /\ breakers' = breakers /\ lock' = lock /\ overlap' = overlap
      /\ e \in inside /\ e \notin breakers
  BY <1>1 DEF Stay, lockVars, Typed, JobOK
<1>7. /\ OthersStay(e) /\ pc' \in [Events -> Steps] /\ pc'[e] = BuriedAs(e)
      /\ job' \in [Events -> Job] /\ job'[e] = j
  BY <1>1, <1>2, <1>5, <1>6, Moving DEF DataOK
<1>8. DataOK'
  BY <1>1, <1>2, <1>4, <1>6, <1>7 DEF DataOK, Distinct
<1>9. /\ ~ IsAnswered(e)' /\ Holding(e)' /\ IsBuried(e)' /\ Carrying(e)'
      /\ pc'[e] \notin {"IDLE", "APPENDED", "KILLED", "TORN"}
      /\ pc[e] \notin {"KILLED", "TORN", "APPENDED"}
  BY <1>1, <1>7 DEF Carrying, Holding, IsSending, IsAnswered, IsBuried, BuriedAs
<1>10. JobOK(e)'
  BY <1>4, <1>5, <1>6, <1>7, <1>9 DEF JobOK, Distinct
<1>11. Sent' \subseteq Sent
  <2>1. Sent' \subseteq Sent \cup {}
    BY <1>1, <1>4, <1>5, <1>7, SentStays
  <2> QED
    BY <2>1
<1>12. StoredEvents' = StoredEvents
  BY <1>1, StoredStays
<1>13. Heard' \subseteq Heard \cup {e}
  <2>1. queue' \subseteq queue /\ job'[e].seen \subseteq job[e].seen \cup queue
    BY <1>1, <1>5, <1>7
  <2> QED
    BY <1>1, <1>7, <1>11, <2>1, HeardNothingNew
<1>14. NumbersCounted'
  BY <1>1, <1>5, <1>7, <1>9, CountUnread DEF Done
<1>15. Typed'
  BY <1>7, <1>8, <1>10, <1>13, <1>14, JobsAfter DEF Typed
<1>16. Torn \subseteq Torn'
  BY <1>7, <1>9, TornStays
<1>17. ASSUME Sound PROVE Sound'
  <2>1. job[e].read.next = state.next /\ job[e].read.acked = state.acked
    BY <1>6, <1>17 DEF Sound, ProcessOK
  <2>2. ProcessOK(e)'
    BY <1>1, <1>4, <1>5, <1>7, <1>9, <2>1 DEF ProcessOK
  <2>3. lock = e /\ e \notin Killed'
    BY <1>6, <1>9, <1>17, Alone DEF Killed, Torn
  <2> QED
    BY <1>1, <1>6, <1>7, <1>12, <1>17, <2>2, <2>3, SoundAfter
<1>18. ASSUME Ordered PROVE Ordered'
  BY <1>1, <1>7, <1>9, <1>11, <1>18, NobodyElseAppended, OrderAtRest
<1> QED
  BY <1>6, <1>15, <1>16, <1>17, <1>18 DEF Keeps
-----------------------------------------------------------------------------
(* enqueueEvent.                                                            *)

\* A process that nobody has heard of does not occur in the queue.
LEMMA Unheard ==
    ASSUME Typed, NEW e \in Events, pc[e] = "IDLE"
    PROVE  /\ \A i \in queue \cup Sent : i.event # e
           /\ \A i \in Items(e) \cup Normalized(e) : i.event # e
<1>1. e \notin Heard
  BY DEF Typed, JobOK
<1>2. EventsOf(Normalized(e)) \subseteq Heard /\ EventsOf(Items(e)) \subseteq Heard
  BY ReadingAQueue
<1> QED
  BY <1>1, <1>2 DEF Heard, EventsOf

LEMMA MergedFits ==
    ASSUME NEW last \in Item, NEW e \in Events
    PROVE  \E m \in Item : /\ m = [last EXCEPT !.event = e]
                           /\ m.event = e /\ m.sequence = last.sequence
<1>1. /\ [last EXCEPT !.event = e] \in Item
      /\ [last EXCEPT !.event = e].event = e
      /\ [last EXCEPT !.event = e].sequence = last.sequence
  BY DEF Item
<1> QED
  BY <1>1

LEMMA MergingKeeps ==
    ASSUME Typed, NEW e \in Events, MergeHeartbeat(e)
    PROVE  Keeps
<1>1. /\ pc[e] = "IDLE" /\ Release(e) /\ e \in Heartbeats /\ Items(e) # {}
      /\ Last(Items(e)).event \in Heartbeats /\ Goto(e, "QUEUED")
      /\ queue' = SetItem(Normalized(e), [Last(Items(e)) EXCEPT !.event = e])
      /\ dead' = dead \cup Discarded(e) /\ returned' = returned \cup {e}
      /\ job' = [job EXCEPT ![e] = NoJob]
      /\ UNCHANGED <<state, owner, aged, strays, mishaps, linked, stored>>
  BY DEF MergeHeartbeat, Mergeable
<1>2. DataOK /\ "QUEUED" \in Steps /\ NoJob \in Job
  BY FirstRecords DEF Typed, Steps
<1>3. /\ e \in inside /\ inside' = inside \ {e} /\ breakers' = breakers /\ overlap' = overlap
      /\ lock' = Null /\ e \notin inside' /\ e \notin breakers'
  BY <1>1 DEF Release, Typed, JobOK
<1>4. /\ OthersStay(e) /\ pc' \in [Events -> Steps] /\ pc'[e] = "QUEUED"
      /\ job' \in [Events -> Job] /\ inside' \subseteq Events /\ breakers' \subseteq Events
  BY <1>1, <1>2, <1>3, Moving
<1>5. PICK last \in Item : /\ last = Last(Items(e)) /\ last \in Items(e)
                           /\ last.event \in Heartbeats
  BY <1>1, ReadsWell
<1>6. PICK m \in Item : /\ m = [last EXCEPT !.event = e]
                        /\ m.event = e /\ m.sequence = last.sequence
  BY ONLY <1>5, MergedFits
<1>7. /\ Normalized(e) \in SUBSET Item /\ Distinct(Normalized(e))
      /\ EventsOf(Normalized(e)) \subseteq Heard /\ Discarded(e) \subseteq Events
      /\ \A i \in Normalized(e) : i.event # m.event
  BY <1>1, <1>6, ReadingAQueue, Unheard
<1>8. queue' = SetItem(Normalized(e), m)
  BY <1>1, <1>5, <1>6
<1>9. /\ queue' \subseteq Item /\ Distinct(queue') /\ EventsOf(queue') \subseteq Heard \cup {e}
      /\ \A i \in Normalized(e) : i.sequence # last.sequence => i \in queue'
      /\ \A i \in queue' : i \in Normalized(e) \/ i = m
  <2>1. /\ SetItem(Normalized(e), m) \in SUBSET Item
        /\ Distinct(SetItem(Normalized(e), m))
        /\ \A i \in Normalized(e) : i.sequence # m.sequence => i \in SetItem(Normalized(e), m)
        /\ \A i \in SetItem(Normalized(e), m) : i \in Normalized(e) \/ i = m
        /\ EventsOf(SetItem(Normalized(e), m)) \subseteq EventsOf(Normalized(e)) \cup {m.event}
    BY ONLY <1>6, <1>7, WritingALine
  <2> QED
    BY <1>6, <1>7, <1>8, <2>1
<1>10. DataOK'
  BY <1>1, <1>2, <1>3, <1>4, <1>7, <1>9 DEF DataOK, Distinct
<1>11. job'[e].seen = {} /\ Distinct(job'[e].seen) /\ job'[e].read = NoJob.read
  BY <1>1, <1>2, NoJobIsEmpty
<1>12. JobOK(e)' /\ ProcessOK(e)' /\ ~ Carrying(e)' /\ e \in Done'
  BY <1>3, <1>4, <1>11, MovedOn
<1>13. Sent' \subseteq Sent
  BY <1>1, <1>4, <1>12, SentStays
<1>14. StoredEvents' = StoredEvents
  BY <1>1, StoredStays
<1>15. Heard' \subseteq Heard \cup {e}
  <2>1. EventsOf(Sent') \subseteq Heard /\ EventsOf(job'[e].seen) = {}
    BY <1>11, <1>13 DEF EventsOf, Heard
  <2> QED
    BY <1>1, <1>4, <1>9, <2>1, HeardAfter
<1>16. NumbersCounted'
  BY <1>1, <1>4, <1>11, <1>12, CountUnread
<1>17. Typed'
  BY <1>4, <1>10, <1>12, <1>15, <1>16, JobsAfter DEF Typed
<1>18. Torn \subseteq Torn'
  BY <1>1, <1>4, TornStays
<1>19. ASSUME Sound PROVE Sound'
  BY <1>1, <1>4, <1>12, <1>14, <1>19, Released, SoundAfter
<1>20. ASSUME Sound, Ordered PROVE Ordered'
  <2>1. Sees(e)
    BY <1>1, <1>3, <1>20, SeesTheFiles DEF Holding, IsBuried
  <2>2. Items(e) \subseteq Normalized(e) /\ Normalized(e) \subseteq queue
    BY <1>2, <2>1, ReadingTheQueue
  <2>3. last \in queue /\ last \in Normalized(e)
    BY <1>5, <2>2
  <2>4. \A q \in queue : q.sequence < state.next
    BY <1>1, <1>3, <1>20, NumbersTaken
  <2>5. \A i \in queue \cup Sent : i.event # e
    BY <1>1, Unheard
  <2>6. \A i, k \in queue \cup Sent : OwnNumber(i, k)
    BY <1>20 DEF Ordered, NumbersOwn
  <2>7. \A i \in queue' : i \in queue \/ i = m
    BY <1>9, <2>2
  <2>8. ASSUME NEW i \in queue' \cup Sent'
        PROVE  OwnNumber(i, m) /\ OwnNumber(m, i)
    <3>1. CASE i = m
      BY <3>1 DEF OwnNumber
    <3>2. CASE i \in queue \cup Sent
      <4>1. OwnNumber(i, last)
        BY <2>3, <2>6, <3>2
      <4>2. i.sequence = last.sequence => i.event \in Heartbeats
        BY <1>5, <4>1 DEF OwnNumber
      <4> QED
        BY <1>1, <1>6, <2>5, <3>2, <4>2 DEF OwnNumber
    <3> QED
      BY <1>13, <2>7, <3>1, <3>2
  <2>9. NumbersOwn'
    <3>1. \A i \in queue' : i.sequence < state'.next
      BY <1>1, <1>6, <2>3, <2>4, <2>7
    <3>2. \A i \in Sent' : i.sequence < state'.next
      BY <1>1, <1>13, <1>20 DEF Ordered, NumbersOwn
    <3>3. \A i, k \in queue' \cup Sent' : OwnNumber(i, k)
      BY <1>13, <2>6, <2>7, <2>8
    <3>4. state'.acked < state'.next
      BY <1>1, <1>20 DEF Ordered, NumbersOwn
    <3> QED
      BY <3>1, <3>2, <3>3, <3>4 DEF NumbersOwn, OwnNumber
  <2>10. SentInTurn'
    BY <1>1, <1>6, <1>13, <1>20, <2>3, <2>7 DEF Ordered, SentInTurn
  <2>11. \A q \in Normalized(e) : q.event \in Lifecycle => q \in queue'
    <3>1. ASSUME NEW q \in Normalized(e), q.event \in Lifecycle PROVE q.sequence # last.sequence
      BY <1>5, <1>7, <2>3, <3>1 DEF Distinct, Lifecycle
    <3> QED
      BY <1>9, <3>1
  <2>12. returned' \cap Lifecycle = returned \cap Lifecycle
    BY <1>1 DEF Lifecycle
  <2>13. \A i \in queue' : i \in queue \/ i.event \notin Lifecycle
    BY <1>1, <1>6, <2>7 DEF Lifecycle
  <2>14. /\ dead' = dead \cup Discarded(e) /\ stored' = stored /\ state'.acked = state.acked
         /\ \A i \in Sent' : i \in Sent \/ i \in queue'
         /\ \A i \in queue' :
                i \in queue \/ i.event \notin Lifecycle \/ ~ (i.sequence <= state.acked)
    BY <1>1, <1>13, <2>13
  <2> QED
    BY ONLY <1>2, <1>20, <2>1, <2>9, <2>10, <2>11, <2>12, <2>14, OrderOfReading
<1> QED
  BY <1>3, <1>17, <1>18, <1>19, <1>20 DEF Keeps

LEMMA AppendingKeeps ==
    ASSUME Typed, NEW e \in Events, AppendItem(e)
    PROVE  Keeps
<1>1. /\ pc[e] = "IDLE" /\ Stay(e) /\ Goto(e, "APPENDED")
      /\ queue' = SetItem(Normalized(e), [event |-> e, sequence |-> job[e].read.next])
      /\ dead' = dead \cup Discarded(e) /\ job' = [job EXCEPT ![e].seen = {}]
      /\ UNCHANGED <<state, owner, aged, strays, mishaps, linked, stored, returned>>
  BY DEF AppendItem
<1>2. DataOK /\ "APPENDED" \in Steps
  BY DEF Typed, Steps
<1>3. PICK j \in Job : /\ job' = [job EXCEPT ![e] = j]
                       /\ j.item = job[e].item /\ j.answer = job[e].answer
                       /\ j.read = job[e].read /\ j.seen = {}
  BY <1>1, Written
<1>4. /\ inside' = inside /\ breakers' = breakers /\ lock' = lock /\ overlap' = overlap
      /\ e \in inside /\ e \notin breakers
  BY <1>1 DEF Stay, lockVars, Typed, JobOK
<1>5. /\ OthersStay(e) /\ pc' \in [Events -> Steps] /\ pc'[e] = "APPENDED"
      /\ job' \in [Events -> Job] /\ job'[e] = j
  BY <1>1, <1>2, <1>3, <1>4, Moving DEF DataOK
<1>6. job[e].read.next \in SequenceNumbers
  <2>1. Done \in SUBSET (Events \ {e})
    BY <1>1 DEF Done
  <2>2. /\ IsFiniteSet(Events \ {e}) /\ Cardinality(Events \ {e}) = Cardinality(Events) - 1
    BY EventsAssumption, FS_RemoveElement
  <2>3. Cardinality(Done) <= Cardinality(Events) - 1
    BY <2>1, <2>2, FS_Subset
  <2>4. /\ Cardinality(Done) \in Nat /\ job[e].read \in DeliveryState
        /\ job[e].read.next \in Nat /\ job[e].read.next <= Cardinality(Done) + 1
    BY ReadNumbers
  <2>5. job[e].read.next >= 1
    BY <2>4, CountOfEvents DEF DeliveryState, SequenceNumbers
  <2> QED
    BY <2>3, <2>4, <2>5, CountOfEvents DEF SequenceNumbers
<1>7. PICK m \in Item : /\ m = [event |-> e, sequence |-> job[e].read.next]
                        /\ m.event = e /\ m.sequence = job[e].read.next
  <2>1. PICK m : m = [event |-> e, sequence |-> job[e].read.next]
    OBVIOUS
  <2>2. m \in Item /\ m.event = e /\ m.sequence = job[e].read.next
    BY <1>6, <2>1 DEF Item
  <2> QED
    BY <2>1, <2>2
<1>8. /\ Normalized(e) \in SUBSET Item /\ Distinct(Normalized(e))
      /\ EventsOf(Normalized(e)) \subseteq Heard /\ Discarded(e) \subseteq Events
      /\ \A i \in Normalized(e) : i.event # m.event
  BY <1>1, <1>7, ReadingAQueue, Unheard
<1>9. /\ queue' \subseteq Item /\ Distinct(queue') /\ EventsOf(queue') \subseteq Heard \cup {e}
      /\ m \in queue'
      /\ \A i \in Normalized(e) : i.sequence # m.sequence => i \in queue'
      /\ \A i \in queue' : i \in Normalized(e) \/ i = m
  <2>1. queue' = SetItem(Normalized(e), m)
    BY <1>1, <1>7
  <2>2. /\ SetItem(Normalized(e), m) \in SUBSET Item
        /\ Distinct(SetItem(Normalized(e), m))
        /\ m \in SetItem(Normalized(e), m)
        /\ \A i \in Normalized(e) : i.sequence # m.sequence => i \in SetItem(Normalized(e), m)
        /\ \A i \in SetItem(Normalized(e), m) : i \in Normalized(e) \/ i = m
        /\ EventsOf(SetItem(Normalized(e), m)) \subseteq EventsOf(Normalized(e)) \cup {m.event}
    BY ONLY <1>7, <1>8, WritingALine
  <2> QED
    BY <1>7, <1>8, <2>1, <2>2
<1>10. DataOK'
  BY <1>1, <1>2, <1>4, <1>5, <1>8, <1>9 DEF DataOK, Distinct
<1>11. /\ ~ Carrying(e)' /\ Holding(e)' /\ ~ IsBuried(e)' /\ ~ IsAnswered(e)'
       /\ pc'[e] \notin {"IDLE", "KILLED", "TORN"}
  BY <1>5 DEF Carrying, Holding, IsSending, IsAnswered, IsBuried
<1>12. JobOK(e)'
  BY <1>3, <1>4, <1>5, <1>11 DEF JobOK, Distinct
<1>13. Sent' \subseteq Sent
  BY <1>1, <1>5, <1>11, SentStays
<1>14. StoredEvents' = StoredEvents
  BY <1>1, StoredStays
<1>15. Heard' \subseteq Heard \cup {e}
  <2>1. EventsOf(Sent') \subseteq Heard /\ EventsOf(job'[e].seen) = {}
    BY <1>3, <1>5, <1>13 DEF EventsOf, Heard
  <2> QED
    BY <1>1, <1>5, <1>9, <2>1, HeardAfter
<1>16. NumbersCounted'
  <2>1. e \notin Done
    BY <1>1 DEF Done
  <2> QED
    BY <1>1, <1>3, <1>5, <2>1, CountUnread
<1>17. Typed'
  BY <1>5, <1>10, <1>12, <1>15, <1>16, JobsAfter DEF Typed
<1>18. Torn \subseteq Torn'
  BY <1>1, <1>5, TornStays
<1>19. ASSUME Sound
       PROVE  /\ Sees(e) /\ Free(e) /\ lock = e
              /\ job[e].read.next = state.next /\ job[e].read.acked = state.acked
  BY <1>1, <1>4, <1>19, SeesTheFiles, Alone DEF Sound, ProcessOK, Holding, IsBuried
<1>20. ASSUME Sound PROVE Sound'
  <2>1. e \notin Killed'
    BY <1>11 DEF Killed, Torn
  <2>2. ProcessOK(e)'
    BY <1>1, <1>3, <1>5, <1>7, <1>9, <1>11, <1>19, <1>20 DEF ProcessOK
  <2> QED
    BY <1>1, <1>4, <1>5, <1>14, <1>19, <1>20, <2>1, <2>2, SoundAfter
<1>21. ASSUME Sound, Ordered PROVE Ordered'
  <2>1. Items(e) \subseteq Normalized(e) /\ Normalized(e) \subseteq queue
    BY <1>2, <1>19, <1>21, ReadingTheQueue
  <2>2. \A q \in queue : q.sequence < state.next
    BY <1>1, <1>4, <1>21, NumbersTaken
  <2>3. \A i \in Sent : i.sequence < state.next
    BY <1>21 DEF Ordered, NumbersOwn
  <2>4. \A i \in queue \cup Sent : i.event # e /\ i.sequence \in Nat /\ state.next \in Nat
    BY <1>1, Unheard, Numbers
  <2>5. m.sequence = state.next /\ \A i \in queue \cup Sent : i.sequence # m.sequence
    BY <1>7, <1>19, <1>21, <2>2, <2>3, <2>4
  <2>6. \A i \in queue' : i \in queue \/ i = m
    BY <1>9, <2>1
  <2>7. NumbersOwn'
    <3>1. \A i \in queue' : \/ i.sequence < state'.next
                            \/ i.sequence = state'.next /\ pc'[i.event] = "APPENDED"
      BY <1>1, <1>5, <1>7, <2>2, <2>5, <2>6
    <3>2. \A i \in Sent' : i.sequence < state'.next
      BY <1>1, <1>13, <2>3
    <3>3. ASSUME NEW i \in queue' \cup Sent' PROVE i = m \/ i \in queue \cup Sent
      BY <1>13, <2>6
    <3>4. \A i, k \in queue \cup Sent : OwnNumber(i, k)
      BY <1>21 DEF Ordered, NumbersOwn
    <3>5. \A i \in queue \cup Sent : OwnNumber(i, m) /\ OwnNumber(m, i)
      BY <1>7, <2>4, <2>5 DEF OwnNumber
    <3>6. OwnNumber(m, m)
      BY DEF OwnNumber
    <3>7. \A i, k \in queue' \cup Sent' : OwnNumber(i, k)
      BY <3>3, <3>4, <3>5, <3>6
    <3>8. state'.acked < state'.next
      BY <1>1, <1>21 DEF Ordered, NumbersOwn
    <3> QED
      BY <3>1, <3>2, <3>7, <3>8 DEF NumbersOwn, OwnNumber
  <2>8. SentInTurn'
    <3>1. ASSUME NEW i \in Sent', NEW q \in queue', q.sequence < i.sequence
          PROVE  q.sequence <= state'.acked
      <4>1. q # m
        BY <1>13, <2>3, <2>4, <2>5, <3>1
      <4> QED
        BY <1>1, <1>13, <1>21, <2>6, <3>1, <4>1 DEF Ordered, SentInTurn
    <3> QED
      BY <3>1 DEF SentInTurn
  <2>9. \A q \in Normalized(e) : q.event \in Lifecycle => q \in queue'
    BY <1>9, <2>1, <2>5
  <2>10. \A i \in queue' : i \in queue \/ i.event \notin Lifecycle \/ ~ (i.sequence <= state.acked)
    <3>1. ~ (m.sequence <= state.acked)
      BY <1>21, <2>5, Numbers DEF Ordered, NumbersOwn
    <3> QED
      BY <2>6, <3>1
  <2>11. /\ dead' = dead \cup Discarded(e) /\ stored' = stored /\ state'.acked = state.acked
         /\ returned' \cap Lifecycle = returned \cap Lifecycle
         /\ \A i \in Sent' : i \in Sent \/ i \in queue'
    BY <1>1, <1>13
  <2> QED
    BY ONLY <1>2, <1>19, <1>21, <2>7, <2>8, <2>9, <2>10, <2>11, OrderOfReading
<1> QED
  BY <1>4, <1>17, <1>18, <1>20, <1>21 DEF Keeps

LEMMA SavingKeeps ==
    ASSUME Typed, NEW e \in Events, SaveNextSequence(e)
    PROVE  Keeps
<1>1. /\ pc[e] = "APPENDED" /\ Goto(e, "QUEUED") /\ Release(e)
      /\ state' = [job[e].read EXCEPT !.next = @ + 1]
      /\ job' = [job EXCEPT ![e] = NoJob] /\ returned' = returned \cup {e}
      /\ UNCHANGED <<queue, dead, owner, aged, strays, mishaps, linked, stored>>
  BY DEF SaveNextSequence
<1>2. /\ DataOK /\ "QUEUED" \in Steps /\ NoJob \in Job /\ job[e].read \in DeliveryState
      /\ job[e].read.next \in Nat /\ job[e].read.next <= Cardinality(Done) + 1
      /\ Cardinality(Done) \in Nat
  BY FirstRecords, ReadNumbers DEF Typed, Steps
<1>3. /\ e \in inside /\ inside' = inside \ {e} /\ breakers' = breakers /\ overlap' = overlap
      /\ lock' = Null /\ e \notin inside' /\ e \notin breakers'
  BY <1>1 DEF Release, Typed, JobOK
<1>4. /\ OthersStay(e) /\ pc' \in [Events -> Steps] /\ pc'[e] = "QUEUED"
      /\ job' \in [Events -> Job] /\ inside' \subseteq Events /\ breakers' \subseteq Events
  BY <1>1, <1>2, <1>3, Moving
<1>5. job'[e].seen = {} /\ Distinct(job'[e].seen) /\ job'[e].read = NoJob.read
  BY <1>1, <1>2, NoJobIsEmpty
<1>6. JobOK(e)' /\ ProcessOK(e)' /\ ~ Carrying(e)'
  BY <1>3, <1>4, <1>5, MovedOn
<1>7. IsFiniteSet(Done)
  BY EventsAssumption, FS_Subset DEF Done
<1>8. Done' = Done \cup {e} /\ e \notin Done
  BY <1>1, <1>4 DEF Done, OthersStay
<1>9. Cardinality(Done') = Cardinality(Done) + 1
  BY <1>7, <1>8, FS_AddElement
<1>10. Cardinality(Done') <= Cardinality(Events)
  BY EventsAssumption, FS_Subset DEF Done
<1>11. job[e].read.next + 1 <= Cardinality(Events) + 1
  BY <1>2, <1>9, <1>10, CountOfEvents
<1>12. /\ state' \in DeliveryState
       /\ state'.acked = job[e].read.acked /\ state'.next = job[e].read.next + 1
  <2>1. /\ [job[e].read EXCEPT !.next = @ + 1] \in DeliveryState
        /\ [job[e].read EXCEPT !.next = @ + 1].acked = job[e].read.acked
        /\ [job[e].read EXCEPT !.next = @ + 1].next = job[e].read.next + 1
    BY ONLY <1>2, <1>11, NextFits
  <2> QED
    BY <1>1, <2>1
<1>13. NumbersCounted'
  <2>1. state'.next <= Cardinality(Done') + 1
    BY <1>2, <1>9, <1>12
  <2>2. ASSUME NEW b \in Events PROVE job'[b].read.next <= Cardinality(Done') + 1
    <3>1. job'[b].read \in {job[b].read, NoJob.read}
      BY <1>4, <1>5 DEF OthersStay
    <3>2. /\ job'[b].read.next \in Nat /\ job'[b].read.next <= Cardinality(Done) + 1
      BY <3>1, ReadNumbers
    <3> QED
      BY <1>2, <1>9, <3>2
  <2> QED
    BY <2>1, <2>2 DEF NumbersCounted
<1>14. DataOK'
  BY <1>1, <1>2, <1>3, <1>4, <1>12 DEF DataOK, Distinct
<1>15. Sent' \subseteq Sent
  BY <1>1, <1>4, <1>6, SentStays
<1>16. StoredEvents' = StoredEvents
  BY <1>1, StoredStays
<1>17. Heard' \subseteq Heard \cup {e}
  <2>1. queue' \subseteq queue /\ job'[e].seen \subseteq job[e].seen \cup queue
    BY <1>1, <1>5
  <2> QED
    BY <1>1, <1>4, <1>15, <2>1, HeardNothingNew
<1>18. Typed'
  BY <1>4, <1>6, <1>13, <1>14, <1>17, JobsAfter DEF Typed
<1>19. Torn \subseteq Torn'
  BY <1>1, <1>4, TornStays
<1>20. ASSUME Sound PROVE Sound'
  BY <1>1, <1>4, <1>6, <1>16, <1>20, Released, SoundAfter
<1>21. ASSUME Sound, Ordered PROVE Ordered'
  <2>1. /\ state'.acked = state.acked /\ state'.next = state.next + 1
        /\ [event |-> e, sequence |-> state.next] \in queue
    BY <1>1, <1>3, <1>12, <1>21 DEF Sound, ProcessOK
  <2>2. NumbersOwn'
    <3>1. \A i \in queue : i.sequence < state.next + 1
      BY <1>21, Numbers DEF Ordered, NumbersOwn
    <3>2. \A i \in Sent : i.sequence < state.next + 1
      BY <1>21, Numbers DEF Ordered, NumbersOwn
    <3>3. state.acked < state.next + 1
      BY <1>21, Numbers DEF Ordered, NumbersOwn
    <3> QED
      BY <1>1, <1>15, <1>21, <2>1, <3>1, <3>2, <3>3 DEF Ordered, NumbersOwn, OwnNumber
  <2>3. SentInTurn' /\ SentIsKept'
    BY <1>1, <1>15, <1>21, <2>1 DEF Ordered, SentInTurn, SentIsKept
  <2>4. AckedIsSettled'
    BY <1>1, <1>15, <1>16, <1>21, <2>1 DEF Ordered, AckedIsSettled
  <2>5. ReturnedIsKept'
    <3>1. e \in EventsOf(queue)
      BY <2>1 DEF EventsOf
    <3> QED
      BY <1>1, <1>16, <1>21, <3>1 DEF Ordered, ReturnedIsKept, EventsOf
  <2>6. StoredInOrder'
    BY <1>1, <1>21 DEF Ordered, StoredInOrder, Late
  <2> QED
    BY <2>2, <2>3, <2>4, <2>5, <2>6 DEF Ordered
<1> QED
  BY <1>3, <1>18, <1>19, <1>20, <1>21 DEF Keeps
-----------------------------------------------------------------------------
(* The lock, and what else may happen.                                      *)

\* The job of a process that has read the files.
ReaderJob(j, s, items) == [j EXCEPT !.read = s, !.seen = items]

LEMMA EnterFits ==
    ASSUME NEW j \in Job, NEW s \in DeliveryState, NEW items \in SUBSET Item
    PROVE  /\ ReaderJob(j, s, items) \in Job
           /\ ReaderJob(j, s, items).item = j.item
           /\ ReaderJob(j, s, items).answer = j.answer
           /\ ReaderJob(j, s, items).read = s
           /\ ReaderJob(j, s, items).seen = items
BY DEF Job, ReaderJob

LEMMA EnteringKeeps ==
    ASSUME Typed, NEW e \in Events, Enter(e)
    PROVE  Keeps
<1>1. /\ TakesLock(e) /\ e \notin inside /\ e \notin breakers /\ lock = Null /\ lock' = e
      /\ inside' = inside \cup {e}
      /\ UNCHANGED <<queue, state, dead, breakers, overlap, owner, pc, aged, strays, mishaps,
                     linked, stored, returned>>
  BY DEF Enter, Waits
<1>2. /\ DataOK /\ job \in [Events -> Job] /\ job[e] \in Job /\ state \in DeliveryState
      /\ queue \in SUBSET Item
  BY DEF Typed, DataOK
<1>3. PICK j \in Job : /\ job' = [job EXCEPT ![e] = j]
                       /\ j.item = job[e].item /\ j.answer = job[e].answer
                       /\ j.read = state /\ j.seen = queue
  <2>1. PICK j \in Job : /\ j = ReaderJob(job[e], state, queue)
                         /\ j.item = job[e].item /\ j.answer = job[e].answer
                         /\ j.read = state /\ j.seen = queue
    BY ONLY <1>2, EnterFits
  <2>2. job' = [job EXCEPT ![e] = j]
    BY <1>2, <2>1 DEF Enter, ReaderJob
  <2> QED
    BY <2>1, <2>2
<1>4. /\ OthersStay(e) /\ job' \in [Events -> Job] /\ job'[e] = j /\ pc'[e] = pc[e]
      /\ inside' \subseteq Events
  BY <1>1, <1>2, <1>3 DEF OthersStay, DataOK
<1>5. DataOK'
  BY <1>1, <1>2, <1>4 DEF DataOK, Distinct
<1>6. /\ Carrying(e)' = Carrying(e) /\ Holding(e)' = Holding(e) /\ TakesLock(e)' = TakesLock(e)
      /\ pc[e] \notin {"TORN", "KILLED", "APPENDED"} /\ ~ Holding(e) /\ ~ IsBuried(e)
  BY <1>1 DEF Carrying, IsSending, IsAnswered, IsBuried, Holding, TakesLock, Attempting,
        InlineAttempt
<1>7. Sent' \subseteq Sent
  <2>1. Carrying(e)' => job'[e].item \in Sent \cup {}
    BY <1>3, <1>4, <1>6, CarriedItem
  <2>2. Sent' \subseteq Sent \cup {}
    BY <1>1, <1>4, <2>1, SentStays
  <2> QED
    BY <2>2
<1>8. Heard' \subseteq Heard
  <2>1. ASSUME NEW i \in Seen' PROVE i.event \in Heard
    <3>1. PICK b \in Events : i \in job'[b].seen
      BY <2>1 DEF Seen
    <3>2. i \in queue \cup Seen
      BY <1>3, <1>4, <3>1 DEF OthersStay, Seen
    <3> QED
      BY <3>2 DEF Heard, EventsOf
  <2>2. EventsOf(Seen') \subseteq Heard
    BY <2>1 DEF EventsOf
  <2>3. EventsOf(Sent') \subseteq Heard /\ EventsOf(queue') \subseteq Heard /\ returned' \subseteq Heard
    BY <1>1, <1>7 DEF Heard, EventsOf
  <2> QED
    BY <2>2, <2>3 DEF Heard, EventsOf
<1>9. JobOK(e)'
  <2>1. JobOK(e) /\ Distinct(queue)
    BY <1>2 DEF Typed, DataOK
  <2> QED
    BY <1>1, <1>3, <1>4, <1>6, <1>8, <2>1 DEF JobOK, Distinct
<1>10. NumbersCounted'
  BY <1>1, <1>3, <1>4, CountUnread DEF Done
<1>11. Heard' \subseteq Heard \cup {e}
  BY <1>8
<1>12. Typed'
  BY <1>4, <1>5, <1>9, <1>10, <1>11, JobsAfter DEF Typed
<1>13. Torn \subseteq Torn'
  BY <1>4, <1>6, TornStays
<1>14. StoredEvents' = StoredEvents
  BY <1>1, StoredStays
<1>15. ASSUME Sound PROVE Sound'
  <2>1. e \notin Killed'
    BY <1>4, <1>6 DEF Killed, Torn
  <2>2. ProcessOK(e)'
    BY <1>1, <1>3, <1>4, <1>6, <1>14, <1>15 DEF Sound, ProcessOK, IsAnswered, IsBuried, Holding
  <2> QED
    BY <1>1, <1>4, <1>14, <1>15, <2>1, <2>2, SoundAfter DEF Free
<1>16. ASSUME Ordered PROVE Ordered'
  BY <1>1, <1>7, <1>16, OrderAtRest
<1> QED
  BY <1>1, <1>12, <1>13, <1>15, <1>16 DEF Keeps

LEMMA KillingKeeps ==
    ASSUME Typed, NEW e \in Events, Kill(e)
    PROVE  Keeps
<1>1. PICK step \in {"KILLED", "TORN"} : Goto(e, step) /\ (pc[e] = "APPENDED" => step = "TORN")
  BY DEF Kill
<1>2. DataOK /\ step \in Steps /\ NoJob \in Job
  BY FirstRecords DEF Typed, Steps
<1>3. /\ job' = [job EXCEPT ![e] = NoJob]
      /\ UNCHANGED <<queue, state, dead, lock, overlap, owner, aged, linked, stored, returned>>
      /\ mishaps' = mishaps + 1 /\ mishaps < MaxMishaps
      /\ inside' = inside \ {e} /\ breakers' = breakers \ {e}
      /\ strays' = IF IsSending(e) THEN strays \cup {job[e].item} ELSE strays
  BY DEF Kill, Mishap
<1>4. pc[e] \notin {"KILLED", "TORN"}
  <2>1. /\ e \in inside => TakesLock(e) \/ Holding(e)
        /\ e \in breakers => TakesLock(e)
    BY DEF Typed, JobOK
  <2>2. TakesLock(e) \/ Holding(e) \/ IsRunning(e)
    BY <2>1 DEF Kill
  <2> QED
    BY <2>2 DEF TakesLock, Attempting, InlineAttempt, IsAnswered, Holding, IsBuried, IsRunning
<1>5. /\ OthersStay(e) /\ pc' \in [Events -> Steps] /\ pc'[e] = step
      /\ job' \in [Events -> Job] /\ inside' \subseteq Events /\ breakers' \subseteq Events
  BY <1>1, <1>2, <1>3, Moving
<1>6. IsSending(e) => job[e].item \in Item /\ job[e].item \in Sent
  BY CarriedItem DEF Carrying
<1>7. DataOK'
  <2>1. mishaps' \in 0..MaxMishaps
    BY <1>2, <1>3, LimitsAssumption DEF DataOK
  <2>2. strays' \subseteq Item
    BY <1>2, <1>3, <1>6 DEF DataOK
  <2> QED
    BY <1>2, <1>3, <1>5, <2>1, <2>2 DEF DataOK, Distinct
<1>8. job'[e].seen = {} /\ job'[e].read = NoJob.read
  BY <1>2, <1>3, NoJobIsEmpty
<1>9. /\ ~ Carrying(e)' /\ ~ Holding(e)' /\ ~ IsAnswered(e)' /\ ~ IsBuried(e)'
      /\ pc'[e] \notin {"IDLE", "APPENDED"} /\ e \in Killed'
  BY <1>5 DEF Carrying, Holding, IsSending, IsAnswered, IsBuried, Killed, Torn
<1>10. JobOK(e)' /\ ProcessOK(e)'
  BY <1>3, <1>8, <1>9 DEF JobOK, ProcessOK, Distinct
<1>11. Sent' \subseteq Sent
  <2>1. \A i \in strays' : i \in Sent
    BY <1>3, <1>6 DEF Sent
  <2>2. \A k \in 1..Len(stored') : stored'[k] \in Sent
    BY <1>3 DEF Sent
  <2>3. Sent' \subseteq Sent \cup {}
    BY <1>5, <1>9, <2>1, <2>2, SentAfter
  <2> QED
    BY <2>3
<1>12. StoredEvents' = StoredEvents
  BY <1>3, StoredStays
<1>13. Heard' \subseteq Heard \cup {e}
  <2>1. queue' \subseteq queue /\ job'[e].seen \subseteq job[e].seen \cup queue
    BY <1>3, <1>8
  <2> QED
    BY <1>3, <1>5, <1>11, <2>1, HeardNothingNew
<1>14. NumbersCounted'
  BY <1>3, <1>5, <1>8, <1>9, CountUnread DEF Done
<1>15. Typed'
  BY <1>5, <1>7, <1>10, <1>13, <1>14, JobsAfter DEF Typed
<1>16. Torn \subseteq Torn'
  BY <1>4, <1>5, TornStays
<1>17. ASSUME Sound PROVE Sound'
  BY <1>3, <1>5, <1>9, <1>10, <1>12, <1>17, SoundAfter
<1>18. ASSUME Ordered, Torn' = {} PROVE Ordered'
  <2>1. pc[e] # "APPENDED"
    BY <1>1, <1>5, <1>18 DEF Torn
  <2> QED
    BY <1>3, <1>5, <1>11, <1>18, <2>1, NobodyElseAppended, OrderAtRest
<1> QED
  BY <1>3, <1>15, <1>16, <1>17, <1>18 DEF Keeps

\* No process moves, and none comes in.
LEMMA SentUnmoved ==
    ASSUME pc' = pc, job' = job, \A i \in strays' : i \in Sent,
           \A k \in 1..Len(stored') : stored'[k] \in Sent
    PROVE  Sent' \subseteq Sent
<1>1. \A b \in Events : Carrying(b)' = Carrying(b)
  BY DEF Carrying, IsSending, IsAnswered, IsBuried
<1>2. \A b \in Events : Carrying(b) => job[b].item \in Sent
  BY DEF Sent
<1>3. ASSUME NEW i \in Sent' PROVE i \in Sent
  BY <1>1, <1>2, <1>3 DEF Sent
<1> QED
  BY <1>3

Rests ==
    /\ UNCHANGED <<queue, dead, inside, pc, job, returned>>
    /\ state'.next = state.next /\ state'.acked = state.acked
    /\ \A b \in breakers' \ breakers : TakesLock(b) /\ b \notin inside
    /\ \/ UNCHANGED <<lock, overlap>>
       \/ lock' = Null /\ overlap' = (overlap \/ lock \notin Killed \cup {Null})

LEMMA RestingKeeps ==
    ASSUME Typed, DataOK', Rests, StoredEvents \subseteq StoredEvents', Sent' \subseteq Sent,
           Ordered => Ordered'
    PROVE  Keeps
<1>1. Heard' \subseteq Heard
  <2>1. Seen' = Seen
    BY DEF Seen, Rests
  <2> QED
    BY <2>1 DEF Heard, EventsOf, Rests
<1>2. ASSUME NEW b \in Events PROVE JobOK(b)'
  <2>1. /\ JobOK(b) /\ pc' = pc /\ job' = job /\ inside' = inside
        /\ b \in breakers' => b \in breakers \/ (TakesLock(b) /\ b \notin inside)
    BY DEF Typed, Rests
  <2>2. /\ Carrying(b)' = Carrying(b) /\ Holding(b)' = Holding(b)
        /\ TakesLock(b)' = TakesLock(b)
    BY <2>1 DEF Carrying, IsSending, IsAnswered, IsBuried, Holding, TakesLock, Attempting,
          InlineAttempt
  <2> QED
    BY <1>1, <2>1, <2>2 DEF JobOK, Distinct
<1>3. NumbersCounted'
  BY DEF Typed, NumbersCounted, Done, Rests
<1>4. Typed'
  BY <1>2, <1>3 DEF Typed
<1>5. Torn' = Torn /\ Killed' = Killed
  BY DEF Torn, Killed, Rests
<1>6. overlap => overlap'
  BY DEF Rests, Typed, DataOK
<1>7. ASSUME Sound, ~ overlap' PROVE Sound'
  <2>1. ASSUME NEW b \in Events PROVE ProcessOK(b)'
    BY <1>7 DEF Sound, ProcessOK, Rests, Holding, IsAnswered, IsBuried
  <2>2. lock' = lock \/ (lock \in Killed \cup {Null} /\ lock' = Null)
    BY <1>7 DEF Rests, Typed, DataOK
  <2>3. OneInside'
    <3>1. ASSUME NEW b \in Events PROVE b \in inside' <=> lock' = b /\ b \notin Killed'
      <4>1. b \in inside <=> lock = b /\ b \notin Killed
        BY <1>7 DEF Sound, OneInside
      <4>2. inside' = inside
        BY DEF Rests
      <4> QED
        BY <1>5, <2>2, <4>1, <4>2, EventsAssumption
    <3> QED
      BY <3>1 DEF OneInside
  <2> QED
    BY <2>1, <2>3 DEF Sound
<1> QED
  BY <1>4, <1>5, <1>6, <1>7 DEF Keeps

\* Nor does anything reach the server.
LEMMA IdleKeeps ==
    ASSUME Typed, DataOK', Rests, stored' = stored, strays' = strays
    PROVE  Keeps
<1>1. StoredEvents' = StoredEvents
  BY StoredStays
<1>2. Sent' \subseteq Sent
  BY SentUnmoved DEF Sent, Rests
<1>3. Ordered => Ordered'
  BY <1>2, OrderAtRest DEF Rests
<1> QED
  BY <1>1, <1>2, <1>3, RestingKeeps

LEMMA ArrivingKeeps ==
    ASSUME Typed, NEW item \in strays, StrayArrives(item)
    PROVE  Keeps
<1>1. item \in Item /\ item \in Sent /\ DataOK
  BY DEF Typed, DataOK, Sent
<1>2. /\ stored' = stored \/ stored' = LedgerAfter(item)
      /\ strays' = strays \ {item}
      /\ UNCHANGED <<queue, state, dead, lockVars, owner, pc, job, aged, mishaps, linked, returned>>
  BY DEF StrayArrives
<1>3. /\ stored' \in Seq(Item) /\ StoredEvents \subseteq StoredEvents'
      /\ \A k \in 1..Len(stored') :
             stored'[k] = item \/ \E m \in 1..Len(stored) : stored'[k] = stored[m]
  <2>1. CASE stored' = stored
    BY <1>1, <2>1, StoredStays DEF DataOK
  <2>2. CASE stored' = LedgerAfter(item)
    BY <1>1, <2>2, LedgerFits
  <2> QED
    BY <1>2, <2>1, <2>2
<1>4. DataOK'
  BY <1>1, <1>2, <1>3 DEF DataOK, Distinct, lockVars
<1>5. Rests
  BY <1>2 DEF Rests, lockVars
<1>6. Sent' \subseteq Sent
  <2>1. \A i \in strays' : i \in Sent
    BY <1>2 DEF Sent
  <2>2. \A k \in 1..Len(stored') : stored'[k] \in Sent
    BY <1>1, <1>3 DEF Sent
  <2> QED
    BY <1>2, <2>1, <2>2, SentUnmoved
<1>7. ASSUME Ordered PROVE Ordered'
  <2>1. CASE stored' = stored
    BY <1>2, <1>6, <1>7, <2>1, OrderAtRest
  <2>2. CASE stored' = LedgerAfter(item)
    BY <1>1, <1>2, <1>6, <1>7, <2>2, SentItems, OrderOfArrival
  <2> QED
    BY <1>2, <2>1, <2>2
<1> QED
  BY <1>3, <1>4, <1>5, <1>6, <1>7, RestingKeeps

LEMMA OtherStepsKeep ==
    ASSUME Typed,
           \/ \E e \in Events : SeeStaleLock(e) \/ (RemoveLock(e) /\ UNCHANGED <<pc, job>>) \/ Age(e)
           \/ \E n \in SequenceNumbers : WaitOver(n)
           \/ Revoke
    PROVE  Keeps
<1>1. DataOK
  BY DEF Typed
<1>2. CASE \E e \in Events : SeeStaleLock(e)
  <2>1. PICK e \in Events : SeeStaleLock(e)
    BY <1>2
  <2>2. DataOK'
    BY <1>1, <2>1 DEF SeeStaleLock, DataOK, Distinct
  <2>3. Rests
    BY <2>1 DEF SeeStaleLock, Waits, Rests
  <2> QED
    BY <2>1, <2>2, <2>3, IdleKeeps DEF SeeStaleLock
<1>3. CASE \E e \in Events : RemoveLock(e) /\ UNCHANGED <<pc, job>>
  <2>1. PICK e \in Events : RemoveLock(e) /\ UNCHANGED <<pc, job>>
    BY <1>3
  <2>2. DataOK'
    BY <1>1, <2>1 DEF RemoveLock, DataOK, Distinct
  <2>3. Rests
    BY <2>1 DEF RemoveLock, Rests
  <2> QED
    BY <2>1, <2>2, <2>3, IdleKeeps DEF RemoveLock
<1>4. CASE \E n \in SequenceNumbers : WaitOver(n)
  <2>1. PICK n \in SequenceNumbers : WaitOver(n)
    BY <1>4
  <2>2. /\ state' = [state EXCEPT !.retries[n].waiting = FALSE]
        /\ UNCHANGED <<queue, dead, lockVars, owner, pc, job, aged, strays, mishaps, linked, stored,
                       returned>>
    BY <2>1 DEF WaitOver
  <2>3. state \in DeliveryState /\ state.retries[n] \in Retry
    BY <1>1 DEF DataOK, DeliveryState
  <2>4. PICK retry : retry = [state.retries[n] EXCEPT !.waiting = FALSE]
    OBVIOUS
  <2>5. retry \in Retry
    BY <2>3, <2>4 DEF Retry
  <2>6. state' = WithRetry(state, n, retry)
    BY <2>2, <2>3, <2>4 DEF WithRetry, DeliveryState
  <2>7. state' \in DeliveryState /\ state'.acked = state.acked /\ state'.next = state.next
    BY <2>3, <2>5, <2>6, RetryFits
  <2>8. DataOK'
    BY <1>1, <2>2, <2>7 DEF DataOK, Distinct, lockVars
  <2>9. Rests
    BY <2>2, <2>7 DEF Rests, lockVars
  <2> QED
    BY <2>2, <2>8, <2>9, IdleKeeps
<1>5. CASE \E e \in Events : Age(e)
  <2>1. PICK e \in Events : Age(e)
    BY <1>5
  <2>2. DataOK'
    BY <1>1, <2>1, LimitsAssumption DEF Age, Mishap, DataOK, Distinct, lockVars
  <2>3. Rests
    BY <2>1 DEF Age, Rests, lockVars
  <2> QED
    BY <2>1, <2>2, <2>3, IdleKeeps DEF Age
<1>6. CASE Revoke
  <2>1. mishaps' \in 0..MaxMishaps /\ linked' = FALSE
    BY <1>1, <1>6, LimitsAssumption DEF Revoke, Mishap, DataOK
  <2>2. UNCHANGED <<queue, state, dead, lockVars, owner, pc, job, aged, strays, stored, returned>>
    BY <1>6 DEF Revoke
  <2>3. DataOK'
    BY <1>1, <2>1, <2>2 DEF DataOK, Distinct, lockVars
  <2>4. Rests
    BY <2>2 DEF Rests, lockVars
  <2> QED
    BY <2>2, <2>3, <2>4, IdleKeeps
<1> QED
  BY <1>2, <1>3, <1>4, <1>5, <1>6
-----------------------------------------------------------------------------
(* The theorems.                                                            *)

LEMMA InitIInv == Init => IInv
<1> SUFFICES ASSUME Init PROVE IInv
  OBVIOUS
<1>1. DataOK
  <2>1. stored \in Seq(Item) /\ Len(stored) = 0
    BY DEF Init
  <2>2. overlap \in BOOLEAN /\ linked \in BOOLEAN /\ Distinct(queue)
    BY DEF Init, Distinct
  <2>3. /\ state \in DeliveryState /\ pc \in [Events -> Steps] /\ job \in [Events -> Job]
        /\ mishaps \in 0..MaxMishaps
    BY FirstRecords, LimitsAssumption DEF Init, Steps
  <2> QED
    BY <2>1, <2>2, <2>3 DEF Init, DataOK
<1>2. \A e \in Events : /\ ~ Carrying(e) /\ ~ Holding(e) /\ ~ IsAnswered(e) /\ ~ IsBuried(e)
                        /\ pc[e] = "IDLE" /\ job[e].seen = {}
  BY DEF Init, Carrying, Holding, IsSending, IsAnswered, IsBuried, NoJob
<1>3. Len(stored) = 0
  BY DEF Init
<1>4. Sent = {} /\ Seen = {}
  BY <1>2, <1>3 DEF Init, Sent, Seen
<1>5. Heard = {} /\ StoredEvents = {}
  BY <1>3, <1>4 DEF Init, Heard, EventsOf, StoredEvents
<1>6. \A e \in Events : JobOK(e)
  BY <1>2, <1>5 DEF Init, JobOK, Distinct
<1>7. Sound
  BY <1>2, EventsAssumption DEF Init, Sound, OneInside, ProcessOK
<1>8. NumbersCounted
  <2>1. Done = {}
    BY <1>2 DEF Done
  <2>2. Cardinality(Done) = 0 /\ state.next = 1
    BY <2>1, FirstRecords, FS_EmptySet DEF Init
  <2>3. \A e \in Events : job[e].read.next = 1
    BY FirstRecords DEF Init, NoJob
  <2> QED
    BY <2>2, <2>3 DEF NumbersCounted
<1>9. Ordered
  <2>1. NumbersOwn
    BY <1>4, FirstRecords DEF Init, NumbersOwn
  <2>2. SentInTurn /\ SentIsKept /\ AckedIsSettled /\ ReturnedIsKept
    BY <1>4 DEF Init, SentInTurn, SentIsKept, AckedIsSettled, ReturnedIsKept
  <2>3. StoredInOrder
    BY <1>3 DEF StoredInOrder
  <2> QED
    BY <2>1, <2>2, <2>3 DEF Ordered
<1> QED
  BY <1>1, <1>6, <1>7, <1>8, <1>9 DEF IInv, Typed

LEMMA NextKeeps ==
    ASSUME Typed, Next
    PROVE  Keeps
<1>1. CASE \E e \in Events : Enqueue(e)
  BY <1>1, MergingKeeps, AppendingKeeps, SavingKeeps DEF Enqueue
<1>2. ASSUME NEW e \in Events, Deliver(e)
      PROVE  Keeps
  <2>1. CASE FindEmpty(e) \/ FindWaiting(e) \/ Prepare(e)
    BY <2>1, ReadActions, ReadingKeeps
  <2>2. CASE ServerAnswers(e) \/ ServerRefuses(e) \/ ServerDenies(e) \/ NoAnswer(e)
    BY <2>2, AnswerActions, AnsweringKeeps
  <2>3. CASE \/ LaunchWorker(e) \/ RemoveStale(e) \/ RemakeDirectory(e) \/ WriteOwner(e)
             \/ LeaveWorker(e) \/ FindSettled(e) \/ BlockOnAuth(e)
    BY <2>3, QuietActions, MovingOnKeeps
  <2>4. CASE Acknowledge(e) \/ SaveDeadLetter(e)
    BY <2>4, SettleActions, SettlingKeeps
  <2>5. CASE ScheduleRetry(e)
    BY <2>5, RetryingKeeps
  <2>6. CASE AppendDeadLetter(e)
    BY <2>6, BuryingKeeps
  <2> QED
    BY <1>2, <2>1, <2>2, <2>3, <2>4, <2>5, <2>6 DEF Deliver
<1>3. CASE \E e \in Events : Enter(e)
  BY <1>3, EnteringKeeps
<1>4. CASE \E e \in Events : GiveUpLock(e) \/ (RemoveLock(e) /\ Abandon(e))
  BY <1>4, QuietActions, MovingOnKeeps
<1>5. CASE \E e \in Events : Kill(e)
  BY <1>5, KillingKeeps
<1>6. CASE \E item \in strays : StrayArrives(item)
  BY <1>6, ArrivingKeeps
<1>7. CASE \/ \E e \in Events : SeeStaleLock(e) \/ (RemoveLock(e) /\ UNCHANGED <<pc, job>>) \/ Age(e)
           \/ \E n \in SequenceNumbers : WaitOver(n)
           \/ Revoke
  BY <1>7, OtherStepsKeep
<1>8. \A e \in Events : RemoveLock(e) => Abandon(e) \/ UNCHANGED <<pc, job>>
  BY DEF RemoveLock
<1> QED
  BY <1>1, <1>2, <1>3, <1>4, <1>5, <1>6, <1>7, <1>8 DEF Next

LEMMA NextIInv == IInv /\ [Next]_vars => IInv'
<1>1. ASSUME IInv, Next PROVE IInv'
  <2>1. Keeps
    BY <1>1, NextKeeps DEF IInv
  <2>2. overlap \in BOOLEAN
    BY <1>1 DEF IInv, Typed, DataOK
  <2> QED
    BY <1>1, <2>1, <2>2 DEF Keeps, IInv
<1>2. ASSUME IInv, UNCHANGED vars PROVE IInv'
  BY <1>2 DEF vars, IInv, Typed, DataOK, Distinct, JobOK, Sound, OneInside, ProcessOK,
        NumbersCounted, Ordered, NumbersOwn, OwnNumber, SentInTurn, SentIsKept, AckedIsSettled,
        ReturnedIsKept, StoredInOrder, Sent, Seen, Heard, EventsOf, StoredEvents, Late, Done,
        Torn, Killed, Carrying, Holding, IsBuried, IsSending, IsAnswered, TakesLock, Attempting,
        InlineAttempt
<1> QED
  BY <1>1, <1>2

THEOREM InductiveInvariant == Spec => []IInv
<1> HIDE DEF IInv
<1> QED
  BY InitIInv, NextIInv, PTL DEF Spec

\* The files and the processes keep their types, a number belongs to one event
\* in the queue whatever becomes of the lock, and unless the directory of a
\* process inside was removed, the directory is that of the only process inside
\* or of one that was killed there.
THEOREM TypeCorrectness == Spec => []TypeOK
<1>1. IInv => TypeOK
  BY DEF IInv, Typed, DataOK, Distinct, Sound, TypeOK
<1> HIDE DEF IInv, TypeOK
<1> QED
  BY <1>1, InductiveInvariant, PTL

\* A lifecycle event whose enqueueEvent returned waits in the queue, is a dead
\* letter or is at the server, whatever else happens, unless a process was
\* killed between the append and the write of the next number, or the directory
\* of a process inside was removed by one that waited.
THEOREM NothingLostUnlessTorn == Spec => []LostOnlyWhenTorn
<1>1. ASSUME IInv, Torn = {}, ~ overlap PROVE NothingLost
  <2>1. Ordered /\ DataOK
    BY <1>1 DEF IInv, Typed
  <2>2. ASSUME NEW e \in returned \cap Lifecycle
        PROVE  IsQueued(e) \/ e \in dead \cup StoredEvents
    <3>1. CASE e \in EventsOf(queue)
      <4>1. PICK q \in queue : q.event = e
        BY <3>1 DEF EventsOf
      <4>2. q.sequence \in Nat /\ state.acked \in Nat
        BY <2>1, CountOfEvents DEF DataOK, DeliveryState, Item, SequenceNumbers
      <4>3. CASE q.sequence <= state.acked
        BY <2>1, <2>2, <4>1, <4>3 DEF Ordered, AckedIsSettled
      <4>4. CASE q.sequence > state.acked
        BY <4>1, <4>4 DEF IsQueued, EventsOf, Unacked
      <4> QED
        BY <4>2, <4>3, <4>4
    <3> QED
      BY <2>1, <2>2, <3>1 DEF Ordered, ReturnedIsKept
  <2> QED
    BY <2>2 DEF NothingLost
<1>2. IInv => LostOnlyWhenTorn
  BY <1>1 DEF LostOnlyWhenTorn
<1> HIDE DEF IInv, LostOnlyWhenTorn
<1> QED
  BY <1>2, InductiveInvariant, PTL

\* The server receives the events in the order of their numbers, heartbeats and
\* what was given up aside, under the same two conditions.
THEOREM ServerOrder == Spec => []InOrder
<1>1. IInv => InOrder
  BY DEF IInv, Ordered, StoredInOrder, InOrder
<1> HIDE DEF IInv, InOrder
<1> QED
  BY <1>1, InductiveInvariant, PTL

\* The checkpoint and the next number never go back, however the processes
\* interleave and wherever they are killed, until the directory of a process
\* inside is removed.
Forward == state'.acked >= state.acked /\ state'.next >= state.next
ForwardWhenOne == ~overlap' => Forward

LEMMA StepGoesForward ==
    ASSUME IInv, [Next]_vars
    PROVE  ForwardWhenOne
<1> SUFFICES ASSUME ~overlap' PROVE Forward
  BY DEF ForwardWhenOne
<1>1. /\ Typed /\ DataOK /\ state.acked \in Nat /\ state.next \in Nat /\ state \in DeliveryState
      /\ overlap \in BOOLEAN
  BY Numbers DEF IInv, Typed, DataOK
<1>2. CASE state' = state
  BY <1>1, <1>2 DEF Forward
<1>3. ~ overlap
  <2>1. CASE Next
    BY <1>1, <2>1, NextKeeps DEF Keeps
  <2>2. CASE UNCHANGED vars
    BY <2>2 DEF vars
  <2> QED
    BY <2>1, <2>2
<1>4. Sound
  BY <1>3 DEF IInv
<1>5. ASSUME NEW e \in Events, e \in inside
      PROVE  /\ job[e].read.next = state.next /\ job[e].read.acked = state.acked
             /\ job[e].read \in DeliveryState
  BY <1>1, <1>4, <1>5 DEF Sound, ProcessOK, DataOK, Job
<1>6. CASE \E e \in Events : Acknowledge(e) \/ SaveDeadLetter(e)
  <2>1. PICK e \in Events : Acknowledge(e) \/ SaveDeadLetter(e)
    BY <1>6
  <2>2. Settles(e)
    BY <1>1, <2>1, SettleActions
  <2>3. job[e].item.sequence \in Nat /\ e \in inside
    BY <1>1, <2>2, CarriedItem, CountOfEvents DEF Settles, Release, SequenceNumbers
  <2>4. job[e].read.next = state.next
    BY <1>5, <2>3
  <2> QED
    BY <1>1, <1>4, <2>2, <2>3, <2>4 DEF Settles, Forward
<1>7. CASE \E e \in Events : ScheduleRetry(e)
  <2>1. PICK e \in Events : ScheduleRetry(e)
    BY <1>7
  <2>2. /\ state' = [job[e].read EXCEPT !.retries[job[e].item.sequence] =
                         [attempts |-> job[e].attempts + 1, waiting |-> TRUE]]
        /\ e \in inside
    BY <2>1 DEF ScheduleRetry, CountAttempt, Settling
  <2>3. state'.acked = state.acked /\ state'.next = state.next
    BY <1>5, <2>2 DEF DeliveryState
  <2> QED
    BY <1>1, <2>3 DEF Forward
<1>8. CASE \E e \in Events : SaveNextSequence(e)
  <2>1. PICK e \in Events : SaveNextSequence(e)
    BY <1>8
  <2>2. state' = [job[e].read EXCEPT !.next = @ + 1] /\ e \in inside
    BY <2>1 DEF SaveNextSequence, Release
  <2>3. state'.acked = state.acked /\ state'.next = state.next + 1
    BY <1>5, <2>2 DEF DeliveryState
  <2> QED
    BY <1>1, <2>3 DEF Forward
<1>9. CASE \E n \in SequenceNumbers : WaitOver(n)
  <2>1. state'.acked = state.acked /\ state'.next = state.next
    BY <1>1, <1>9 DEF WaitOver, DeliveryState
  <2> QED
    BY <1>1, <2>1 DEF Forward
<1>10. CASE \/ \E item \in strays : StrayArrives(item)
            \/ \E e \in Events : \/ Enter(e) \/ GiveUpLock(e) \/ SeeStaleLock(e) \/ RemoveLock(e)
                                 \/ MergeHeartbeat(e) \/ AppendItem(e) \/ Age(e) \/ Kill(e)
            \/ Revoke
            \/ UNCHANGED vars
  BY <1>2, <1>10 DEF StrayArrives, Enter, GiveUpLock, SeeStaleLock, RemoveLock, MergeHeartbeat,
        AppendItem, Age, Kill, Revoke, vars
<1>11. ASSUME NEW e \in Events,
              \/ FindEmpty(e) \/ FindWaiting(e) \/ Prepare(e)
              \/ ServerAnswers(e) \/ ServerRefuses(e) \/ ServerDenies(e) \/ NoAnswer(e)
              \/ FindSettled(e) \/ BlockOnAuth(e) \/ AppendDeadLetter(e)
              \/ LaunchWorker(e) \/ RemoveStale(e) \/ RemakeDirectory(e) \/ WriteOwner(e)
              \/ LeaveWorker(e)
       PROVE  Forward
  <2>1. state' = state
    BY <1>11 DEF FindEmpty, FindWaiting, Prepare, ReadUnderLock, ServerAnswers, ServerRefuses,
          ServerDenies, NoAnswer, Answer, FindSettled, BlockOnAuth, AppendDeadLetter,
          LaunchWorker, RemoveStale, RemakeDirectory, LaunchStep, WriteOwner, LeaveWorker
  <2> QED
    BY <1>2, <2>1
<1> QED
  BY <1>6, <1>7, <1>8, <1>9, <1>10, <1>11 DEF Next, Enqueue, Deliver

THEOREM CheckpointNeverBack == Spec => CheckpointMonotone
<1>1. IInv /\ [Next]_vars => [ForwardWhenOne]_vars
  BY StepGoesForward
<1>2. [][ForwardWhenOne]_vars => CheckpointMonotone
  BY DEF Forward, ForwardWhenOne, CheckpointMonotone
<1> HIDE DEF IInv, ForwardWhenOne, CheckpointMonotone
<1> QED
  BY <1>1, <1>2, InductiveInvariant, PTL DEF Spec
=============================================================================
