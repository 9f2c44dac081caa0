-------------------------- MODULE DiscoverFeedProps --------------------------
(* The properties of DiscoverFeed.                                          *)
EXTENDS DiscoverFeed

\* Every variable keeps its type; the lock is held by the one instance that is
\* in the middle of its transaction.
TypeOK ==
    /\ kind \in Kinds
    /\ cache \in 0 .. clock
    /\ \A i \in Instances : (lock = i) <=> refresh[i].step \in {"RECHECK", "CALL", "WRITE"}
    /\ \A i \in Instances : refresh[i].call \in 0 .. Len(kind.calls) /\ refresh[i].cached \in 0 .. clock
    /\ orphans \subseteq [instance : Instances, since : 0 .. clock]
    /\ \A r \in Requests :
           /\ requests[r].step \in {"IDLE", "READ", "WAIT", "DONE"}
           /\ requests[r].answer.status \in {"NONE", "FRESH", "STALE", "UNAVAILABLE"}
           /\ requests[r].step = "WAIT" => refresh[requests[r].instance].step # "NONE"

\* "A losing instance serves bounded stale data or an unavailable status instead
\* of multiplying upstream calls" (DISCOVER_CONTRACT.md:57-58): while one
\* instance is in a call no other is, and none asks for a row that is fresh.
OneUpstreamRefresh ==
    \A i \in Instances : At(i, "CALL") =>
        /\ \A j \in Instances \ {i} : ~At(j, "CALL")
        /\ cache # Never => refresh[i].at - cache >= FreshFor

Parallel == \E k \in DOMAIN kind.calls : kind.calls[k].width > 1

\* What may run upstream beside that refresh, without the lock: requests that a
\* failed refresh had made in one Promise.all with the one that failed, as Hacker
\* News does, and no longer than the timeouts allow.  Of the other sources one
\* request runs at a time, over all instances.
OnlyOrphansBeside ==
    /\ \A o \in orphans : Parallel /\ clock - o.since <= RefreshTime
    /\ \A i \in Instances : Open(i) > 1 => Parallel

\* An instance leaves a method alone for as long as its last answer asked for,
\* over refreshes that fail and are begun again by later requests.
BackoffHonoured ==
    \A i \in Instances : At(i, "CALL") =>
        LET asked == last[CallOf(i).method] IN asked.by = i => refresh[i].at >= asked.again

\* All hold in every state: no call is made that a lock or a backoff forbids.
UpstreamSpared == OneUpstreamRefresh /\ OnlyOrphansBeside /\ BackoffHonoured

\* No answer holds items older than the maximum stale age, and one that says
\* FRESH holds items that were fresh while it was made, for every request that
\* waited for a refresh that another request, or another instance, had begun.
AnswersBounded ==
    \A r \in Requests :
        LET answer == requests[r].answer IN
        /\ answer.entry # Never => answer.at - answer.entry <= MaxStale
        /\ answer.status = "FRESH" => answer.at - answer.entry < FreshFor + RefreshTime

\* A request that has read the row is not answered with older items because the
\* refresh it joined had read an older one; only a failed read lets that happen.
NeverOlder ==
    \A r \in Requests :
        requests[r].step = "DONE" /\ ~requests[r].readFailed /\ requests[r].answer.entry # Never
        => requests[r].answer.entry >= requests[r].cached

\* Both hold in every state: the age of what is answered.
AnswersInTime == AnswersBounded /\ NeverOlder
=============================================================================
