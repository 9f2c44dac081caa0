---------------------------- MODULE DiscoverFeed ----------------------------
(***************************************************************************)
(* How the items of one Discover source reach the users: API instances     *)
(* share a row of discover_source_cache and an advisory lock, and each has *)
(* its own in-flight refresh and its own request gate.  A request that     *)
(* finds the row stale joins or starts the refresh of its instance; the    *)
(* instance that gets the lock asks the upstream service, the others serve *)
(* what there is.  Sources share nothing, so one is modelled, of any kind. *)
(*                                                                         *)
(* The items of a refresh are abstracted to the time they were fetched at. *)
(***************************************************************************)
EXTENDS DiscoverItems

CONSTANTS
    Instances, Requests, Null,
    Kinds,         \* the adapters to model
    Replies,       \* what the upstream service may reply
    Pages,         \* the pages in its replies
    FeedCount,     \* how many HACKER_NEWS_FEEDS there are
    Minute,        \* MINIMUM_REQUEST_INTERVAL_MS of the Stack Exchange gate
    Waits,         \* the times for which the service may refuse requests
    FreshFor,      \* cachePolicy.freshForMs
    MaxStale,      \* cachePolicy.maxStaleMs
    PurgeAge,      \* CACHE_PURGE_THRESHOLD
    Retention,     \* CACHE_RETENTION_DAYS
    RefreshTime,   \* what the timeouts of the HTTP client let a refresh take
    MaxAsked,      \* bound on requests
    MaxFaults,     \* bound on restarts and failed reads
    MaxClock       \* bound on the model's clock

ASSUME FeedAssumption ==
    /\ {Minute, FreshFor, MaxStale, PurgeAge, Retention, RefreshTime} \subseteq Nat \ {0}
    /\ RefreshTime < FreshFor /\ FreshFor <= MaxStale
    /\ MaxStale < PurgeAge /\ PurgeAge < Retention
    /\ Waits \subseteq Nat /\ MaxClock \in Nat /\ FeedCount \in Nat \ {0}
    /\ Null \notin Instances

VARIABLES
    kind,      \* the adapter of the source
    cache,     \* refreshed_at of the source's row, Never without one
    lock,      \* the instance whose transaction holds the advisory lock
    refresh,   \* what inFlightRefreshes holds, by instance
    orphans,   \* the failed refreshes of which requests still run upstream
    gate,      \* by instance: when each method may be requested again
    requests,
    last,      \* by method: who asked last, when, and from when it may again
    clock,
    left       \* the requests and faults that the bounds still allow

vars == <<kind, cache, lock, refresh, orphans, gate, requests, last, clock, left>>
-----------------------------------------------------------------------------
(* The adapters: the calls of a refresh in order, how many requests each    *)
(* makes at once, how often the HTTP client tries one, and which gate they  *)
(* pass.                                                                   *)

Single(method) == [method |-> method, width |-> 1, attempts |-> 1]

StackExchange == [name |-> "STACK_EXCHANGE", gate |-> "MINUTE",
                  calls |-> <<Single("featured"), Single("unanswered")>>]

Github == [name |-> "GITHUB", gate |-> "SEARCH", calls |-> <<Single("search")>>]

\* The feeds at once, in a Promise.all, and then their items, eight at a time:
\* these stand for one request, as none of them can end the call.
HackerNews == [name |-> "HACKER_NEWS", gate |-> "NONE",
               calls |-> <<[method |-> "feeds", width |-> FeedCount, attempts |-> 2], Single("items")>>]

Remotive == [name |-> "REMOTIVE", gate |-> "NONE", calls |-> <<Single("jobs")>>]

Dev == [name |-> "DEV", gate |-> "NONE", calls |-> <<Single("articles")>>]

Methods == {"featured", "unanswered", "search", "feeds", "items", "jobs", "articles"}

\* An adapter asks for each method once in a refresh, and one with a gate makes
\* one request at a time.
ASSUME KindsAssumption ==
    \A k \in Kinds :
        /\ k.gate \in {"MINUTE", "SEARCH", "NONE"}
        /\ k.calls \in Seq([method : Methods, width : Nat \ {0}, attempts : 1 .. 2]) /\ Len(k.calls) > 0
        /\ k.gate # "NONE" => \A m \in DOMAIN k.calls : k.calls[m].width = 1
        /\ \A m, n \in DOMAIN k.calls : k.calls[m].method = k.calls[n].method => m = n

RateLimitCodes(method) == IF method = "search" THEN {403, 429} ELSE {429}

\* What may become of a request; a Hacker News item that fails is lost from the
\* page of "items" instead.
Outcomes == [m \in Methods |->
    IF m = "items" THEN {"OK"}
    ELSE {"TIMEOUT", "NETWORK"} \cup {Outcome(reply, RateLimitCodes(m)) : reply \in Replies}]

Good == [m \in Methods |-> {p \in Pages : Accepted(m, p)}]
-----------------------------------------------------------------------------
Never == 0
\* first and again: how many requests of the call run for the first, and for the
\* second time
NoRefresh == [step |-> "NONE", cached |-> Never, call |-> 0, first |-> 0, again |-> 0, since |-> 0, at |-> 0]
NoAnswer == [status |-> "NONE", entry |-> Never, at |-> 0]
NoRequest == [step |-> "IDLE", instance |-> Null, cached |-> Never, readFailed |-> FALSE, answer |-> NoAnswer]
OpenGate == [next |-> [m \in Methods |-> 0], blocked |-> 0]
NotAsked == [by |-> Null, at |-> 0, again |-> 0]

Max(a, b) == IF a > b THEN a ELSE b

\* DiscoverCacheService.read
Read == IF cache # Never /\ clock - cache <= Retention THEN cache ELSE Never

IsFresh(entry) == entry # Never /\ clock - entry < FreshFor

Fallback(entry) ==
    IF entry # Never /\ clock - entry <= MaxStale
    THEN [status |-> "STALE", entry |-> entry, at |-> clock]
    ELSE [status |-> "UNAVAILABLE", entry |-> Never, at |-> clock]

FromCache(entry) == [status |-> "FRESH", entry |-> entry, at |-> clock]

Init ==
    /\ kind \in Kinds
    /\ cache \in {Never, 1}     \* a row may be left from instances before
    /\ lock = Null
    /\ refresh = [i \in Instances |-> NoRefresh]
    /\ orphans = {}
    /\ gate = [i \in Instances |-> OpenGate]
    /\ requests = [r \in Requests |-> NoRequest]
    /\ last = [m \in Methods |-> NotAsked]
    /\ clock = 1
    /\ left = [asked |-> MaxAsked, faults |-> MaxFaults]
-----------------------------------------------------------------------------
(* DiscoverService: a request reads the cache, and decides later.          *)

MayFail(failed) == failed => left.faults > 0

FaultsAfter(failed) == IF failed THEN left.faults - 1 ELSE left.faults

Ask(r, i) ==
    /\ requests[r].step \in {"IDLE", "DONE"} /\ left.asked > 0
    /\ \E failed \in BOOLEAN :
           /\ MayFail(failed)
           /\ requests' = [requests EXCEPT ![r] =
                  [NoRequest EXCEPT !.step = "READ", !.instance = i, !.readFailed = failed,
                                    !.cached = IF failed THEN Never ELSE Read]]
           /\ left' = [asked |-> left.asked - 1, faults |-> FaultsAfter(failed)]
    /\ UNCHANGED <<kind, cache, lock, refresh, orphans, gate, last, clock>>

Answer(r, answer) ==
    requests' = [requests EXCEPT ![r].step = "DONE", ![r].answer = answer]

\* Mutant: a request joins a refresh before it looks at what it read.
ServedFromCacheUnlessRefreshing(r) ==
    IsFresh(requests[r].cached) /\ refresh[requests[r].instance].step = "NONE"

ServedFromCache(r) == IsFresh(requests[r].cached)

LoadSource(r) ==
    LET i == requests[r].instance  cached == requests[r].cached IN
    /\ requests[r].step = "READ"
    /\ IF ServedFromCache(r)
       THEN Answer(r, FromCache(cached)) /\ UNCHANGED refresh
       ELSE /\ requests' = [requests EXCEPT ![r].step = "WAIT"]
            /\ refresh' = IF refresh[i].step # "NONE" THEN refresh
                          ELSE [refresh EXCEPT ![i] =
                              [NoRefresh EXCEPT !.step = "LOCK", !.cached = cached, !.since = clock]]
    /\ UNCHANGED <<kind, cache, lock, orphans, gate, last, clock, left>>

\* listSources answers from the row alone.
ReadSourceStatus(r) ==
    /\ requests[r].step = "READ"
    /\ Answer(r, IF ServedFromCache(r) THEN FromCache(requests[r].cached) ELSE Fallback(requests[r].cached))
    /\ UNCHANGED <<kind, cache, lock, refresh, orphans, gate, last, clock, left>>

\* The refresh of an instance ends, and so do the requests that wait for it.
Finish(i, answer) ==
    /\ refresh' = [refresh EXCEPT ![i] = NoRefresh]
    /\ requests' = [r \in Requests |->
           IF requests[r].step = "WAIT" /\ requests[r].instance = i
           THEN [requests[r] EXCEPT !.step = "DONE", !.answer = answer] ELSE requests[r]]
-----------------------------------------------------------------------------
(* refreshWithLock, in a transaction                                       *)

At(i, step) == refresh[i].step = step

\* Mutant: the refresh goes on without the lock.
MayLockAlways == TRUE

MayLock == lock = Null

TryLock(i) ==
    /\ At(i, "LOCK")
    /\ IF MayLock THEN lock' = i /\ refresh' = [refresh EXCEPT ![i].step = "RECHECK"]
       ELSE refresh' = [refresh EXCEPT ![i].step = "LATEST"] /\ UNCHANGED lock
    /\ UNCHANGED <<kind, cache, orphans, gate, requests, last, clock, left>>

\* The instance without the lock serves what another has written.
ReadLatest(i) ==
    /\ At(i, "LATEST")
    /\ \E failed \in BOOLEAN :
           /\ MayFail(failed)
           /\ Finish(i, Fallback(IF failed THEN refresh[i].cached ELSE Read))
           /\ left' = [left EXCEPT !.faults = FaultsAfter(failed)]
    /\ UNCHANGED <<kind, cache, lock, orphans, gate, last, clock>>

MethodsOf(i) == {kind.calls[k].method : k \in DOMAIN kind.calls}

\* reserve of the two gates
Reservable(i) == clock >= gate[i].blocked /\ \A m \in MethodsOf(i) : clock >= gate[i].next[m]

Reserved(i) ==
    IF kind.gate # "MINUTE" THEN gate[i]
    ELSE [gate[i] EXCEPT !.next = [m \in Methods |-> IF m \in MethodsOf(i) THEN clock + Minute ELSE @[m]]]

\* Mutant: the row is not read again under the lock.
RecheckedNever == Never

Rechecked == Read

Open(i) == refresh[i].first + refresh[i].again

\* The transaction ends with the first error; the other requests of the call run
\* on, and are tried again, but nobody awaits them.
Fail(i) ==
    /\ lock' = Null
    /\ orphans' = orphans \cup {o \in {[instance |-> i, since |-> refresh[i].since]} : Open(i) > 1}
    /\ Finish(i, Fallback(refresh[i].cached))

\* The refresh makes the requests of its next call.
InCall(row, call) ==
    [row EXCEPT !.step = "CALL", !.call = call, !.first = kind.calls[call].width, !.again = 0, !.at = clock]

Fetched(row) == [row EXCEPT !.step = "WRITE", !.first = 0, !.again = 0, !.at = clock]

TriedAgain(row) == [row EXCEPT !.first = @ - 1, !.again = @ + 1, !.at = clock]

Recheck(i) ==
    /\ At(i, "RECHECK")
    /\ \/ /\ IsFresh(Rechecked)
          /\ lock' = Null
          /\ Finish(i, FromCache(Rechecked))
          /\ UNCHANGED <<orphans, gate>>
       \/ /\ ~IsFresh(Rechecked) /\ Reservable(i)
          /\ gate' = [gate EXCEPT ![i] = Reserved(i)]
          /\ refresh' = [refresh EXCEPT ![i] = InCall(@, 1)]
          /\ UNCHANGED <<lock, orphans, requests>>
       \/ /\ ~IsFresh(Rechecked) /\ ~Reservable(i)
          /\ Fail(i)
          /\ UNCHANGED gate
    /\ UNCHANGED <<kind, cache, last, clock, left>>
-----------------------------------------------------------------------------
(* What the upstream service does with a call                              *)

CallOf(i) == kind.calls[refresh[i].call]

Asked(i, again) ==
    last' = [last EXCEPT ![CallOf(i).method] = [by |-> i, at |-> refresh[i].at, again |-> again]]

\* recordResponse and recordFailure
Noted(i, wait) ==
    CASE kind.gate = "MINUTE" ->
             [gate EXCEPT ![i].next[CallOf(i).method] = Max(@, clock + wait)]
      [] kind.gate = "SEARCH" -> [gate EXCEPT ![i].blocked = Max(@, clock + wait)]
      [] OTHER -> gate

GoOn(i) ==
    refresh' = [refresh EXCEPT ![i] =
        IF @.call < Len(kind.calls) THEN InCall(@, @.call + 1) ELSE Fetched(@)]

\* A request of i's call has this outcome.
Calling(i, outcome) ==
    /\ At(i, "CALL") /\ outcome \in Outcomes[CallOf(i).method]
    /\ UNCHANGED <<kind, cache, clock, left>>

\* One of several is answered; the pages are looked at when all are there.
FeedArrives(i) ==
    /\ Calling(i, "OK") /\ Open(i) > 1
    /\ \/ refresh[i].first > 0 /\ refresh' = [refresh EXCEPT ![i].first = @ - 1]
       \/ refresh[i].again > 0 /\ refresh' = [refresh EXCEPT ![i].again = @ - 1]
    /\ UNCHANGED <<lock, orphans, gate, requests, last>>

\* The answer to the last one.
AllAnswered(i) == Calling(i, "OK") /\ Open(i) = 1

CallSucceeds(i) ==
    /\ AllAnswered(i) /\ Good[CallOf(i).method] # {}
    /\ GoOn(i)
    /\ Asked(i, 0)
    /\ UNCHANGED <<lock, orphans, gate, requests>>

\* An answer that asks to be left alone: a backoff in the wrapper, or the last
\* request of the search quota.
CallSucceedsWithWait(i) ==
    /\ AllAnswered(i) /\ Good[CallOf(i).method] # {}
    /\ kind.gate # "NONE"
    /\ \E wait \in Waits : gate' = Noted(i, wait) /\ Asked(i, clock + wait)
    /\ GoOn(i)
    /\ UNCHANGED <<lock, orphans, requests>>

\* quota_remaining 0 fails the refresh; the gate is shut until the next day.
QuotaRunsOut(i) ==
    /\ AllAnswered(i)
    /\ kind.gate = "MINUTE"
    /\ gate' = [gate EXCEPT ![i].blocked = MaxClock + 1]
    /\ Asked(i, MaxClock + 1)
    /\ Fail(i)

CallIsInvalid(i) ==
    /\ Calling(i, "INVALID_RESPONSE")
    /\ Asked(i, 0)
    /\ Fail(i)
    /\ UNCHANGED gate

\* The wait that comes in the headers, or in the wrapper of the items, is noted
\* before the items are looked at.
PageIsRefused(i) ==
    /\ AllAnswered(i)
    /\ \E p \in Pages \ Good[CallOf(i).method] :
           \/ Asked(i, 0) /\ UNCHANGED gate
           \/ /\ kind.gate = "SEARCH" \/ (kind.gate = "MINUTE" /\ p.wrapped)
              /\ \E wait \in Waits : gate' = Noted(i, wait) /\ Asked(i, clock + wait)
    /\ Fail(i)

\* What may be asked for again is, after a pause, while attempts are left.
CallFails(i) ==
    /\ At(i, "CALL")
    /\ \E outcome \in {o \in Outcomes[CallOf(i).method] : Retryable(o)} :
           Calling(i, outcome) /\ ~(kind.gate = "SEARCH" /\ outcome = "RATE_LIMITED")
    /\ Asked(i, 0)
    /\ \/ /\ refresh[i].first > 0 /\ CallOf(i).attempts = 2
          /\ refresh' = [refresh EXCEPT ![i] = TriedAgain(@)]
          /\ UNCHANGED <<lock, orphans, requests>>
       \/ /\ refresh[i].again > 0 \/ CallOf(i).attempts = 1
          /\ Fail(i)
    /\ UNCHANGED gate

\* Only the gate of the GitHub search is told that the service refuses requests,
\* and for how long: Retry-After, the reset of the limit, or a minute.
CallIsRateLimited(i) ==
    /\ kind.gate = "SEARCH" /\ Calling(i, "RATE_LIMITED")
    /\ \E wait \in Waits : gate' = Noted(i, wait) /\ Asked(i, clock + wait)
    /\ Fail(i)

WriteCache(i) ==
    /\ At(i, "WRITE")
    /\ \/ /\ cache' = clock
          /\ lock' = Null
          /\ Finish(i, FromCache(clock))
          /\ UNCHANGED orphans
       \/ /\ Fail(i)
          /\ UNCHANGED cache
    /\ UNCHANGED <<kind, gate, last, clock, left>>

RefreshStep(i) ==
    \/ TryLock(i) \/ ReadLatest(i) \/ Recheck(i) \/ WriteCache(i)
    \/ FeedArrives(i) \/ CallSucceeds(i) \/ CallSucceedsWithWait(i) \/ QuotaRunsOut(i)
    \/ CallIsInvalid(i) \/ PageIsRefused(i) \/ CallFails(i) \/ CallIsRateLimited(i)
-----------------------------------------------------------------------------
\* The last request that a failed refresh has left behind is over; its answer is
\* dropped.
OrphansEnd(o) ==
    /\ orphans' = orphans \ {o}
    /\ UNCHANGED <<kind, cache, lock, refresh, gate, requests, last, clock, left>>

PurgeExpired ==
    /\ cache # Never /\ clock - cache > PurgeAge
    /\ cache' = Never
    /\ UNCHANGED <<kind, lock, refresh, orphans, gate, requests, last, clock, left>>

\* The API process is replaced: its requests and its gate are gone, and the
\* database ends its transaction.
Restart(i) ==
    /\ left.faults > 0
    /\ left' = [left EXCEPT !.faults = @ - 1]
    /\ lock' = IF lock = i THEN Null ELSE lock
    /\ refresh' = [refresh EXCEPT ![i] = NoRefresh]
    /\ orphans' = {o \in orphans : o.instance # i}
    /\ gate' = [gate EXCEPT ![i] = OpenGate]
    /\ requests' = [r \in Requests |-> IF requests[r].instance = i THEN NoRequest ELSE requests[r]]
    /\ last' = [m \in Methods |-> IF last[m].by = i THEN [last[m] EXCEPT !.by = Null] ELSE last[m]]
    /\ UNCHANGED <<kind, cache, clock>>

\* A request decides at once when its read is there; a refresh and what it
\* leaves behind take no longer than the timeouts allow.  A request that was answered is over.
Tick ==
    /\ clock < MaxClock
    /\ \A r \in Requests : requests[r].step # "READ"
    /\ \A i \in Instances : ~At(i, "NONE") => clock < refresh[i].since + RefreshTime
    /\ \A o \in orphans : clock < o.since + RefreshTime
    /\ clock' = clock + 1
    /\ requests' = [r \in Requests |-> IF requests[r].step = "DONE" THEN NoRequest ELSE requests[r]]
    /\ UNCHANGED <<kind, cache, lock, refresh, orphans, gate, last, left>>

Next ==
    \/ \E r \in Requests, i \in Instances : Ask(r, i)
    \/ \E r \in Requests : LoadSource(r) \/ ReadSourceStatus(r)
    \/ \E i \in Instances : RefreshStep(i) \/ Restart(i)
    \/ \E o \in orphans : OrphansEnd(o)
    \/ PurgeExpired \/ Tick

Spec == Init /\ [][Next]_vars
=============================================================================
