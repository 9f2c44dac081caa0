--------------------------- MODULE Discover_proofs ---------------------------
(***************************************************************************)
(* Proofs about Discover.  First the refresh of a source, for any number   *)
(* of API instances and requests and for adapters of any calls; then the   *)
(* screen, for any items, feeds, scores, tabs and interests and for any    *)
(* number of calls under way.  The two state machines share nothing.       *)
(***************************************************************************)
EXTENDS DiscoverFeedProps, DiscoverPageInv, SequenceTheorems, FiniteSetTheorems,
        WellFoundedInduction, TLAPS

Refresh == [step : {"NONE", "LOCK", "LATEST", "RECHECK", "CALL", "WRITE"},
            cached : Nat, call : Nat, first : Nat, again : Nat, since : Nat, at : Nat]
Gate == [next : [Methods -> Nat], blocked : Nat]
LastAsked == [by : Instances \cup {Null}, at : Nat, again : Nat]
Answers == [status : {"NONE", "FRESH", "STALE", "UNAVAILABLE"}, entry : Nat, at : Nat]
Request == [step : {"IDLE", "READ", "WAIT", "DONE"}, instance : Instances \cup {Null},
            cached : Nat, readFailed : BOOLEAN, answer : Answers]

Typed ==
    /\ kind \in Kinds /\ clock \in Nat /\ cache \in Nat
    /\ refresh \in [Instances -> Refresh]
    /\ gate \in [Instances -> Gate]
    /\ requests \in [Requests -> Request]
    /\ last \in [Methods -> LastAsked]

\* The one with the lock is in the middle of its transaction, and the row it
\* asks for stays as old as it was found.
Locked ==
    \A i \in Instances :
        /\ (lock = i) <=> refresh[i].step \in {"RECHECK", "CALL", "WRITE"}
        /\ At(i, "CALL") => /\ refresh[i].call \in DOMAIN kind.calls
                            /\ cache # Never => refresh[i].at - cache >= FreshFor

Timed ==
    /\ cache <= clock
    /\ \A i \in Instances :
           /\ refresh[i].cached <= clock /\ refresh[i].at <= clock /\ refresh[i].call \in 0 .. Len(kind.calls)
           /\ ~At(i, "NONE") => refresh[i].since <= clock /\ clock <= refresh[i].since + RefreshTime
    /\ \A r \in Requests : requests[r].cached <= clock

\* A gate opens no earlier than the last answers of its instance asked for.
GatesShut ==
    \A i \in Instances :
        /\ kind.gate = "MINUTE" => gate[i].blocked \in {0, MaxClock + 1}
        /\ \A m \in Methods : last[m].by = i => last[m].again <= Max(gate[i].next[m], gate[i].blocked)

\* What a refresh has yet to ask for may be asked for.
MayStillAsk ==
    \A i \in Instances : At(i, "CALL") =>
        \A k \in DOMAIN kind.calls :
            LET asked == last[kind.calls[k].method] IN
            k >= refresh[i].call /\ asked.by = i => asked.again <= refresh[i].at

\* Whoever has read the row has the newest of what was there then: what is
\* newer was written at the same time or later.
Newest(mine, since) ==
    mine # Never => /\ cache <= mine \/ cache >= since
                    /\ \A r \in Requests : requests[r].cached <= mine \/ requests[r].cached >= since

RowGrows ==
    cache # Never => /\ \A r \in Requests : requests[r].cached <= cache
                     /\ \A i \in Instances : refresh[i].cached <= cache

ReadsOrdered ==
    /\ \A r \in Requests : requests[r].step = "READ" => Newest(requests[r].cached, clock)
    /\ \A i \in Instances : ~At(i, "NONE") => Newest(refresh[i].cached, refresh[i].since)

\* A request joins only a refresh that knows a row as new as its own, or none.
JoinedOK ==
    \A r \in Requests :
        /\ requests[r].step \in {"READ", "WAIT"} => requests[r].instance \in Instances
        /\ requests[r].step = "WAIT" =>
               LET joined == refresh[requests[r].instance] IN
               /\ joined.step # "NONE"
               /\ joined.cached # Never => joined.cached >= requests[r].cached

RowsOK == RowGrows /\ ReadsOrdered /\ JoinedOK
AskingOK == Locked /\ GatesShut /\ MayStillAsk
IInv == Typed /\ Timed /\ AskingOK /\ RowsOK /\ AnswersInTime
-----------------------------------------------------------------------------
(* The adapters, the cache and the answers                                 *)

LEMMA KindShape ==
    ASSUME Typed
    PROVE  /\ kind.gate \in {"MINUTE", "SEARCH", "NONE"}
           /\ Len(kind.calls) \in Nat \ {0} /\ DOMAIN kind.calls = 1 .. Len(kind.calls)
           /\ \A k \in DOMAIN kind.calls : kind.calls[k].method \in Methods /\ kind.calls[k].width \in Nat
           /\ \A m, n \in DOMAIN kind.calls : kind.calls[m].method = kind.calls[n].method => m = n
<1>1. /\ kind.gate \in {"MINUTE", "SEARCH", "NONE"}
      /\ kind.calls \in Seq([method : Methods, width : Nat \ {0}, attempts : 1 .. 2]) /\ Len(kind.calls) > 0
      /\ \A m, n \in DOMAIN kind.calls : kind.calls[m].method = kind.calls[n].method => m = n
  BY KindsAssumption DEF Typed
<1>2. PICK asked \in Seq([method : Methods, width : Nat \ {0}, attempts : 1 .. 2]) : asked = kind.calls /\ Len(asked) > 0
  BY <1>1
<1>3. Len(asked) \in Nat \ {0} /\ DOMAIN asked = 1 .. Len(asked)
  BY <1>2, LenProperties
<1>4. \A k \in DOMAIN asked : asked[k].method \in Methods /\ asked[k].width \in Nat
  <2>1. asked \in [1 .. Len(asked) -> [method : Methods, width : Nat \ {0}, attempts : 1 .. 2]]
    BY <1>2, LenProperties
  <2> QED BY <1>3, <2>1
<1> QED BY <1>1, <1>2, <1>3, <1>4

LEMMA MaxFacts ==
    ASSUME NEW a \in Nat, NEW b \in Nat
    PROVE  Max(a, b) \in Nat /\ Max(a, b) >= a /\ Max(a, b) >= b /\ (Max(a, b) = a \/ Max(a, b) = b)
BY DEF Max

LEMMA Times ==
    /\ {Minute, FreshFor, MaxStale, Retention, RefreshTime, MaxClock} \subseteq Nat
    /\ RefreshTime < FreshFor /\ FreshFor <= MaxStale /\ FreshFor < Retention
BY FeedAssumption

LEMMA ReadFacts ==
    ASSUME Typed, Timed
    PROVE  /\ Read \in Nat /\ Read <= clock /\ (Read = cache \/ Read = Never)
           /\ IsFresh(Read) \/ cache = Never \/ clock - cache >= FreshFor
<1>1. clock \in Nat /\ cache \in Nat /\ cache <= clock
  BY DEF Typed, Timed
<1>2. Read = cache \/ (Read = Never /\ (cache = Never \/ clock - cache > Retention))
  BY <1>1, Times DEF Read, Never
<1> QED BY <1>1, <1>2, Times DEF IsFresh, Never

AnswerFits(answer) ==
    /\ answer \in Answers
    /\ answer.entry # Never => answer.at - answer.entry <= MaxStale
    /\ answer.status = "FRESH" => answer.at - answer.entry < FreshFor + RefreshTime

LEMMA FallbackFits ==
    ASSUME Typed, NEW entry \in Nat
    PROVE  AnswerFits(Fallback(entry)) /\ Fallback(entry).entry \in {entry, Never}
<1>1. clock \in Nat
  BY DEF Typed
<1>2. CASE entry # Never /\ clock - entry <= MaxStale
  BY <1>1, <1>2 DEF Fallback, AnswerFits, Answers
<1>3. CASE ~(entry # Never /\ clock - entry <= MaxStale)
  BY <1>1, <1>3 DEF Fallback, AnswerFits, Answers, Never
<1> QED BY <1>2, <1>3

LEMMA FromCacheFits ==
    ASSUME Typed, NEW entry \in Nat, entry <= clock, entry = clock \/ IsFresh(entry)
    PROVE  AnswerFits(FromCache(entry)) /\ FromCache(entry).entry = entry
<1>1. clock \in Nat /\ clock - entry < FreshFor
  BY Times DEF Typed, IsFresh
<1> QED BY <1>1, Times DEF FromCache, AnswerFits, Answers

\* The refresh of i ends with this answer to the requests that wait for it.
LEMMA FinishKeepsIInv ==
    ASSUME IInv, NEW i \in Instances, ~At(i, "NONE"), NEW answer \in Answers, AnswerFits(answer), Finish(i, answer),
           \A r \in Requests : requests[r].step = "WAIT" /\ requests[r].instance = i /\ answer.entry # Never
                                   => answer.entry >= requests[r].cached,
           UNCHANGED <<kind, clock>>, lock' = IF lock = i THEN Null ELSE lock,
           cache' = cache \/ (cache' = clock /\ lock = i),
           lock # i => last' = last,
           last' \in [Methods -> LastAsked], gate' \in [Instances -> Gate], GatesShut'
    PROVE  IInv'
<1>1. /\ kind \in Kinds /\ clock \in Nat /\ cache \in Nat /\ cache <= clock
      /\ refresh \in [Instances -> Refresh] /\ requests \in [Requests -> Request]
  BY DEF IInv, Typed, Timed
<1>2. NoRefresh \in Refresh /\ NoRefresh.step = "NONE" /\ NoRefresh.cached = Never /\ NoRefresh.at = 0 /\ NoRefresh.call = 0
  BY DEF NoRefresh, Refresh, Never
<1>3. /\ refresh' \in [Instances -> Refresh] /\ refresh'[i] = NoRefresh
      /\ \A j \in Instances \ {i} : refresh'[j] = refresh[j]
  BY <1>1, <1>2 DEF Finish
<1> DEFINE waits(r) == requests[r].step = "WAIT" /\ requests[r].instance = i
<1>4. \A r \in Requests : requests'[r] =
          IF waits(r) THEN [requests[r] EXCEPT !.step = "DONE", !.answer = answer] ELSE requests[r]
  BY DEF Finish
<1>5. \A r \in Requests : /\ requests'[r] \in Request
                          /\ requests'[r].instance = requests[r].instance /\ requests'[r].cached = requests[r].cached
                          /\ requests'[r].readFailed = requests[r].readFailed
                          /\ waits(r) => requests'[r].step = "DONE" /\ requests'[r].answer = answer
                          /\ ~waits(r) => requests'[r] = requests[r]
  <2> TAKE r \in Requests
  <2>1. requests[r] \in Request
    BY <1>1
  <2>2. CASE waits(r)
    <3>1. requests'[r] = [requests[r] EXCEPT !.step = "DONE", !.answer = answer]
      BY <1>4, <2>2
    <3>2. requests'[r] \in Request
      BY <2>1, <3>1 DEF Request
    <3> QED BY <2>1, <2>2, <3>1, <3>2 DEF Request
  <2>3. CASE ~waits(r)
    BY <1>4, <2>1, <2>3
  <2> QED BY <2>2, <2>3
<1>6. requests' \in [Requests -> Request]
  <2>1. requests' = [r \in Requests |-> requests'[r]]
    BY DEF Finish
  <2> QED BY <1>5, <2>1
<1>7. cache' \in Nat /\ cache' <= clock /\ cache <= cache'
  BY <1>1
<1>8. Typed' /\ Timed'
  <2>1. Typed'
    BY <1>1, <1>3, <1>6, <1>7 DEF IInv, Typed
  <2>2. Len(kind.calls) \in Nat
    BY KindShape DEF IInv
  <2>3. Timed'
    BY <1>1, <1>2, <1>3, <1>5, <1>7, <2>2 DEF IInv, Timed, At, Never
  <2> QED BY <2>1, <2>3
<1>9. Locked'
  <2>1. Null \notin Instances
    BY FeedAssumption
  <2> QED BY <1>2, <1>3, <2>1 DEF IInv, AskingOK, Locked, At
<1>10. MayStillAsk'
  BY <1>2, <1>3 DEF IInv, AskingOK, Locked, MayStillAsk, At
<1>11. RowGrows'
  BY <1>1, <1>2, <1>3, <1>5, <1>7 DEF IInv, RowsOK, RowGrows, Timed, Never
<1>12. ReadsOrdered'
  <2>1. ASSUME NEW mine \in Nat, NEW since \in Nat, since <= clock, Newest(mine, since)
        PROVE  Newest(mine, since)'
    BY <1>1, <1>5, <2>1 DEF Newest
  <2>2. ASSUME NEW r \in Requests, requests'[r].step = "READ" PROVE Newest(requests[r].cached, clock)'
    <3>1. requests[r].step = "READ" /\ requests'[r].cached = requests[r].cached /\ requests[r].cached \in Nat
      BY <1>1, <1>5, <2>2 DEF Request
    <3>2. Newest(requests[r].cached, clock)
      BY <3>1 DEF IInv, RowsOK, ReadsOrdered
    <3>3. PICK mine \in Nat, since \in Nat : mine = requests[r].cached /\ since = clock
      BY <1>1, <3>1
    <3>4. Newest(mine, since)'
      BY <1>1, <2>1, <3>2, <3>3
    <3> QED BY <3>1, <3>3, <3>4 DEF Newest
  <2>3. ASSUME NEW j \in Instances, ~At(j, "NONE")' PROVE Newest(refresh[j].cached, refresh[j].since)'
    <3>1. j # i /\ refresh'[j] = refresh[j] /\ refresh[j] \in Refresh
      BY <1>1, <1>2, <1>3, <2>3 DEF At
    <3>2. Newest(refresh[j].cached, refresh[j].since) /\ refresh[j].since <= clock
      BY <2>3, <3>1 DEF IInv, RowsOK, ReadsOrdered, Timed, At
    <3>3. PICK mine \in Nat, since \in Nat : mine = refresh[j].cached /\ since = refresh[j].since
      BY <3>1 DEF Refresh
    <3>4. Newest(mine, since)'
      BY <2>1, <3>2, <3>3
    <3> QED BY <3>1, <3>3, <3>4 DEF Newest
  <2> QED BY <2>2, <2>3 DEF ReadsOrdered
<1>13. JoinedOK'
  BY <1>2, <1>3, <1>5 DEF IInv, RowsOK, JoinedOK
<1>14. AnswersInTime'
  BY <1>5 DEF IInv, AnswersInTime, AnswersBounded, NeverOlder, AnswerFits
<1> QED BY <1>8, <1>9, <1>10, <1>11, <1>12, <1>13, <1>14 DEF IInv, RowsOK, AskingOK

-----------------------------------------------------------------------------
(* The gates                                                               *)

LEMMA CallTyped ==
    ASSUME IInv, NEW i \in Instances, At(i, "CALL")
    PROVE  /\ lock = i /\ refresh[i] \in Refresh /\ refresh[i].call \in DOMAIN kind.calls
           /\ CallOf(i).method \in Methods /\ clock \in Nat /\ cache \in Nat
           /\ gate[i] \in Gate /\ Len(kind.calls) \in Nat /\ DOMAIN kind.calls = 1 .. Len(kind.calls)
           /\ \A j \in Instances \ {i} : ~At(j, "CALL")
<1>1. refresh[i].call \in DOMAIN kind.calls /\ lock = i
  BY DEF IInv, AskingOK, Locked, At
<1>2. \A j \in Instances \ {i} : ~At(j, "CALL")
  BY <1>1 DEF IInv, AskingOK, Locked, At
<1>3. CallOf(i).method \in Methods
  BY <1>1, KindShape DEF IInv, CallOf
<1> QED BY <1>1, <1>2, <1>3, KindShape DEF IInv, Typed

\* Whatever a call is answered, its instance's gate is shut for as long.
LEMMA AskedKeepsGates ==
    ASSUME IInv, NEW i \in Instances, At(i, "CALL"), NEW again \in Nat, Asked(i, again), UNCHANGED kind,
           gate' \in [Instances -> Gate], \A j \in Instances \ {i} : gate'[j] = gate[j],
           \A m \in Methods : Max(gate'[i].next[m], gate'[i].blocked) >= Max(gate[i].next[m], gate[i].blocked),
           kind.gate = "MINUTE" => gate'[i].blocked \in {0, MaxClock + 1},
           again <= Max(gate'[i].next[CallOf(i).method], gate'[i].blocked)
    PROVE  /\ last' \in [Methods -> LastAsked] /\ GatesShut'
           /\ last'[CallOf(i).method].again = again
           /\ \A m \in Methods \ {CallOf(i).method} : last'[m] = last[m]
<1> DEFINE asked == CallOf(i).method
<1>1. asked \in Methods /\ refresh[i] \in Refresh
  BY CallTyped
<1>2. last \in [Methods -> LastAsked] /\ gate \in [Instances -> Gate]
  BY DEF IInv, Typed
<1>3. last' = [last EXCEPT ![asked] = [by |-> i, at |-> refresh[i].at, again |-> again]]
  BY DEF Asked
<1>4. [by |-> i, at |-> refresh[i].at, again |-> again] \in LastAsked
  BY <1>1 DEF LastAsked, Refresh
<1> HIDE DEF asked
<1>5. /\ last' \in [Methods -> LastAsked] /\ last'[asked].by = i /\ last'[asked].again = again
      /\ \A m \in Methods \ {asked} : last'[m] = last[m]
  BY <1>1, <1>2, <1>3, <1>4
<1>6. ASSUME NEW m \in Methods, last'[m].by = i
      PROVE  last'[m].again <= Max(gate'[i].next[m], gate'[i].blocked)
  <2>1. CASE m = asked
    BY <1>5, <2>1 DEF asked
  <2>2. CASE m # asked
    <3>1. last'[m] = last[m] /\ last[m].again \in Nat
      BY <1>2, <1>5, <2>2 DEF LastAsked
    <3>2. last[m].again <= Max(gate[i].next[m], gate[i].blocked)
      BY <1>6, <3>1 DEF IInv, AskingOK, GatesShut
    <3>3. gate[i] \in Gate /\ gate'[i] \in Gate
      BY <1>2
    <3>4. /\ gate[i].next[m] \in Nat /\ gate[i].blocked \in Nat
          /\ gate'[i].next[m] \in Nat /\ gate'[i].blocked \in Nat
      BY <3>3 DEF Gate
    <3>5. Max(gate[i].next[m], gate[i].blocked) \in Nat /\ Max(gate'[i].next[m], gate'[i].blocked) \in Nat
      BY <3>4, MaxFacts
    <3> QED BY <3>1, <3>2, <3>5
  <2> QED BY <2>1, <2>2
<1>7. ASSUME NEW j \in Instances \ {i}, NEW m \in Methods, last'[m].by = j
      PROVE  last'[m].again <= Max(gate'[j].next[m], gate'[j].blocked)
  <2>1. m # asked
    BY <1>5, <1>7
  <2> QED BY <1>5, <1>7, <2>1 DEF IInv, AskingOK, GatesShut
<1>8. GatesShut'
  BY <1>6, <1>7 DEF IInv, AskingOK, GatesShut
<1> QED BY <1>5, <1>8 DEF asked

LEMMA OpenAnswer ==
    ASSUME IInv, NEW i \in Instances, At(i, "CALL"), Asked(i, 0), UNCHANGED <<kind, gate>>
    PROVE  /\ last' \in [Methods -> LastAsked] /\ GatesShut' /\ gate' \in [Instances -> Gate]
           /\ last'[CallOf(i).method].again = 0
           /\ \A m \in Methods \ {CallOf(i).method} : last'[m] = last[m]
<1>1. gate \in [Instances -> Gate]
  BY DEF IInv, Typed
<1>2. \A m \in Methods : gate[i].next[m] \in Nat /\ gate[i].blocked \in Nat
  BY <1>1 DEF Gate
<1>3. \A m \in Methods : Max(gate[i].next[m], gate[i].blocked) \in Nat
  BY <1>2, MaxFacts
<1>4. CallOf(i).method \in Methods
  BY CallTyped
<1>5. kind.gate = "MINUTE" => gate[i].blocked \in {0, MaxClock + 1}
  BY DEF IInv, AskingOK, GatesShut
<1> QED BY <1>1, <1>3, <1>4, <1>5, AskedKeepsGates

LEMMA NotedAnswer ==
    ASSUME IInv, NEW i \in Instances, At(i, "CALL"), NEW wait \in Waits, kind.gate # "NONE",
           gate' = Noted(i, wait), Asked(i, clock + wait), UNCHANGED kind
    PROVE  /\ last' \in [Methods -> LastAsked] /\ GatesShut' /\ gate' \in [Instances -> Gate]
           /\ \A m \in Methods \ {CallOf(i).method} : last'[m] = last[m]
<1> DEFINE asked == CallOf(i).method
<1>1. /\ gate \in [Instances -> Gate] /\ clock + wait \in Nat /\ asked \in Methods
      /\ gate[i] \in Gate /\ gate[i].next \in [Methods -> Nat] /\ gate[i].blocked \in Nat
  BY CallTyped, FeedAssumption DEF IInv, Typed, Gate
<1>2. kind.gate \in {"MINUTE", "SEARCH"}
  BY KindShape DEF IInv
<1>3. kind.gate = "MINUTE" => gate[i].blocked \in {0, MaxClock + 1}
  BY DEF IInv, AskingOK, GatesShut
<1>4. CASE kind.gate = "MINUTE"
  <2> DEFINE later == Max(gate[i].next[asked], clock + wait)
  <2>1. later \in Nat /\ later >= gate[i].next[asked] /\ later >= clock + wait
    BY <1>1, MaxFacts
  <2>2. gate' = [gate EXCEPT ![i].next[asked] = later]
    BY <1>4 DEF Noted
  <2> HIDE DEF later, asked
  <2>3. gate' \in [Instances -> Gate]
    <3>1. [gate[i].next EXCEPT ![asked] = later] \in [Methods -> Nat]
      BY <1>1, <2>1
    <3>2. [gate[i] EXCEPT !.next[asked] = later] \in Gate
      BY <1>1, <3>1 DEF Gate
    <3> QED BY <1>1, <2>2, <3>2
  <2>4. /\ gate'[i].blocked = gate[i].blocked /\ gate'[i].next[asked] = later
        /\ \A m \in Methods \ {asked} : gate'[i].next[m] = gate[i].next[m]
        /\ \A j \in Instances \ {i} : gate'[j] = gate[j]
    BY <1>1, <2>2 DEF Gate
  <2>5. ASSUME NEW m \in Methods
        PROVE  Max(gate'[i].next[m], gate'[i].blocked) >= Max(gate[i].next[m], gate[i].blocked)
    <3>1. gate[i].next[m] \in Nat /\ gate'[i].next[m] \in Nat /\ gate'[i].next[m] >= gate[i].next[m]
      BY <1>1, <2>1, <2>4
    <3> QED BY <1>1, <2>4, <3>1 DEF Max
  <2>6. clock + wait <= Max(gate'[i].next[asked], gate'[i].blocked)
    BY <1>1, <2>1, <2>4 DEF Max
  <2> QED BY <1>1, <1>3, <2>3, <2>4, <2>5, <2>6, AskedKeepsGates DEF asked
<1>5. CASE kind.gate = "SEARCH"
  <2> DEFINE later == Max(gate[i].blocked, clock + wait)
  <2>1. later \in Nat /\ later >= gate[i].blocked /\ later >= clock + wait
    BY <1>1, MaxFacts
  <2>2. gate' = [gate EXCEPT ![i].blocked = later]
    BY <1>5 DEF Noted
  <2> HIDE DEF later, asked
  <2>3. gate' \in [Instances -> Gate]
    <3>1. [gate[i] EXCEPT !.blocked = later] \in Gate
      BY <1>1, <2>1 DEF Gate
    <3> QED BY <1>1, <2>2, <3>1
  <2>4. /\ gate'[i].blocked = later /\ gate'[i].next = gate[i].next
        /\ \A j \in Instances \ {i} : gate'[j] = gate[j]
    BY <1>1, <2>2 DEF Gate
  <2>5. ASSUME NEW m \in Methods
        PROVE  Max(gate'[i].next[m], gate'[i].blocked) >= Max(gate[i].next[m], gate[i].blocked)
    <3>1. gate[i].next[m] \in Nat /\ gate'[i].next[m] = gate[i].next[m]
      BY <1>1, <2>4
    <3> QED BY <1>1, <2>1, <2>4, <3>1 DEF Max
  <2>6. clock + wait <= Max(gate'[i].next[asked], gate'[i].blocked)
    BY <1>1, <2>1, <2>4 DEF Max
  <2> QED BY <1>1, <1>5, <2>3, <2>4, <2>5, <2>6, AskedKeepsGates DEF asked
<1> QED BY <1>2, <1>4, <1>5

LEMMA SpentAnswer ==
    ASSUME IInv, NEW i \in Instances, At(i, "CALL"), kind.gate = "MINUTE",
           gate' = [gate EXCEPT ![i].blocked = MaxClock + 1], Asked(i, MaxClock + 1), UNCHANGED kind
    PROVE  last' \in [Methods -> LastAsked] /\ GatesShut' /\ gate' \in [Instances -> Gate]
<1> DEFINE asked == CallOf(i).method
<1>1. /\ gate \in [Instances -> Gate] /\ MaxClock + 1 \in Nat /\ asked \in Methods
      /\ gate[i] \in Gate /\ gate[i].next \in [Methods -> Nat]
  BY CallTyped, Times DEF IInv, Typed, Gate
<1>2. gate[i].blocked \in {0, MaxClock + 1}
  BY DEF IInv, AskingOK, GatesShut
<1> HIDE DEF asked
<1>3. gate' \in [Instances -> Gate]
  <2>1. [gate[i] EXCEPT !.blocked = MaxClock + 1] \in Gate
    BY <1>1 DEF Gate
  <2> QED BY <1>1, <2>1
<1>4. /\ gate'[i].blocked = MaxClock + 1 /\ gate'[i].next = gate[i].next
      /\ \A j \in Instances \ {i} : gate'[j] = gate[j]
  BY <1>1 DEF Gate
<1>5. ASSUME NEW m \in Methods
      PROVE  Max(gate'[i].next[m], gate'[i].blocked) >= Max(gate[i].next[m], gate[i].blocked)
  <2>1. gate[i].next[m] \in Nat /\ gate'[i].next[m] = gate[i].next[m]
    BY <1>1, <1>4
  <2> QED BY <1>1, <1>2, <1>4, <2>1, Times DEF Max
<1>6. MaxClock + 1 <= Max(gate'[i].next[asked], gate'[i].blocked)
  BY <1>1, <1>4, Times DEF Max
<1> QED BY <1>1, <1>3, <1>4, <1>5, <1>6, AskedKeepsGates DEF asked

-----------------------------------------------------------------------------
(* The calls of a refresh                                                  *)

\* The refresh of i goes on: it knows the same row, and asks now or not again.
LEMMA StepKeepsIInv ==
    ASSUME IInv, NEW i \in Instances, ~At(i, "NONE"), NEW new \in Refresh, refresh' = [refresh EXCEPT ![i] = new],
           UNCHANGED <<kind, cache, requests, clock>>,
           new.step # "NONE", new.cached = refresh[i].cached, new.since = refresh[i].since, new.at <= clock,
           new.call \in 0 .. Len(kind.calls),
           lock' = IF new.step \in {"RECHECK", "CALL", "WRITE"} THEN i ELSE lock,
           lock = i => new.step \in {"RECHECK", "CALL", "WRITE"},
           lock \in {Null, i} \/ lock' = lock,
           new.step = "CALL" =>
               /\ new.call \in DOMAIN kind.calls
               /\ cache # Never => new.at - cache >= FreshFor
               /\ \A k \in DOMAIN kind.calls :
                      k >= new.call /\ last'[kind.calls[k].method].by = i => last'[kind.calls[k].method].again <= new.at,
           lock # i => last' = last,
           last' \in [Methods -> LastAsked], gate' \in [Instances -> Gate], GatesShut'
    PROVE  IInv'
<1>1. /\ kind \in Kinds /\ clock \in Nat /\ cache \in Nat /\ cache <= clock
      /\ refresh \in [Instances -> Refresh] /\ requests \in [Requests -> Request]
  BY DEF IInv, Typed, Timed
<1>2. /\ refresh' \in [Instances -> Refresh] /\ refresh'[i] = new
      /\ \A j \in Instances \ {i} : refresh'[j] = refresh[j]
  BY <1>1
<1>3. /\ new.step # "NONE" /\ \A j \in Instances : refresh'[j].cached = refresh[j].cached
      /\ \A j \in Instances : refresh'[j].since = refresh[j].since
      /\ \A j \in Instances : refresh'[j].step # "NONE" <=> refresh[j].step # "NONE"
  BY <1>2 DEF At
<1>4. Null \notin Instances
  BY FeedAssumption
<1>5. Typed'
  BY <1>1, <1>2 DEF IInv, Typed
<1>6. Timed'
  BY <1>1, <1>2, <1>3 DEF IInv, Timed, At
<1>7. Locked'
  <2>1. ASSUME NEW j \in Instances \ {i} PROVE lock' = j <=> lock = j
    BY <1>4, <2>1
  <2>2. lock' = i <=> new.step \in {"RECHECK", "CALL", "WRITE"}
    OBVIOUS
  <2> QED BY <1>2, <2>1, <2>2 DEF IInv, AskingOK, Locked, At
<1>8. MayStillAsk'
  <2>1. ASSUME NEW j \in Instances \ {i}, At(j, "CALL") PROVE last' = last
    BY <2>1 DEF IInv, AskingOK, Locked, At
  <2> QED BY <1>2, <2>1 DEF IInv, AskingOK, MayStillAsk, At
<1>9. RowGrows'
  BY <1>3 DEF IInv, RowsOK, RowGrows
<1>10. ReadsOrdered'
  <2>1. \A r \in Requests : requests[r].step = "READ" => Newest(requests[r].cached, clock)'
    BY DEF IInv, RowsOK, ReadsOrdered, Newest
  <2>2. \A j \in Instances : refresh[j].step # "NONE" => Newest(refresh[j].cached, refresh[j].since)'
    BY <1>3 DEF IInv, RowsOK, ReadsOrdered, Newest, At
  <2> QED BY <1>3, <2>1, <2>2 DEF ReadsOrdered, At
<1>11. JoinedOK'
  BY <1>3 DEF IInv, RowsOK, JoinedOK
<1>12. AnswersInTime'
  BY DEF IInv, AnswersInTime, AnswersBounded, NeverOlder
<1> QED BY <1>5, <1>6, <1>7, <1>8, <1>9, <1>10, <1>11, <1>12 DEF IInv, RowsOK, AskingOK

\* The refresh begins a call, has made its last one, or makes a request again.
LEMMA InCallFields ==
    ASSUME Typed, NEW row \in Refresh, NEW call \in DOMAIN kind.calls
    PROVE  \E new \in Refresh :
               /\ new = InCall(row, call) /\ new.step = "CALL" /\ new.call = call
               /\ new.at = clock /\ new.cached = row.cached /\ new.since = row.since
               /\ new.first = kind.calls[call].width /\ new.again = 0
<1>1. clock \in Nat /\ call \in Nat /\ kind.calls[call].width \in Nat
  BY KindShape DEF Typed
<1>2. PICK width \in Nat, now \in Nat, n \in Nat : width = kind.calls[call].width /\ now = clock /\ n = call
  BY <1>1
<1> DEFINE new == [row EXCEPT !.step = "CALL", !.call = n, !.first = width, !.again = 0, !.at = now]
<1>3. InCall(row, call) = new
  BY <1>2 DEF InCall
<1>4. new \in Refresh
  BY DEF Refresh
<1>5. new.step = "CALL" /\ new.call = n /\ new.at = now
  BY DEF Refresh
<1>6. new.cached = row.cached /\ new.since = row.since
  BY DEF Refresh
<1>7. new.first = width /\ new.again = 0
  BY DEF Refresh
<1> HIDE DEF new
<1> QED BY <1>2, <1>3, <1>4, <1>5, <1>6, <1>7

LEMMA FetchedFields ==
    ASSUME NEW row \in Refresh, clock \in Nat
    PROVE  \E new \in Refresh :
               /\ new = Fetched(row) /\ new.step = "WRITE" /\ new.call = row.call /\ new.at = clock
               /\ new.cached = row.cached /\ new.since = row.since /\ new.first = 0 /\ new.again = 0
<1>1. PICK now \in Nat : now = clock
  OBVIOUS
<1> DEFINE new == [row EXCEPT !.step = "WRITE", !.first = 0, !.again = 0, !.at = now]
<1>2. Fetched(row) = new
  BY <1>1 DEF Fetched
<1>3. new \in Refresh
  BY DEF Refresh
<1>4. new.step = "WRITE" /\ new.call = row.call /\ new.at = now
  BY DEF Refresh
<1>5. new.cached = row.cached /\ new.since = row.since
  BY DEF Refresh
<1>6. new.first = 0 /\ new.again = 0
  BY DEF Refresh
<1> HIDE DEF new
<1> QED BY <1>1, <1>2, <1>3, <1>4, <1>5, <1>6

LEMMA TriedAgainFields ==
    ASSUME NEW row \in Refresh, clock \in Nat, row.first > 0
    PROVE  \E new \in Refresh :
               /\ new = TriedAgain(row) /\ new.step = row.step /\ new.call = row.call /\ new.at = clock
               /\ new.cached = row.cached /\ new.since = row.since
               /\ new.first = row.first - 1 /\ new.again = row.again + 1
<1>1. row.first - 1 \in Nat /\ row.again + 1 \in Nat
  BY DEF Refresh
<1>2. PICK now \in Nat, f \in Nat, g \in Nat : now = clock /\ f = row.first - 1 /\ g = row.again + 1
  BY <1>1
<1> DEFINE new == [row EXCEPT !.first = f, !.again = g, !.at = now]
<1>3. TriedAgain(row) = new
  BY <1>2 DEF TriedAgain
<1>4. new \in Refresh
  BY DEF Refresh
<1>5. new.step = row.step /\ new.call = row.call /\ new.at = now
  BY DEF Refresh
<1>6. new.cached = row.cached /\ new.since = row.since
  BY DEF Refresh
<1>7. new.first = f /\ new.again = g
  BY DEF Refresh
<1> HIDE DEF new
<1> QED BY <1>2, <1>3, <1>4, <1>5, <1>6, <1>7

LEMMA GoOnKeepsIInv ==
    ASSUME IInv, NEW i \in Instances, At(i, "CALL"), GoOn(i), UNCHANGED <<kind, cache, lock, requests, clock>>,
           last' \in [Methods -> LastAsked], gate' \in [Instances -> Gate], GatesShut',
           \A m \in Methods \ {CallOf(i).method} : last'[m] = last[m]
    PROVE  IInv'
<1> DEFINE old == refresh[i]
           more == old.call < Len(kind.calls)
           new == IF more THEN InCall(old, old.call + 1) ELSE Fetched(old)
<1>1. /\ lock = i /\ old \in Refresh /\ old.call \in DOMAIN kind.calls /\ clock \in Nat /\ cache \in Nat
      /\ Len(kind.calls) \in Nat /\ DOMAIN kind.calls = 1 .. Len(kind.calls) /\ old.step = "CALL"
  BY CallTyped DEF At
<1>2. refresh' = [refresh EXCEPT ![i] = new]
  BY DEF GoOn
<1>4. /\ new \in Refresh
      /\ new.step = (IF more THEN "CALL" ELSE "WRITE") /\ new.call = (IF more THEN old.call + 1 ELSE old.call)
      /\ new.at = clock /\ new.cached = old.cached /\ new.since = old.since
  <2>1. CASE more
    <3>1. old.call + 1 \in DOMAIN kind.calls
      BY <1>1, <2>1
    <3> QED BY <1>1, <2>1, <3>1, InCallFields DEF IInv
  <2>2. CASE ~more
    BY <1>1, <2>2, FetchedFields
  <2> QED BY <2>1, <2>2
<1>3. new \in Refresh
  BY <1>4
<1> HIDE DEF new
<1>5. new.call \in 0 .. Len(kind.calls) /\ (more => new.call \in DOMAIN kind.calls /\ new.call > old.call)
  BY <1>1, <1>4
<1>6. cache # Never => new.at - cache >= FreshFor
  <2>1. cache # Never => old.at - cache >= FreshFor
    BY DEF IInv, AskingOK, Locked
  <2>2. old.at <= clock /\ old.at \in Nat
    BY <1>1 DEF IInv, Timed, Refresh
  <2> QED BY <1>1, <1>4, <2>1, <2>2, Times
<1>7. ASSUME more, NEW k \in DOMAIN kind.calls, k >= new.call, last'[kind.calls[k].method].by = i
      PROVE  last'[kind.calls[k].method].again <= new.at
  <2>1. kind.calls[k].method \in Methods \ {CallOf(i).method}
    BY <1>1, <1>5, <1>7, KindShape DEF IInv, CallOf
  <2>2. last'[kind.calls[k].method] = last[kind.calls[k].method]
    BY <2>1
  <2>3. last[kind.calls[k].method].again <= old.at
    BY <1>1, <1>5, <1>7, <2>2 DEF IInv, AskingOK, MayStillAsk
  <2>4. old.at <= clock /\ old.at \in Nat /\ last[kind.calls[k].method].again \in Nat
    BY <1>1, <2>1 DEF IInv, Typed, Timed, Refresh, LastAsked
  <2> QED BY <1>1, <1>4, <2>2, <2>3, <2>4
<1>8. /\ new.step \in {"CALL", "WRITE"} /\ new.step # "NONE" /\ (new.step = "CALL" => more) /\ new.at <= clock
      /\ lock' = IF new.step \in {"RECHECK", "CALL", "WRITE"} THEN i ELSE lock
  BY <1>1, <1>4
<1>9. new.step = "CALL" =>
               /\ new.call \in DOMAIN kind.calls
               /\ cache # Never => new.at - cache >= FreshFor
               /\ \A k \in DOMAIN kind.calls :
                      k >= new.call /\ last'[kind.calls[k].method].by = i => last'[kind.calls[k].method].again <= new.at
  BY <1>5, <1>6, <1>7, <1>8
<1>10. ~At(i, "NONE") /\ new.cached = refresh[i].cached /\ new.since = refresh[i].since
  BY <1>1, <1>4 DEF At
<1>11. /\ lock = i => new.step \in {"RECHECK", "CALL", "WRITE"}
       /\ lock \in {Null, i} \/ lock' = lock
       /\ lock # i => last' = last
  BY <1>1, <1>8
<1> HIDE DEF more, old
<1> QED BY <1>2, <1>3, <1>5, <1>8, <1>9, <1>10, <1>11, StepKeepsIInv

LEMMA RetryKeepsIInv ==
    ASSUME IInv, NEW i \in Instances, At(i, "CALL"), Asked(i, 0), refresh[i].first > 0,
           refresh' = [refresh EXCEPT ![i] = TriedAgain(refresh[i])],
           UNCHANGED <<kind, cache, lock, requests, clock, gate>>
    PROVE  IInv'
<1> DEFINE old == refresh[i]
           new == TriedAgain(old)
<1>1. /\ lock = i /\ old \in Refresh /\ old.call \in DOMAIN kind.calls /\ clock \in Nat /\ cache \in Nat
      /\ Len(kind.calls) \in Nat /\ DOMAIN kind.calls = 1 .. Len(kind.calls) /\ old.step = "CALL"
  BY CallTyped DEF At
<1>2. refresh' = [refresh EXCEPT ![i] = new]
  OBVIOUS
<1>4. /\ new \in Refresh /\ new.step = "CALL" /\ new.call = old.call
      /\ new.at = clock /\ new.cached = old.cached /\ new.since = old.since
  BY <1>1, TriedAgainFields
<1>3. new \in Refresh
  BY <1>4
<1> HIDE DEF new
<1>5. /\ last' \in [Methods -> LastAsked] /\ GatesShut' /\ gate' \in [Instances -> Gate]
      /\ last'[CallOf(i).method].again = 0
      /\ \A m \in Methods \ {CallOf(i).method} : last'[m] = last[m]
  BY OpenAnswer
<1>6. cache # Never => new.at - cache >= FreshFor
  <2>1. cache # Never => old.at - cache >= FreshFor
    BY DEF IInv, AskingOK, Locked
  <2>2. old.at <= clock /\ old.at \in Nat
    BY <1>1 DEF IInv, Timed, Refresh
  <2> QED BY <1>1, <1>4, <2>1, <2>2, Times
<1>7. ASSUME NEW k \in DOMAIN kind.calls, k >= new.call, last'[kind.calls[k].method].by = i
      PROVE  last'[kind.calls[k].method].again <= new.at
  <2> DEFINE m == kind.calls[k].method
  <2>1. m \in Methods
    BY KindShape DEF IInv
  <2>2. CASE m = CallOf(i).method
    BY <1>1, <1>4, <1>5, <2>2
  <2>3. CASE m # CallOf(i).method
    <3>1. last'[m] = last[m]
      BY <1>5, <2>1, <2>3
    <3>2. last[m].again <= old.at
      BY <1>1, <1>4, <1>7, <3>1 DEF IInv, AskingOK, MayStillAsk
    <3>3. old.at <= clock /\ old.at \in Nat /\ last[m].again \in Nat
      BY <1>1, <2>1 DEF IInv, Typed, Timed, Refresh, LastAsked
    <3> QED BY <1>1, <1>4, <3>1, <3>2, <3>3
  <2> QED BY <2>2, <2>3
<1>8. new.call \in 0 .. Len(kind.calls) /\ new.at <= clock /\ ~At(i, "NONE")
  BY <1>1, <1>4 DEF At
<1> QED BY <1>1, <1>2, <1>3, <1>4, <1>5, <1>6, <1>7, <1>8, StepKeepsIInv

LEMMA FeedArrivesKeepsIInv ==
    ASSUME IInv, NEW i \in Instances, FeedArrives(i)
    PROVE  IInv'
<1>1. /\ At(i, "CALL") /\ UNCHANGED <<kind, cache, lock, requests, clock, gate, last>>
      /\ lock = i /\ refresh[i] \in Refresh /\ refresh[i].call \in DOMAIN kind.calls /\ Len(kind.calls) \in Nat
      /\ DOMAIN kind.calls = 1 .. Len(kind.calls)
  BY CallTyped DEF FeedArrives, Calling
<1>2. PICK old \in Refresh : old = refresh[i]
  BY <1>1
<1>3. PICK new \in Refresh :
          /\ refresh' = [refresh EXCEPT ![i] = new]
          /\ new.step = old.step /\ new.call = old.call /\ new.at = old.at /\ new.cached = old.cached
          /\ new.since = old.since
  <2>1. CASE old.first > 0 /\ refresh' = [refresh EXCEPT ![i].first = @ - 1]
    <3> DEFINE new == [old EXCEPT !.first = @ - 1]
    <3>1. refresh' = [refresh EXCEPT ![i] = new]
      BY <1>2, <2>1
    <3>2. old.first - 1 \in Nat
      BY <2>1 DEF Refresh
    <3>3. /\ new \in Refresh /\ new.step = old.step /\ new.call = old.call /\ new.at = old.at
          /\ new.cached = old.cached /\ new.since = old.since
      BY <3>2 DEF Refresh
    <3> QED BY <3>1, <3>3
  <2>2. CASE old.again > 0 /\ refresh' = [refresh EXCEPT ![i].again = @ - 1]
    <3> DEFINE new == [old EXCEPT !.again = @ - 1]
    <3>1. refresh' = [refresh EXCEPT ![i] = new]
      BY <1>2, <2>2
    <3>2. old.again - 1 \in Nat
      BY <2>2 DEF Refresh
    <3>3. /\ new \in Refresh /\ new.step = old.step /\ new.call = old.call /\ new.at = old.at
          /\ new.cached = old.cached /\ new.since = old.since
      BY <3>2 DEF Refresh
    <3> QED BY <3>1, <3>3
  <2> QED BY <1>2, <2>1, <2>2 DEF FeedArrives
<1>4. new.step = "CALL" /\ new.step # "NONE" /\ ~At(i, "NONE")
  BY <1>1, <1>2, <1>3 DEF At
<1>5. new.at <= clock /\ new.call \in 0 .. Len(kind.calls) /\ new.call \in DOMAIN kind.calls
  BY <1>1, <1>2, <1>3 DEF IInv, Timed
<1>6. cache # Never => new.at - cache >= FreshFor
  BY <1>1, <1>2, <1>3 DEF IInv, AskingOK, Locked
<1>7. \A k \in DOMAIN kind.calls :
          k >= new.call /\ last'[kind.calls[k].method].by = i => last'[kind.calls[k].method].again <= new.at
  BY <1>1, <1>2, <1>3 DEF IInv, AskingOK, MayStillAsk
<1>8. gate' \in [Instances -> Gate] /\ last' \in [Methods -> LastAsked] /\ GatesShut' /\ last' = last
  BY <1>1 DEF IInv, Typed, AskingOK, GatesShut
<1> QED BY <1>1, <1>2, <1>3, <1>4, <1>5, <1>6, <1>7, <1>8, StepKeepsIInv

\* The refresh is given up, and its requests get what it knew at its start.
LEMMA FailKeepsIInv ==
    ASSUME IInv, NEW i \in Instances, lock = i, Fail(i), UNCHANGED <<kind, cache, clock>>,
           last' \in [Methods -> LastAsked], gate' \in [Instances -> Gate], GatesShut'
    PROVE  IInv'
<1>1. refresh[i] \in Refresh /\ ~At(i, "NONE")
  BY DEF IInv, Typed, AskingOK, Locked, At
<1>2. refresh[i].cached \in Nat
  BY <1>1 DEF Refresh
<1>3. AnswerFits(Fallback(refresh[i].cached)) /\ Fallback(refresh[i].cached).entry \in {refresh[i].cached, Never}
  BY <1>2, FallbackFits DEF IInv
<1>4. PICK answer \in Answers : answer = Fallback(refresh[i].cached)
  BY <1>3 DEF AnswerFits
<1>5. AnswerFits(answer) /\ answer.entry \in {refresh[i].cached, Never}
  BY <1>3, <1>4
<1>6. Finish(i, answer) /\ lock' = Null
  BY <1>4 DEF Fail
<1>7. \A r \in Requests : requests[r].step = "WAIT" /\ requests[r].instance = i /\ answer.entry # Never
                              => answer.entry >= requests[r].cached
  BY <1>5 DEF IInv, RowsOK, JoinedOK
<1> QED BY <1>1, <1>5, <1>6, <1>7, FinishKeepsIInv

LEMMA CallStepKeepsIInv ==
    ASSUME IInv, NEW i \in Instances,
           \/ FeedArrives(i) \/ CallSucceeds(i) \/ CallSucceedsWithWait(i) \/ QuotaRunsOut(i)
           \/ CallIsInvalid(i) \/ PageIsRefused(i) \/ CallFails(i) \/ CallIsRateLimited(i)
    PROVE  IInv'
<1>1. At(i, "CALL") /\ UNCHANGED <<kind, cache, clock>> /\ lock = i
  BY CallTyped DEF FeedArrives, CallSucceeds, CallSucceedsWithWait, QuotaRunsOut, CallIsInvalid, PageIsRefused,
     CallFails, CallIsRateLimited, AllAnswered, Calling
<1>2. CASE CallSucceeds(i)
  <2>1. GoOn(i) /\ Asked(i, 0) /\ UNCHANGED <<lock, gate, requests>>
    BY <1>2 DEF CallSucceeds
  <2> QED BY <1>1, <2>1, OpenAnswer, GoOnKeepsIInv
<1>3. CASE CallSucceedsWithWait(i)
  <2>1. GoOn(i) /\ kind.gate # "NONE" /\ UNCHANGED <<lock, requests>>
    BY <1>3 DEF CallSucceedsWithWait
  <2>2. PICK wait \in Waits : gate' = Noted(i, wait) /\ Asked(i, clock + wait)
    BY <1>3 DEF CallSucceedsWithWait
  <2> QED BY <1>1, <2>1, <2>2, NotedAnswer, GoOnKeepsIInv
<1>4. CASE QuotaRunsOut(i)
  <2>1. Fail(i) /\ kind.gate = "MINUTE" /\ gate' = [gate EXCEPT ![i].blocked = MaxClock + 1] /\ Asked(i, MaxClock + 1)
    BY <1>4 DEF QuotaRunsOut
  <2> QED BY <1>1, <2>1, SpentAnswer, FailKeepsIInv
<1>5. CASE CallIsInvalid(i)
  <2>1. Fail(i) /\ Asked(i, 0) /\ UNCHANGED gate
    BY <1>5 DEF CallIsInvalid
  <2> QED BY <1>1, <2>1, OpenAnswer, FailKeepsIInv
<1>6. CASE PageIsRefused(i)
  <2>1. Fail(i)
    BY <1>6 DEF PageIsRefused
  <2>2. CASE Asked(i, 0) /\ UNCHANGED gate
    BY <1>1, <2>1, <2>2, OpenAnswer, FailKeepsIInv
  <2>3. ASSUME NEW wait \in Waits, gate' = Noted(i, wait), Asked(i, clock + wait), kind.gate # "NONE"
        PROVE  IInv'
    BY <1>1, <2>1, <2>3, NotedAnswer, FailKeepsIInv
  <2> QED BY <1>6, <2>2, <2>3 DEF PageIsRefused
<1>7. CASE CallFails(i)
  <2>1. Asked(i, 0) /\ UNCHANGED gate
    BY <1>7 DEF CallFails
  <2>2. CASE Fail(i)
    BY <1>1, <2>1, <2>2, OpenAnswer, FailKeepsIInv
  <2>3. CASE /\ refresh[i].first > 0 /\ UNCHANGED <<lock, requests>>
             /\ refresh' = [refresh EXCEPT ![i] = TriedAgain(refresh[i])]
    BY <1>1, <2>1, <2>3, RetryKeepsIInv
  <2> QED BY <1>7, <2>2, <2>3 DEF CallFails
<1>8. CASE CallIsRateLimited(i)
  <2>1. Fail(i) /\ kind.gate # "NONE"
    BY <1>8 DEF CallIsRateLimited
  <2>2. PICK wait \in Waits : gate' = Noted(i, wait) /\ Asked(i, clock + wait)
    BY <1>8 DEF CallIsRateLimited
  <2> QED BY <1>1, <2>1, <2>2, NotedAnswer, FailKeepsIInv
<1> QED BY <1>2, <1>3, <1>4, <1>5, <1>6, <1>7, <1>8, FeedArrivesKeepsIInv
-----------------------------------------------------------------------------
(* The other steps of a refresh                                            *)

LEMMA TryLockKeepsIInv ==
    ASSUME IInv, NEW i \in Instances, TryLock(i)
    PROVE  IInv'
<1> DEFINE old == refresh[i]
           step == IF lock = Null THEN "RECHECK" ELSE "LATEST"
           new == [old EXCEPT !.step = step]
<1>1. /\ old \in Refresh /\ old.step = "LOCK" /\ ~At(i, "NONE") /\ lock # i
      /\ old.call \in 0 .. Len(kind.calls) /\ old.at <= clock
  BY DEF TryLock, At, IInv, Typed, Timed, AskingOK, Locked
<1>2. /\ refresh' = [refresh EXCEPT ![i] = new] /\ UNCHANGED <<kind, cache, gate, requests, last, clock>>
      /\ lock' = IF lock = Null THEN i ELSE lock
  BY DEF TryLock, MayLock
<1>3. new \in Refresh /\ new.step = step /\ new.cached = old.cached /\ new.since = old.since /\ new.at = old.at
      /\ new.call = old.call
  <2>1. step \in {"RECHECK", "LATEST"}
    OBVIOUS
  <2> HIDE DEF step
  <2> QED BY <1>1, <2>1 DEF Refresh
<1>4. gate' \in [Instances -> Gate] /\ last' \in [Methods -> LastAsked] /\ GatesShut' /\ last' = last
  BY <1>2 DEF IInv, Typed, AskingOK, GatesShut
<1>5. /\ step # "CALL" /\ step # "NONE" /\ (lock = Null <=> step \in {"RECHECK", "CALL", "WRITE"})
  OBVIOUS
<1> HIDE DEF new, step
<1>6. lock' = IF new.step \in {"RECHECK", "CALL", "WRITE"} THEN i ELSE lock
  BY <1>2, <1>3, <1>5
<1>7. lock \in {Null, i} \/ lock' = lock
  BY <1>2
<1> QED BY <1>1, <1>2, <1>3, <1>4, <1>5, <1>6, <1>7, StepKeepsIInv

LEMMA ReadLatestKeepsIInv ==
    ASSUME IInv, NEW i \in Instances, ReadLatest(i)
    PROVE  IInv'
<1>1. /\ refresh[i] \in Refresh /\ ~At(i, "NONE") /\ lock # i /\ UNCHANGED <<kind, cache, lock, gate, last, clock>>
      /\ refresh[i].cached \in Nat
  BY DEF ReadLatest, At, IInv, Typed, AskingOK, Locked, Refresh
<1>2. PICK entry \in {refresh[i].cached, Read} : Finish(i, Fallback(entry))
  BY DEF ReadLatest
<1>3. entry \in Nat /\ (entry = refresh[i].cached \/ entry = cache \/ entry = Never)
  BY <1>1, <1>2, ReadFacts DEF IInv
<1>4. AnswerFits(Fallback(entry)) /\ Fallback(entry).entry \in {entry, Never}
  BY <1>3, FallbackFits DEF IInv
<1>5. PICK answer \in Answers : answer = Fallback(entry)
  BY <1>4 DEF AnswerFits
<1>6. AnswerFits(answer) /\ answer.entry \in {entry, Never} /\ Finish(i, answer)
  BY <1>2, <1>4, <1>5
<1>7. \A r \in Requests : requests[r].step = "WAIT" /\ requests[r].instance = i /\ answer.entry # Never
                              => answer.entry >= requests[r].cached
  <2>1. CASE answer.entry = refresh[i].cached
    BY <2>1 DEF IInv, RowsOK, JoinedOK
  <2>2. CASE answer.entry = cache
    <3>1. \A r \in Requests : requests[r].cached \in Nat
      BY DEF IInv, Typed, Request
    <3>2. cache \in Nat
      BY DEF IInv, Typed
    <3> QED BY <2>2, <3>1, <3>2 DEF IInv, RowsOK, RowGrows
  <2> QED BY <1>3, <1>6, <2>1, <2>2
<1>8. gate' \in [Instances -> Gate] /\ last' \in [Methods -> LastAsked] /\ GatesShut'
  BY <1>1 DEF IInv, Typed, AskingOK, GatesShut
<1> QED BY <1>1, <1>6, <1>7, <1>8, FinishKeepsIInv

\* A row that is fresh by now, or was just written.
LEMMA RefreshedKeepsIInv ==
    ASSUME IInv, NEW i \in Instances, lock = i, NEW entry \in Nat, Finish(i, FromCache(entry)),
           UNCHANGED <<kind, gate, last, clock>>, lock' = Null, cache' = cache \/ cache' = clock,
           (entry = cache /\ IsFresh(entry)) \/ entry = clock
    PROVE  IInv'
<1>1. ~At(i, "NONE") /\ cache \in Nat /\ clock \in Nat /\ cache <= clock
  BY DEF IInv, Typed, Timed, AskingOK, Locked, At
<1>2. AnswerFits(FromCache(entry)) /\ FromCache(entry).entry = entry
  BY <1>1, FromCacheFits DEF IInv
<1>3. PICK answer \in Answers : answer = FromCache(entry)
  BY <1>2 DEF AnswerFits
<1>4. AnswerFits(answer) /\ answer.entry = entry /\ Finish(i, answer)
  BY <1>2, <1>3
<1>5. \A r \in Requests : entry >= requests[r].cached
  <2>1. \A r \in Requests : requests[r].cached \in Nat /\ requests[r].cached <= clock
    BY DEF IInv, Typed, Timed, Request
  <2> QED BY <1>1, <2>1 DEF IInv, RowsOK, RowGrows, IsFresh
<1>6. gate' \in [Instances -> Gate] /\ last' \in [Methods -> LastAsked] /\ GatesShut'
  BY DEF IInv, Typed, AskingOK, GatesShut
<1> QED BY <1>1, <1>4, <1>5, <1>6, FinishKeepsIInv

LEMMA ReserveFacts ==
    ASSUME IInv, NEW i \in Instances, Reservable(i), gate' = [gate EXCEPT ![i] = Reserved(i)], UNCHANGED <<kind, last>>
    PROVE  /\ gate' \in [Instances -> Gate] /\ GatesShut'
           /\ \A m \in MethodsOf(i) : last[m].by = i => last[m].again <= clock
<1>1. /\ gate \in [Instances -> Gate] /\ gate[i] \in Gate /\ gate[i].next \in [Methods -> Nat] /\ gate[i].blocked \in Nat
      /\ clock \in Nat /\ clock + Minute \in Nat /\ last \in [Methods -> LastAsked]
  BY Times DEF IInv, Typed, Gate
<1>2. MethodsOf(i) \subseteq Methods
  BY KindShape DEF IInv, MethodsOf
<1>3. clock >= gate[i].blocked /\ \A m \in MethodsOf(i) : clock >= gate[i].next[m]
  BY DEF Reservable
<1>4. ASSUME NEW m \in MethodsOf(i), last[m].by = i PROVE last[m].again <= clock
  <2>1. m \in Methods /\ last[m].again <= Max(gate[i].next[m], gate[i].blocked)
    BY <1>2, <1>4 DEF IInv, AskingOK, GatesShut
  <2>2. gate[i].next[m] \in Nat /\ last[m].again \in Nat
    BY <1>1, <2>1 DEF LastAsked
  <2>3. Max(gate[i].next[m], gate[i].blocked) <= clock
    BY <1>1, <1>3, <2>2, MaxFacts
  <2>4. Max(gate[i].next[m], gate[i].blocked) \in Nat
    BY <1>1, <2>2, MaxFacts
  <2> QED BY <1>1, <2>1, <2>2, <2>3, <2>4
<1>5. CASE kind.gate # "MINUTE"
  <2>1. gate' = gate
    BY <1>1, <1>5 DEF Reserved
  <2> QED BY <1>1, <1>4, <2>1 DEF IInv, AskingOK, GatesShut
<1>6. CASE kind.gate = "MINUTE"
  <2> DEFINE next == [m \in Methods |-> IF m \in MethodsOf(i) THEN clock + Minute ELSE gate[i].next[m]]
             new == [gate[i] EXCEPT !.next = next]
  <2>1. next \in [Methods -> Nat] /\ \A m \in Methods : next[m] >= gate[i].next[m]
    <3>1. \A m \in Methods : gate[i].next[m] \in Nat
      BY <1>1
    <3>2. \A m \in MethodsOf(i) : clock + Minute >= gate[i].next[m]
      BY <1>1, <1>2, <1>3, <3>1, Times
    <3> QED BY <1>1, <3>1, <3>2
  <2>2. gate' = [gate EXCEPT ![i] = new]
    BY <1>6 DEF Reserved
  <2> HIDE DEF next
  <2>3. new \in Gate /\ new.next = next /\ new.blocked = gate[i].blocked
    BY <1>1, <2>1 DEF Gate
  <2> HIDE DEF new
  <2>4. gate' \in [Instances -> Gate] /\ gate'[i] = new /\ \A j \in Instances \ {i} : gate'[j] = gate[j]
    BY <1>1, <2>2, <2>3
  <2>5. ASSUME NEW m \in Methods, last[m].by = i PROVE last[m].again <= Max(new.next[m], new.blocked)
    <3>1. last[m].again <= Max(gate[i].next[m], gate[i].blocked) /\ last[m].again \in Nat
      BY <1>1, <2>5 DEF IInv, AskingOK, GatesShut, LastAsked
    <3>2. gate[i].next[m] \in Nat /\ new.next[m] \in Nat /\ new.next[m] >= gate[i].next[m]
      BY <1>1, <2>1, <2>3
    <3>3. Max(gate[i].next[m], gate[i].blocked) <= Max(new.next[m], new.blocked)
      BY <1>1, <2>3, <3>2 DEF Max
    <3>4. Max(gate[i].next[m], gate[i].blocked) \in Nat /\ Max(new.next[m], new.blocked) \in Nat
      BY <1>1, <2>3, <3>2, MaxFacts
    <3> QED BY <3>1, <3>3, <3>4
  <2>6. GatesShut'
    BY <2>3, <2>4, <2>5 DEF IInv, AskingOK, GatesShut
  <2> QED BY <1>4, <2>4, <2>6
<1> QED BY <1>5, <1>6

LEMMA RecheckKeepsIInv ==
    ASSUME IInv, NEW i \in Instances, Recheck(i)
    PROVE  IInv'
<1> DEFINE old == refresh[i]
           new == InCall(old, 1)
<1>1. /\ lock = i /\ old \in Refresh /\ old.step = "RECHECK" /\ ~At(i, "NONE")
      /\ UNCHANGED <<kind, cache, last, clock, left>>
  BY DEF Recheck, At, IInv, Typed, AskingOK, Locked
<1>2. Read \in Nat /\ Read <= clock /\ (Read = cache \/ Read = Never) /\ (IsFresh(Read) \/ cache = Never \/ clock - cache >= FreshFor)
  BY ReadFacts DEF IInv
<1>3. CASE IsFresh(Read) /\ lock' = Null /\ Finish(i, FromCache(Read)) /\ UNCHANGED gate
  <2>1. Read = cache
    BY <1>2, <1>3 DEF IsFresh
  <2> QED BY <1>1, <1>2, <1>3, <2>1, RefreshedKeepsIInv
<1>4. CASE Fail(i) /\ UNCHANGED gate
  <2>1. gate' \in [Instances -> Gate] /\ last' \in [Methods -> LastAsked] /\ GatesShut'
    BY <1>1, <1>4 DEF IInv, Typed, AskingOK, GatesShut
  <2> QED BY <1>1, <1>4, <2>1, FailKeepsIInv
<1>5. CASE /\ ~IsFresh(Read) /\ Reservable(i) /\ gate' = [gate EXCEPT ![i] = Reserved(i)]
           /\ refresh' = [refresh EXCEPT ![i] = InCall(@, 1)]
           /\ UNCHANGED <<lock, requests>>
  <2>1. refresh' = [refresh EXCEPT ![i] = new]
    BY <1>5
  <2>2. clock \in Nat /\ cache \in Nat
    BY DEF IInv, Typed
  <2>5. 1 \in DOMAIN kind.calls /\ 1 \in 0 .. Len(kind.calls)
    BY KindShape DEF IInv
  <2>4. /\ new \in Refresh
        /\ new.step = "CALL" /\ new.call = 1 /\ new.at = clock /\ new.cached = old.cached /\ new.since = old.since
    BY <1>1, <2>5, InCallFields DEF IInv
  <2>3. new \in Refresh
    BY <2>4
  <2> HIDE DEF new
  <2>6. cache # Never => new.at - cache >= FreshFor
    BY <1>2, <1>5, <2>4
  <2>7. gate' \in [Instances -> Gate] /\ GatesShut' /\ \A m \in MethodsOf(i) : last[m].by = i => last[m].again <= clock
    BY <1>1, <1>5, ReserveFacts
  <2>8. \A k \in DOMAIN kind.calls :
            last'[kind.calls[k].method].by = i => last'[kind.calls[k].method].again <= new.at
    BY <1>1, <2>4, <2>7 DEF MethodsOf
  <2>9. last' = last /\ last' \in [Methods -> LastAsked] /\ new.at <= clock
    BY <1>1, <2>2, <2>4 DEF IInv, Typed
  <2> HIDE DEF old
  <2> QED BY <1>1, <1>5, <2>1, <2>3, <2>4, <2>5, <2>6, <2>7, <2>8, <2>9, StepKeepsIInv DEF old
<1> QED BY <1>3, <1>4, <1>5 DEF Recheck, Rechecked

LEMMA WriteCacheKeepsIInv ==
    ASSUME IInv, NEW i \in Instances, WriteCache(i)
    PROVE  IInv'
<1>1. lock = i /\ clock \in Nat /\ UNCHANGED <<kind, gate, last, clock, left>>
  BY DEF WriteCache, At, IInv, Typed, AskingOK, Locked
<1>2. CASE cache' = clock /\ lock' = Null /\ Finish(i, FromCache(clock))
  <2>1. PICK entry \in Nat : entry = clock
    BY <1>1
  <2>2. Finish(i, FromCache(entry))
    BY <1>2, <2>1
  <2> QED BY <1>1, <1>2, <2>1, <2>2, RefreshedKeepsIInv
<1>3. CASE Fail(i) /\ UNCHANGED cache
  <2>1. gate' \in [Instances -> Gate] /\ last' \in [Methods -> LastAsked] /\ GatesShut'
    BY <1>1, <1>3 DEF IInv, Typed, AskingOK, GatesShut
  <2> QED BY <1>1, <1>3, <2>1, FailKeepsIInv
<1> QED BY <1>2, <1>3 DEF WriteCache
-----------------------------------------------------------------------------
(* The requests                                                            *)

\* One request changes, and reads nothing that was not there.
LEMMA RequestKeepsIInv ==
    ASSUME IInv, NEW r \in Requests, NEW new \in Request, requests' = [requests EXCEPT ![r] = new],
           UNCHANGED <<kind, cache, lock, refresh, gate, last, clock>>,
           new.cached \in {requests[r].cached, cache, Never},
           new.step = "READ" => /\ new.instance \in Instances
                                /\ new.cached # Never => new.cached = cache,
           new.step = "WAIT" => /\ new.instance \in Instances /\ ~At(new.instance, "NONE")
                                /\ refresh[new.instance].cached # Never => refresh[new.instance].cached >= new.cached,
           AnswerFits(new.answer),
           new.step = "DONE" /\ new.answer.entry # Never => new.answer.entry >= new.cached
    PROVE  IInv'
<1>1. /\ clock \in Nat /\ cache \in Nat /\ cache <= clock
      /\ requests \in [Requests -> Request] /\ refresh \in [Instances -> Refresh]
  BY DEF IInv, Typed, Timed
<1>2. /\ requests' \in [Requests -> Request] /\ requests'[r] = new
      /\ \A q \in Requests \ {r} : requests'[q] = requests[q]
  BY <1>1
<1>3. \A q \in Requests : requests[q].cached \in Nat /\ requests'[q].cached \in Nat
  BY <1>1, <1>2 DEF Request
<1>4. Typed' /\ Timed'
  <2>1. Typed'
    BY <1>2 DEF IInv, Typed
  <2>2. new.cached <= clock
    BY <1>1 DEF IInv, Timed, Never
  <2>3. Timed'
    BY <1>2, <2>2 DEF IInv, Timed, At
  <2> QED BY <2>1, <2>3
<1>5. AskingOK'
  BY DEF IInv, AskingOK, Locked, GatesShut, MayStillAsk, At
<1>6. RowGrows'
  BY <1>1, <1>2, <1>3 DEF IInv, RowsOK, RowGrows, Never
<1>7. ReadsOrdered'
  <2>1. ASSUME NEW mine \in Nat, NEW since \in Nat, Newest(mine, since) PROVE Newest(mine, since)'
    BY <1>1, <1>2, <2>1 DEF Newest, Never
  <2>2. ASSUME NEW q \in Requests, requests'[q].step = "READ" PROVE Newest(requests[q].cached, clock)'
    <3>1. CASE q = r
      <4>1. requests'[q].cached # Never => requests'[q].cached = cache
        BY <1>2, <2>2, <3>1
      <4> QED BY <1>1, <1>3, <1>6, <4>1 DEF Newest, RowGrows
    <3>2. CASE q # r
      <4>1. requests'[q] = requests[q] /\ Newest(requests[q].cached, clock)
        BY <1>2, <2>2, <3>2 DEF IInv, RowsOK, ReadsOrdered
      <4>2. PICK mine \in Nat, since \in Nat : mine = requests[q].cached /\ since = clock
        BY <1>1, <1>3
      <4>3. Newest(mine, since)'
        BY <2>1, <4>1, <4>2
      <4> QED BY <4>1, <4>2, <4>3 DEF Newest
    <3> QED BY <3>1, <3>2
  <2>3. ASSUME NEW j \in Instances, ~At(j, "NONE")' PROVE Newest(refresh[j].cached, refresh[j].since)'
    <3>1. Newest(refresh[j].cached, refresh[j].since) /\ refresh[j] \in Refresh
      BY <1>1, <2>3 DEF IInv, RowsOK, ReadsOrdered, At
    <3>2. PICK mine \in Nat, since \in Nat : mine = refresh[j].cached /\ since = refresh[j].since
      BY <3>1 DEF Refresh
    <3>3. Newest(mine, since)'
      BY <2>1, <3>1, <3>2
    <3> QED BY <3>2, <3>3 DEF Newest
  <2> QED BY <2>2, <2>3 DEF ReadsOrdered
<1>8. JoinedOK'
  BY <1>2 DEF IInv, RowsOK, JoinedOK, At
<1>9. AnswersInTime'
  BY <1>2 DEF IInv, AnswersInTime, AnswersBounded, NeverOlder, AnswerFits
<1> QED BY <1>4, <1>5, <1>6, <1>7, <1>8, <1>9 DEF IInv, RowsOK

LEMMA NothingFits ==
    /\ NoAnswer \in Answers /\ AnswerFits(NoAnswer)
    /\ NoRequest \in Request /\ NoRequest.step = "IDLE" /\ NoRequest.cached = Never /\ NoRequest.answer = NoAnswer
    /\ NoRefresh \in Refresh /\ NoRefresh.step = "NONE" /\ NoRefresh.cached = Never /\ NoRefresh.call = 0 /\ NoRefresh.at = 0
<1>1. NoAnswer \in Answers /\ AnswerFits(NoAnswer)
  BY DEF NoAnswer, Answers, AnswerFits, Never
<1>2. NoRequest \in Request /\ NoRequest.step = "IDLE" /\ NoRequest.cached = Never /\ NoRequest.answer = NoAnswer
  BY <1>1 DEF NoRequest, Request, Never
<1>3. NoRefresh \in Refresh /\ NoRefresh.step = "NONE" /\ NoRefresh.cached = Never /\ NoRefresh.call = 0 /\ NoRefresh.at = 0
  BY DEF NoRefresh, Refresh, Never
<1> QED BY <1>1, <1>2, <1>3

LEMMA AskKeepsIInv ==
    ASSUME IInv, NEW r \in Requests, NEW i \in Instances, Ask(r, i)
    PROVE  IInv'
<1> PICK failed \in BOOLEAN : requests' = [requests EXCEPT ![r] =
            [NoRequest EXCEPT !.step = "READ", !.instance = i, !.readFailed = failed,
                              !.cached = IF failed THEN Never ELSE Read]]
  BY DEF Ask
<1> DEFINE found == IF failed THEN Never ELSE Read
           new == [NoRequest EXCEPT !.step = "READ", !.instance = i, !.readFailed = failed, !.cached = found]
<1>1. found \in Nat /\ (found = cache \/ found = Never)
  BY ReadFacts DEF IInv, Never
<1>2. requests' = [requests EXCEPT ![r] = new]
  OBVIOUS
<1> HIDE DEF found
<1>3. new \in Request
  BY <1>1, NothingFits DEF Request
<1>4. new.step = "READ" /\ new.instance = i /\ new.cached = found /\ new.answer = NoAnswer
  BY NothingFits DEF Request
<1> HIDE DEF new
<1>5. new.cached \in {requests[r].cached, cache, Never} /\ (new.cached # Never => new.cached = cache)
  BY <1>1, <1>4
<1>6. UNCHANGED <<kind, cache, lock, refresh, gate, last, clock>> /\ AnswerFits(new.answer)
  BY <1>4, NothingFits DEF Ask
<1> QED BY <1>2, <1>3, <1>4, <1>5, <1>6, RequestKeepsIInv

LEMMA RequestTyped ==
    ASSUME IInv, NEW r \in Requests, requests[r].step = "READ"
    PROVE  /\ requests[r] \in Request /\ requests[r].instance \in Instances
           /\ requests[r].cached \in Nat /\ requests[r].cached <= clock
           /\ AnswerFits(requests[r].answer)
BY DEF IInv, Typed, Timed, RowsOK, JoinedOK, Request, AnswersInTime, AnswersBounded, AnswerFits

\* A request is answered with the row it has read.
LEMMA AnswerKeepsIInv ==
    ASSUME IInv, NEW r \in Requests, requests[r].step = "READ", NEW answer \in Answers, AnswerFits(answer),
           answer.entry \in {requests[r].cached, Never}, Answer(r, answer),
           UNCHANGED <<kind, cache, lock, refresh, gate, last, clock>>
    PROVE  IInv'
<1> DEFINE old == requests[r]
           new == [old EXCEPT !.step = "DONE", !.answer = answer]
<1>1. old \in Request /\ old.cached \in Nat
  BY RequestTyped
<1>2. requests' = [requests EXCEPT ![r] = new]
  BY DEF Answer
<1>3. new \in Request /\ new.step = "DONE" /\ new.answer = answer /\ new.cached = old.cached
  BY <1>1 DEF Request
<1> HIDE DEF new
<1>4. new.step = "DONE" /\ new.answer.entry # Never => new.answer.entry >= new.cached
  BY <1>1, <1>3
<1> QED BY <1>2, <1>3, <1>4, RequestKeepsIInv

LEMMA StartRefreshKeepsIInv ==
    ASSUME IInv, NEW r \in Requests, requests[r].step = "READ", At(requests[r].instance, "NONE"),
           requests' = [requests EXCEPT ![r].step = "WAIT"],
           refresh' = [refresh EXCEPT ![requests[r].instance] =
                          [NoRefresh EXCEPT !.step = "LOCK", !.cached = requests[r].cached, !.since = clock]],
           UNCHANGED <<kind, cache, lock, gate, last, clock>>
    PROVE  IInv'
<1> DEFINE i == requests[r].instance
           new == [NoRefresh EXCEPT !.step = "LOCK", !.cached = requests[r].cached, !.since = clock]
<1>1. /\ requests[r] \in Request /\ i \in Instances /\ requests[r].cached \in Nat /\ requests[r].cached <= clock
      /\ clock \in Nat /\ refresh \in [Instances -> Refresh] /\ requests \in [Requests -> Request]
  BY RequestTyped DEF IInv, Typed
<1>2. new \in Refresh /\ new.step = "LOCK" /\ new.cached = requests[r].cached /\ new.since = clock
      /\ new.call = 0 /\ new.at = 0
  BY <1>1, NothingFits DEF Refresh
<1> HIDE DEF new, i
<1>3. /\ refresh' \in [Instances -> Refresh] /\ refresh'[i] = new
      /\ \A j \in Instances \ {i} : refresh'[j] = refresh[j]
  BY <1>1, <1>2 DEF i, new
<1>4. /\ requests' \in [Requests -> Request]
      /\ \A q \in Requests : /\ requests'[q].cached = requests[q].cached
                             /\ requests'[q].instance = requests[q].instance
                             /\ requests'[q].readFailed = requests[q].readFailed
                             /\ requests'[q].answer = requests[q].answer
                             /\ requests'[q].step = IF q = r THEN "WAIT" ELSE requests[q].step
  <2>1. [requests[r] EXCEPT !.step = "WAIT"] \in Request
    BY <1>1 DEF Request
  <2> QED BY <1>1, <2>1 DEF Request
<1>5. \A j \in Instances : At(j, "NONE")' => At(j, "NONE")
  BY <1>2, <1>3 DEF At
<1>6. Typed'
  BY <1>3, <1>4 DEF IInv, Typed
<1>7. Timed'
  <2>1. RefreshTime \in Nat /\ Len(kind.calls) \in Nat
    BY Times, KindShape DEF IInv
  <2>2. \A j \in Instances :
            /\ refresh'[j].cached <= clock /\ refresh'[j].at <= clock /\ refresh'[j].call \in 0 .. Len(kind.calls)
            /\ refresh'[j].step # "NONE" => refresh'[j].since <= clock /\ clock <= refresh'[j].since + RefreshTime
    <3> TAKE j \in Instances
    <3>1. CASE j = i
      <4>1. refresh'[j] = new /\ requests[r].cached <= clock
        BY <1>1, <1>3, <3>1
      <4>2. new.cached <= clock /\ new.at <= clock /\ new.since <= clock /\ clock <= new.since + RefreshTime
        BY <1>1, <1>2, <2>1
      <4>3. new.call \in 0 .. Len(kind.calls)
        BY <1>2, <2>1
      <4> QED BY <4>1, <4>2, <4>3
    <3>2. CASE j # i
      BY <1>3, <3>2 DEF IInv, Timed, At
    <3> QED BY <3>1, <3>2
  <2> QED BY <1>4, <2>2 DEF IInv, Timed, At
<1>8. AskingOK'
  <2>1. Locked'
    BY <1>2, <1>3 DEF IInv, AskingOK, Locked, At, i
  <2>2. GatesShut'
    BY DEF IInv, AskingOK, GatesShut
  <2>3. MayStillAsk'
    BY <1>2, <1>3 DEF IInv, AskingOK, MayStillAsk, At
  <2> QED BY <2>1, <2>2, <2>3 DEF AskingOK
<1>9. RowGrows'
  BY <1>2, <1>3, <1>4 DEF IInv, RowsOK, RowGrows
<1>10. Newest(requests[r].cached, clock)
  BY DEF IInv, RowsOK, ReadsOrdered
<1>11. ReadsOrdered'
  <2>1. \A q \in Requests : requests'[q].step = "READ" => Newest(requests[q].cached, clock)'
    BY <1>4 DEF IInv, RowsOK, ReadsOrdered, Newest
  <2>2. ASSUME NEW j \in Instances, ~At(j, "NONE")' PROVE Newest(refresh[j].cached, refresh[j].since)'
    <3>1. CASE j = i
      BY <1>2, <1>3, <1>4, <1>10, <3>1 DEF Newest
    <3>2. CASE j # i
      BY <1>3, <1>4, <2>2, <3>2 DEF IInv, RowsOK, ReadsOrdered, Newest, At
    <3> QED BY <3>1, <3>2
  <2> QED BY <2>1, <2>2 DEF ReadsOrdered
<1>12. JoinedOK'
  <2>1. ASSUME NEW q \in Requests, requests'[q].step = "WAIT"
        PROVE  LET joined == refresh'[requests'[q].instance] IN
               joined.step # "NONE" /\ (joined.cached # Never => joined.cached >= requests'[q].cached)
    <3>1. CASE q = r
      BY <1>1, <1>2, <1>3, <1>4, <3>1 DEF i
    <3>2. CASE q # r
      <4>1. requests[q].step = "WAIT"
        BY <1>4, <2>1, <3>2
      <4>2. requests[q].instance # i /\ requests[q].instance \in Instances
        BY <4>1 DEF IInv, RowsOK, JoinedOK, At, i
      <4>3. refresh'[requests'[q].instance] = refresh[requests[q].instance] /\ requests'[q].cached = requests[q].cached
        BY <1>3, <1>4, <4>2
      <4> QED BY <4>1, <4>3 DEF IInv, RowsOK, JoinedOK
    <3> QED BY <3>1, <3>2
  <2>2. \A q \in Requests : requests'[q].step \in {"READ", "WAIT"} => requests'[q].instance \in Instances
    BY <1>1, <1>4 DEF IInv, RowsOK, JoinedOK, i
  <2> QED BY <2>1, <2>2 DEF JoinedOK
<1>13. AnswersInTime'
  BY <1>4 DEF IInv, AnswersInTime, AnswersBounded, NeverOlder
<1> QED BY <1>6, <1>7, <1>8, <1>9, <1>11, <1>12, <1>13 DEF IInv, RowsOK

\* A refresh takes less time than a row stays fresh: a request that joins one
\* has read no row that was written since it began.
LEMMA LoadSourceKeepsIInv ==
    ASSUME IInv, NEW r \in Requests, LoadSource(r)
    PROVE  IInv'
<1> DEFINE old == requests[r]
           i == old.instance
           new == [old EXCEPT !.step = "WAIT"]
<1>1. /\ old.step = "READ" /\ old \in Request /\ i \in Instances /\ old.cached \in Nat /\ old.cached <= clock
      /\ AnswerFits(old.answer) /\ clock \in Nat /\ UNCHANGED <<kind, cache, lock, gate, last, clock>>
  BY RequestTyped DEF LoadSource, IInv, Typed
<1>2. CASE IsFresh(old.cached)
  <2>1. AnswerFits(FromCache(old.cached)) /\ FromCache(old.cached).entry = old.cached
    BY <1>1, <1>2, FromCacheFits DEF IInv
  <2>2. PICK answer \in Answers : answer = FromCache(old.cached)
    BY <2>1 DEF AnswerFits
  <2>3. Answer(r, answer) /\ UNCHANGED refresh
    BY <1>2, <2>2 DEF LoadSource, ServedFromCache
  <2> QED BY <1>1, <2>1, <2>2, <2>3, AnswerKeepsIInv
<1>3. CASE ~IsFresh(old.cached) /\ At(i, "NONE")
  BY <1>1, <1>3, StartRefreshKeepsIInv DEF LoadSource, ServedFromCache, At
<1>4. CASE ~IsFresh(old.cached) /\ ~At(i, "NONE")
  <2>1. requests' = [requests EXCEPT ![r] = new] /\ UNCHANGED refresh
    BY <1>4 DEF LoadSource, ServedFromCache, At
  <2>2. new \in Request /\ new.step = "WAIT" /\ new.instance = i /\ new.cached = old.cached /\ new.answer = old.answer
    BY <1>1 DEF Request
  <2> HIDE DEF new
  <2>3. refresh[i].cached # Never => refresh[i].cached >= old.cached
    <3> SUFFICES ASSUME refresh[i].cached # Never, ~(refresh[i].cached >= old.cached) PROVE FALSE
      OBVIOUS
    <3>1. refresh[i].cached \in Nat /\ refresh[i].since \in Nat /\ clock <= refresh[i].since + RefreshTime
      BY <1>1, <1>4 DEF IInv, Typed, Timed, Refresh
    <3>2. old.cached # Never
      BY <1>1, <3>1 DEF Never
    <3>3. clock - old.cached >= FreshFor
      BY <1>1, <1>4, <3>2, Times DEF IsFresh
    <3>4. old.cached < refresh[i].since
      BY <1>1, <3>1, <3>3, Times
    <3>5. Newest(refresh[i].cached, refresh[i].since)
      BY <1>1, <1>4 DEF IInv, RowsOK, ReadsOrdered
    <3>6. old.cached <= refresh[i].cached \/ old.cached >= refresh[i].since
      BY <3>5 DEF Newest
    <3> QED BY <1>1, <3>1, <3>4, <3>6
  <2> QED BY <1>1, <1>4, <2>1, <2>2, <2>3, RequestKeepsIInv
<1> QED BY <1>2, <1>3, <1>4

LEMMA ReadSourceStatusKeepsIInv ==
    ASSUME IInv, NEW r \in Requests, ReadSourceStatus(r)
    PROVE  IInv'
<1> DEFINE entry == requests[r].cached
           what == IF IsFresh(entry) THEN FromCache(entry) ELSE Fallback(entry)
<1>1. /\ requests[r].step = "READ" /\ entry \in Nat /\ entry <= clock
      /\ UNCHANGED <<kind, cache, lock, refresh, gate, last, clock>> /\ Answer(r, what)
  BY RequestTyped DEF ReadSourceStatus, ServedFromCache
<1>2. AnswerFits(what) /\ what.entry \in {entry, Never}
  BY <1>1, FromCacheFits, FallbackFits DEF IInv
<1>3. PICK answer \in Answers : answer = what
  BY <1>2 DEF AnswerFits
<1> QED BY <1>1, <1>2, <1>3, AnswerKeepsIInv

-----------------------------------------------------------------------------
(* The passing of time and the loss of a process                           *)

LEMMA PurgeExpiredKeepsIInv ==
    ASSUME IInv, PurgeExpired
    PROVE  IInv'
<1>1. cache' = Never /\ UNCHANGED <<kind, lock, refresh, gate, requests, last, clock, left>>
  BY DEF PurgeExpired
<1>2. /\ clock \in Nat /\ refresh \in [Instances -> Refresh] /\ requests \in [Requests -> Request]
  BY DEF IInv, Typed
<1>3. Typed' /\ Timed'
  BY <1>1, <1>2 DEF IInv, Typed, Timed, At, Never
<1>4. AskingOK'
  BY <1>1 DEF IInv, AskingOK, Locked, GatesShut, MayStillAsk, At
<1>5. RowGrows'
  BY <1>1 DEF RowGrows
<1>6. ReadsOrdered'
  <2>1. \A r \in Requests : requests[r].cached \in Nat
    BY <1>2 DEF Request
  <2>2. \A i \in Instances : refresh[i].cached \in Nat
    BY <1>2 DEF Refresh
  <2>3. \A r \in Requests : requests[r].step = "READ" => Newest(requests[r].cached, clock)'
    BY <1>1, <2>1 DEF IInv, RowsOK, ReadsOrdered, Newest, Never
  <2>4. \A i \in Instances : ~At(i, "NONE") => Newest(refresh[i].cached, refresh[i].since)'
    BY <1>1, <2>2 DEF IInv, RowsOK, ReadsOrdered, Newest, Never
  <2> QED BY <1>1, <2>3, <2>4 DEF ReadsOrdered, At
<1>7. JoinedOK' /\ AnswersInTime'
  BY <1>1 DEF IInv, RowsOK, JoinedOK, AnswersInTime, AnswersBounded, NeverOlder
<1> QED BY <1>3, <1>4, <1>5, <1>6, <1>7 DEF IInv, RowsOK

\* Requests that end, and refreshes that are lost with those that wait for them.
LEMMA ForgetKeepsRows ==
    ASSUME IInv, UNCHANGED cache, clock' \in Nat, clock <= clock',
           requests' \in [Requests -> Request], refresh' \in [Instances -> Refresh],
           \A r \in Requests : requests'[r] \in {requests[r], NoRequest},
           \A i \in Instances : refresh'[i] \in {refresh[i], NoRefresh},
           clock' # clock => \A r \in Requests : requests[r].step # "READ",
           \A r \in Requests : requests'[r].step = "WAIT" => refresh'[requests[r].instance] = refresh[requests[r].instance]
    PROVE  RowsOK' /\ AnswersInTime'
<1>1. /\ clock \in Nat /\ cache \in Nat /\ cache <= clock
      /\ requests \in [Requests -> Request] /\ refresh \in [Instances -> Refresh]
  BY DEF IInv, Typed, Timed
<1>2. /\ \A r \in Requests : requests[r].cached \in Nat /\ requests'[r].cached \in {requests[r].cached, Never}
      /\ \A i \in Instances : refresh[i].cached \in Nat /\ refresh'[i].cached \in {refresh[i].cached, Never}
  BY <1>1, NothingFits DEF Request, Refresh
<1>3. RowGrows'
  BY <1>1, <1>2 DEF IInv, RowsOK, RowGrows, Never
<1>4. ASSUME NEW mine \in Nat, NEW since \in Nat, Newest(mine, since) PROVE Newest(mine, since)'
  BY <1>1, <1>2, <1>4 DEF Newest, Never
<1>5. ReadsOrdered'
  <2>1. ASSUME NEW r \in Requests, requests'[r].step = "READ" PROVE Newest(requests[r].cached, clock)'
    <3>1. requests'[r] = requests[r] /\ clock' = clock /\ requests[r].step = "READ"
      BY <2>1, NothingFits
    <3>2. Newest(requests[r].cached, clock)
      BY <3>1 DEF IInv, RowsOK, ReadsOrdered
    <3>3. PICK mine \in Nat, since \in Nat : mine = requests[r].cached /\ since = clock
      BY <1>1, <1>2
    <3>4. Newest(mine, since)'
      BY <1>4, <3>2, <3>3
    <3> QED BY <3>1, <3>3, <3>4 DEF Newest
  <2>2. ASSUME NEW i \in Instances, ~At(i, "NONE")' PROVE Newest(refresh[i].cached, refresh[i].since)'
    <3>1. refresh'[i] = refresh[i] /\ refresh[i].step # "NONE" /\ refresh[i] \in Refresh
      BY <1>1, <2>2, NothingFits DEF At
    <3>2. Newest(refresh[i].cached, refresh[i].since)
      BY <3>1 DEF IInv, RowsOK, ReadsOrdered, At
    <3>3. PICK mine \in Nat, since \in Nat : mine = refresh[i].cached /\ since = refresh[i].since
      BY <3>1 DEF Refresh
    <3>4. Newest(mine, since)'
      BY <1>4, <3>2, <3>3
    <3> QED BY <3>1, <3>3, <3>4 DEF Newest
  <2> QED BY <2>1, <2>2 DEF ReadsOrdered
<1>6. JoinedOK'
  <2>1. ASSUME NEW r \in Requests, requests'[r].step \in {"READ", "WAIT"} PROVE requests'[r] = requests[r]
    BY <2>1, NothingFits
  <2> QED BY <2>1 DEF IInv, RowsOK, JoinedOK
<1>7. AnswersInTime'
  <2>1. \A r \in Requests : AnswerFits(requests[r].answer)
    BY <1>1 DEF IInv, AnswersInTime, AnswersBounded, AnswerFits, Request
  <2>2. \A r \in Requests : requests'[r] = requests[r] \/ (requests'[r].step = "IDLE" /\ requests'[r].answer = NoAnswer)
    BY NothingFits
  <2>3. AnswersBounded'
    BY <2>1, <2>2, NothingFits DEF AnswersBounded, AnswerFits
  <2>4. NeverOlder'
    BY <2>2 DEF IInv, AnswersInTime, NeverOlder
  <2> QED BY <2>3, <2>4 DEF AnswersInTime
<1> QED BY <1>3, <1>5, <1>6, <1>7 DEF RowsOK

LEMMA RestartKeepsIInv ==
    ASSUME IInv, NEW i \in Instances, Restart(i)
    PROVE  IInv'
<1>1. /\ lock' = (IF lock = i THEN Null ELSE lock) /\ UNCHANGED <<kind, cache, clock>>
      /\ refresh' = [refresh EXCEPT ![i] = NoRefresh]
      /\ gate' = [gate EXCEPT ![i] = OpenGate]
      /\ requests' = [r \in Requests |-> IF requests[r].instance = i THEN NoRequest ELSE requests[r]]
      /\ last' = [m \in Methods |-> IF last[m].by = i THEN [last[m] EXCEPT !.by = Null] ELSE last[m]]
  BY DEF Restart
<1>2. /\ clock \in Nat /\ cache \in Nat /\ refresh \in [Instances -> Refresh] /\ requests \in [Requests -> Request]
      /\ gate \in [Instances -> Gate] /\ last \in [Methods -> LastAsked]
  BY DEF IInv, Typed
<1>3. /\ refresh' \in [Instances -> Refresh] /\ refresh'[i] = NoRefresh
      /\ \A j \in Instances \ {i} : refresh'[j] = refresh[j]
  BY <1>1, <1>2, NothingFits
<1>4. requests' \in [Requests -> Request] /\ \A r \in Requests : requests'[r] \in {requests[r], NoRequest}
  BY <1>1, <1>2, NothingFits
<1>5. /\ gate' \in [Instances -> Gate] /\ gate'[i] = OpenGate /\ OpenGate.blocked = 0
      /\ \A j \in Instances \ {i} : gate'[j] = gate[j]
  <2>1. OpenGate \in Gate /\ OpenGate.blocked = 0
    BY DEF OpenGate, Gate
  <2> QED BY <1>1, <1>2, <2>1
<1>6. /\ last' \in [Methods -> LastAsked]
      /\ \A m \in Methods : IF last[m].by = i THEN last'[m].by = Null ELSE last'[m] = last[m]
  <2>1. \A m \in Methods : [last[m] EXCEPT !.by = Null] \in LastAsked /\ [last[m] EXCEPT !.by = Null].by = Null
    BY <1>2 DEF LastAsked
  <2> QED BY <1>1, <1>2, <2>1
<1>7. Typed'
  BY <1>1, <1>3, <1>4, <1>5, <1>6 DEF IInv, Typed
<1>8. Timed'
  <2>1. Len(kind.calls) \in Nat
    BY KindShape DEF IInv
  <2> QED BY <1>1, <1>2, <1>3, <1>4, <2>1, NothingFits DEF IInv, Timed, At, Never
<1>9. AskingOK'
  <2>1. Null \notin Instances
    BY FeedAssumption
  <2>2. Locked'
    BY <1>1, <1>3, <2>1, NothingFits DEF IInv, AskingOK, Locked, At
  <2>3. GatesShut'
    BY <1>1, <1>5, <1>6, <2>1 DEF IInv, AskingOK, GatesShut
  <2>4. MayStillAsk'
    <3>1. \A k \in DOMAIN kind.calls : kind.calls[k].method \in Methods
      BY KindShape DEF IInv
    <3>2. ASSUME NEW j \in Instances, At(j, "CALL")'
          PROVE  j # i /\ refresh'[j] = refresh[j] /\ At(j, "CALL")
      BY <1>3, <3>2, NothingFits DEF At
    <3> QED BY <1>1, <1>6, <2>1, <3>1, <3>2 DEF IInv, AskingOK, MayStillAsk
  <2> QED BY <2>2, <2>3, <2>4 DEF AskingOK
<1>10. \A j \in Instances : refresh'[j] \in {refresh[j], NoRefresh}
  BY <1>3
<1>11. \A r \in Requests : requests'[r].step = "WAIT" => refresh'[requests[r].instance] = refresh[requests[r].instance]
  <2>1. ASSUME NEW r \in Requests, requests'[r].step = "WAIT" PROVE requests[r].instance \in Instances \ {i}
    BY <1>1, <2>1, NothingFits DEF IInv, RowsOK, JoinedOK
  <2> QED BY <1>3, <2>1
<1>12. clock' \in Nat /\ clock <= clock' /\ clock' = clock
  BY <1>1, <1>2
<1>13. RowsOK' /\ AnswersInTime'
  BY <1>1, <1>3, <1>4, <1>10, <1>11, <1>12, ForgetKeepsRows
<1> QED BY <1>7, <1>8, <1>9, <1>13 DEF IInv

LEMMA TickKeepsIInv ==
    ASSUME IInv, Tick
    PROVE  IInv'
<1>1. /\ clock' = clock + 1 /\ UNCHANGED <<kind, cache, lock, refresh, gate, last, left>>
      /\ \A r \in Requests : requests[r].step # "READ"
      /\ \A i \in Instances : ~At(i, "NONE") => clock < refresh[i].since + RefreshTime
      /\ requests' = [r \in Requests |-> IF requests[r].step = "DONE" THEN NoRequest ELSE requests[r]]
  BY DEF Tick
<1>2. /\ clock \in Nat /\ cache \in Nat /\ refresh \in [Instances -> Refresh] /\ requests \in [Requests -> Request]
      /\ clock' \in Nat /\ clock <= clock' /\ cache <= clock
  BY <1>1 DEF IInv, Typed, Timed
<1>3. requests' \in [Requests -> Request] /\ \A r \in Requests : requests'[r] \in {requests[r], NoRequest}
  BY <1>1, <1>2, NothingFits
<1>4. Typed'
  BY <1>1, <1>2, <1>3 DEF IInv, Typed
<1>5. Timed'
  <2>1. \A i \in Instances : refresh[i].cached \in Nat /\ refresh[i].at \in Nat /\ refresh[i].since \in Nat
    BY <1>2 DEF Refresh
  <2>2. \A r \in Requests : requests[r].cached \in Nat /\ requests'[r].cached \in {requests[r].cached, Never}
    BY <1>2, <1>3, NothingFits DEF Request
  <2>3. \A i \in Instances :
            /\ refresh[i].cached <= clock + 1 /\ refresh[i].at <= clock + 1
            /\ ~At(i, "NONE") => refresh[i].since <= clock + 1 /\ clock + 1 <= refresh[i].since + RefreshTime
    BY <1>1, <1>2, <2>1, Times DEF IInv, Timed
  <2>4. \A r \in Requests : requests'[r].cached <= clock + 1
    BY <1>2, <2>2 DEF IInv, Timed, Never
  <2> QED BY <1>1, <1>2, <2>3, <2>4 DEF IInv, Timed, At
<1>6. AskingOK'
  BY <1>1 DEF IInv, AskingOK, Locked, GatesShut, MayStillAsk, At
<1>7. RowsOK' /\ AnswersInTime'
  <2>1. \A i \in Instances : refresh'[i] \in {refresh[i], NoRefresh}
    BY <1>1
  <2> QED BY <1>1, <1>2, <1>3, <2>1, ForgetKeepsRows
<1> QED BY <1>4, <1>5, <1>6, <1>7 DEF IInv
-----------------------------------------------------------------------------
(* The inductive invariant                                                 *)

LEMMA InitIInv == Init => IInv
<1> SUFFICES ASSUME Init PROVE IInv
  OBVIOUS
<1>1. /\ clock = 1 /\ cache \in {0, 1} /\ lock = Null /\ kind \in Kinds
      /\ refresh = [i \in Instances |-> NoRefresh] /\ requests = [r \in Requests |-> NoRequest]
      /\ gate = [i \in Instances |-> OpenGate] /\ last = [m \in Methods |-> NotAsked]
  BY DEF Init, Never
<1>2. OpenGate \in Gate /\ OpenGate.blocked = 0 /\ NotAsked \in LastAsked /\ NotAsked.by = Null
  BY DEF OpenGate, Gate, NotAsked, LastAsked
<1>3. Typed
  BY <1>1, <1>2, NothingFits DEF Typed
<1>4. Timed
  <2>1. Len(kind.calls) \in Nat
    BY <1>3, KindShape
  <2> QED BY <1>1, <2>1, NothingFits DEF Timed, At, Never
<1>5. AskingOK
  <2>1. Null \notin Instances
    BY FeedAssumption
  <2> QED BY <1>1, <1>2, <2>1, NothingFits DEF AskingOK, Locked, GatesShut, MayStillAsk, At
<1>6. RowsOK
  BY <1>1, NothingFits DEF RowsOK, RowGrows, ReadsOrdered, JoinedOK, At, Never
<1>7. AnswersInTime
  BY <1>1, NothingFits DEF AnswersInTime, AnswersBounded, NeverOlder, AnswerFits
<1> QED BY <1>3, <1>4, <1>5, <1>6, <1>7 DEF IInv

LEMMA NextIInv == IInv /\ [Next]_vars => IInv'
<1> SUFFICES ASSUME IInv, [Next]_vars PROVE IInv'
  OBVIOUS
<1>1. CASE UNCHANGED vars
  BY <1>1 DEF vars, IInv, Typed, Timed, AskingOK, Locked, GatesShut, MayStillAsk, RowsOK, RowGrows, ReadsOrdered,
     Newest, JoinedOK, AnswersInTime, AnswersBounded, NeverOlder, At
<1>2. ASSUME NEW r \in Requests, LoadSource(r) \/ ReadSourceStatus(r) \/ \E i \in Instances : Ask(r, i) PROVE IInv'
  BY <1>2, LoadSourceKeepsIInv, ReadSourceStatusKeepsIInv, AskKeepsIInv
<1>3. ASSUME NEW i \in Instances, RefreshStep(i) \/ Restart(i) PROVE IInv'
  <2>1. CASE TryLock(i) \/ ReadLatest(i) \/ Recheck(i) \/ WriteCache(i) \/ Restart(i)
    BY <2>1, TryLockKeepsIInv, ReadLatestKeepsIInv, RecheckKeepsIInv, WriteCacheKeepsIInv, RestartKeepsIInv
  <2> QED BY <1>3, <2>1, CallStepKeepsIInv DEF RefreshStep
<1>4. CASE PurgeExpired \/ Tick
  BY <1>4, PurgeExpiredKeepsIInv, TickKeepsIInv
<1>5. ASSUME NEW o \in orphans, OrphansEnd(o) PROVE IInv'
  BY <1>5 DEF OrphansEnd, IInv, Typed, Timed, AskingOK, Locked, GatesShut, MayStillAsk, RowsOK, RowGrows, ReadsOrdered,
     Newest, JoinedOK, AnswersInTime, AnswersBounded, NeverOlder, At
<1> QED BY <1>1, <1>2, <1>3, <1>4, <1>5 DEF Next

LEMMA InductiveInvariant == Spec => []IInv
BY InitIInv, NextIInv, PTL DEF Spec
-----------------------------------------------------------------------------
(* What failed refreshes leave behind                                      *)

\* More than one request of a call runs only where an adapter makes several at
\* once, and only such calls leave requests behind.
LeftOver ==
    /\ orphans \subseteq [instance : Instances, since : Nat]
    /\ \A o \in orphans : Parallel /\ o.since <= clock /\ clock <= o.since + RefreshTime
    /\ \A i \in Instances : Open(i) > 1 => Parallel

\* The requests of one refresh change, and nothing is left behind.
LEMMA OpenKept ==
    ASSUME LeftOver, NEW i \in Instances, NEW new \in Refresh, refresh \in [Instances -> Refresh],
           refresh' = [refresh EXCEPT ![i] = new], new.first + new.again > 1 => Parallel, UNCHANGED <<kind, clock>>,
           orphans' \subseteq orphans
    PROVE  LeftOver'
<1>1. refresh'[i] = new /\ \A j \in Instances \ {i} : refresh'[j] = refresh[j]
  OBVIOUS
<1>2. Parallel' = Parallel
  BY DEF Parallel
<1>3. \A j \in Instances : Open(j)' > 1 => Parallel
  <2> TAKE j \in Instances
  <2>1. CASE j = i
    BY <1>1, <2>1 DEF Open
  <2>2. CASE j # i
    BY <1>1, <2>2 DEF LeftOver, Open
  <2> QED BY <2>1, <2>2
<1> QED BY <1>2, <1>3 DEF LeftOver

\* A refresh that ends leaves its own requests behind, if any.
LEMMA EndedKeepsLeftOver ==
    ASSUME LeftOver, IInv, NEW i \in Instances, ~At(i, "NONE"), refresh' = [refresh EXCEPT ![i] = NoRefresh],
           UNCHANGED <<kind, clock>>,
           orphans' \subseteq orphans \cup {o \in {[instance |-> i, since |-> refresh[i].since]} : Open(i) > 1}
    PROVE  LeftOver'
<1>1. /\ refresh \in [Instances -> Refresh] /\ refresh[i] \in Refresh /\ clock \in Nat
      /\ refresh[i].since <= clock /\ clock <= refresh[i].since + RefreshTime
  BY DEF IInv, Typed, Timed
<1>2. refresh[i].since \in Nat
  BY <1>1 DEF Refresh
<1>3. NoRefresh \in Refresh /\ NoRefresh.first + NoRefresh.again = 0
  BY NothingFits DEF NoRefresh
<1>4. refresh'[i] = NoRefresh /\ \A j \in Instances \ {i} : refresh'[j] = refresh[j]
  BY <1>1
<1>5. Parallel' = Parallel
  BY DEF Parallel
<1>6. \A j \in Instances : Open(j)' > 1 => Parallel
  <2> TAKE j \in Instances
  <2>1. CASE j = i
    BY <1>3, <1>4, <2>1 DEF Open
  <2>2. CASE j # i
    BY <1>4, <2>2 DEF LeftOver, Open
  <2> QED BY <2>1, <2>2
<1>7. ASSUME NEW o \in orphans', o \notin orphans
      PROVE  o \in [instance : Instances, since : Nat] /\ Parallel /\ o.since <= clock /\ clock <= o.since + RefreshTime
  <2>1. o = [instance |-> i, since |-> refresh[i].since] /\ Open(i) > 1
    BY <1>7
  <2> QED BY <1>1, <1>2, <2>1 DEF LeftOver
<1> QED BY <1>5, <1>6, <1>7 DEF LeftOver

LEMMA CallWidth ==
    ASSUME Typed, NEW row \in Refresh, NEW call \in DOMAIN kind.calls, InCall(row, call).first + InCall(row, call).again > 1
    PROVE  Parallel
<1>1. InCall(row, call).first = kind.calls[call].width /\ InCall(row, call).again = 0
  BY InCallFields
<1>2. kind.calls[call].width \in Nat
  BY KindShape
<1> QED BY <1>1, <1>2 DEF Parallel

LEMMA NextLeftOver == IInv /\ LeftOver /\ [Next]_vars => LeftOver'
<1> SUFFICES ASSUME IInv, LeftOver, [Next]_vars PROVE LeftOver'
  OBVIOUS
<1>1. /\ refresh \in [Instances -> Refresh] /\ clock \in Nat /\ kind \in Kinds
      /\ \A i \in Instances : refresh[i].first \in Nat /\ refresh[i].again \in Nat
  BY DEF IInv, Typed, Refresh
<1>2. CASE UNCHANGED vars
  BY <1>2 DEF vars, LeftOver, Parallel, Open
<1>3. ASSUME UNCHANGED <<kind, refresh, clock>>, orphans' \subseteq orphans PROVE LeftOver'
  BY <1>3 DEF LeftOver, Parallel, Open
<1>4. ASSUME NEW r \in Requests, LoadSource(r) PROVE LeftOver'
  <2> DEFINE i == requests[r].instance
  <2>1. UNCHANGED <<kind, clock, orphans>> /\ requests[r].step = "READ"
    BY <1>4 DEF LoadSource
  <2>2. CASE UNCHANGED refresh
    BY <1>3, <2>1, <2>2
  <2>3. CASE refresh' = [refresh EXCEPT ![i] = [NoRefresh EXCEPT !.step = "LOCK", !.cached = requests[r].cached, !.since = clock]]
    <3>1. i \in Instances /\ requests[r].cached \in Nat
      BY <2>1, RequestTyped
    <3>2. PICK cached \in Nat, now \in Nat : cached = requests[r].cached /\ now = clock
      BY <1>1, <3>1
    <3> DEFINE new == [NoRefresh EXCEPT !.step = "LOCK", !.cached = cached, !.since = now]
    <3>3. new \in Refresh /\ new.first = 0 /\ new.again = 0
      BY DEF NoRefresh, Refresh
    <3>4. refresh' = [refresh EXCEPT ![i] = new]
      BY <2>3, <3>2
    <3>5. ~(new.first + new.again > 1)
      BY <3>3
    <3> HIDE DEF new, i
    <3> QED BY <1>1, <2>1, <3>1, <3>3, <3>4, <3>5, OpenKept
  <2> QED BY <1>4, <2>2, <2>3 DEF LoadSource
<1>5. ASSUME NEW i \in Instances, ~At(i, "NONE"), UNCHANGED <<kind, clock>>, NEW answer, Finish(i, answer), UNCHANGED orphans
      PROVE  LeftOver'
  BY <1>5, EndedKeepsLeftOver DEF Finish
<1>6. ASSUME NEW i \in Instances, ~At(i, "NONE"), UNCHANGED <<kind, clock>>, Fail(i) PROVE LeftOver'
  BY <1>6, EndedKeepsLeftOver DEF Fail, Finish
<1>7. ASSUME NEW i \in Instances, TryLock(i) PROVE LeftOver'
  <2>1. PICK step \in {"RECHECK", "LATEST"} : refresh' = [refresh EXCEPT ![i].step = step]
    BY <1>7 DEF TryLock
  <2>2. PICK old \in Refresh : old = refresh[i]
    BY <1>1
  <2> DEFINE new == [old EXCEPT !.step = step]
  <2>3. new \in Refresh /\ new.first = old.first /\ new.again = old.again
    BY <2>1 DEF Refresh
  <2>4. refresh' = [refresh EXCEPT ![i] = new]
    BY <2>1, <2>2
  <2>5. new.first + new.again > 1 => Parallel
    BY <2>2, <2>3 DEF LeftOver, Open
  <2>6. UNCHANGED <<kind, clock, orphans>>
    BY <1>7 DEF TryLock
  <2> HIDE DEF new
  <2> QED BY <1>1, <2>3, <2>4, <2>5, <2>6, OpenKept
<1>8. ASSUME NEW i \in Instances, NEW call \in DOMAIN kind.calls, refresh' = [refresh EXCEPT ![i] = InCall(refresh[i], call)],
             UNCHANGED <<kind, clock, orphans>>
      PROVE  LeftOver'
  <2>1. PICK new : new = InCall(refresh[i], call)
    OBVIOUS
  <2>2. new \in Refresh /\ (new.first + new.again > 1 => Parallel)
    BY <1>1, <2>1, InCallFields, CallWidth DEF IInv
  <2> QED BY <1>1, <1>8, <2>1, <2>2, OpenKept
<1>9. ASSUME NEW i \in Instances, Recheck(i) PROVE LeftOver'
  <2>1. UNCHANGED <<kind, clock>> /\ ~At(i, "NONE")
    BY <1>9 DEF Recheck, At
  <2>2. CASE Fail(i)
    BY <1>6, <2>1, <2>2
  <2>3. CASE Finish(i, FromCache(Rechecked)) /\ UNCHANGED orphans
    BY <1>5, <2>1, <2>3
  <2>4. CASE refresh' = [refresh EXCEPT ![i] = InCall(refresh[i], 1)] /\ UNCHANGED orphans
    <3>1. 1 \in DOMAIN kind.calls
      BY KindShape DEF IInv
    <3> QED BY <1>8, <2>1, <2>4, <3>1
  <2> QED BY <1>9, <2>2, <2>3, <2>4 DEF Recheck
<1>10. ASSUME NEW i \in Instances, GoOn(i), At(i, "CALL"), UNCHANGED <<kind, clock, orphans>> PROVE LeftOver'
  <2>1. /\ refresh[i] \in Refresh /\ refresh[i].call \in DOMAIN kind.calls
        /\ Len(kind.calls) \in Nat /\ DOMAIN kind.calls = 1 .. Len(kind.calls)
    BY <1>10, CallTyped
  <2>2. CASE refresh[i].call < Len(kind.calls)
    <3>1. refresh[i].call + 1 \in DOMAIN kind.calls
      BY <2>1, <2>2
    <3>2. refresh' = [refresh EXCEPT ![i] = InCall(refresh[i], refresh[i].call + 1)]
      BY <1>10, <2>2 DEF GoOn
    <3> QED BY <1>8, <1>10, <3>1, <3>2
  <2>3. CASE ~(refresh[i].call < Len(kind.calls))
    <3>3. PICK new \in Refresh : new = Fetched(refresh[i]) /\ new.first = 0 /\ new.again = 0
      BY <1>1, <2>1, FetchedFields
    <3>4. refresh' = [refresh EXCEPT ![i] = new]
      BY <1>10, <2>3, <3>3 DEF GoOn
    <3>5. ~(new.first + new.again > 1)
      BY <3>3
    <3> QED BY <1>1, <1>10, <3>3, <3>4, <3>5, OpenKept
  <2> QED BY <2>2, <2>3
<1>11. ASSUME NEW i \in Instances, FeedArrives(i) PROVE LeftOver'
  <2>1. UNCHANGED <<kind, clock, orphans>>
    BY <1>11 DEF FeedArrives, Calling
  <2>2. PICK old \in Refresh : old = refresh[i]
    BY <1>1
  <2>3. old.first + old.again > 1 => Parallel
    BY <2>2 DEF LeftOver, Open
  <2>4. PICK new \in Refresh : refresh' = [refresh EXCEPT ![i] = new] /\ new.first + new.again <= old.first + old.again
    <3>1. old.first \in Nat /\ old.again \in Nat
      BY DEF Refresh
    <3>2. CASE old.first > 0 /\ refresh' = [refresh EXCEPT ![i].first = @ - 1]
      <4> DEFINE new == [old EXCEPT !.first = @ - 1]
      <4>1. refresh' = [refresh EXCEPT ![i] = new]
        BY <2>2, <3>2
      <4>2. old.first - 1 \in Nat
        BY <3>1, <3>2
      <4>3. new \in Refresh
        BY <4>2 DEF Refresh
      <4>4. new.first = old.first - 1 /\ new.again = old.again
        BY DEF Refresh
      <4> HIDE DEF new
      <4>5. new.first + new.again <= old.first + old.again
        BY <3>1, <4>4
      <4> QED BY <4>1, <4>3, <4>5, Zenon
    <3>3. CASE old.again > 0 /\ refresh' = [refresh EXCEPT ![i].again = @ - 1]
      <4> DEFINE new == [old EXCEPT !.again = @ - 1]
      <4>1. refresh' = [refresh EXCEPT ![i] = new]
        BY <2>2, <3>3
      <4>2. old.again - 1 \in Nat
        BY <3>1, <3>3
      <4>3. new \in Refresh
        BY <4>2 DEF Refresh
      <4>4. new.first = old.first /\ new.again = old.again - 1
        BY DEF Refresh
      <4> HIDE DEF new
      <4>5. new.first + new.again <= old.first + old.again
        BY <3>1, <4>4
      <4> QED BY <4>1, <4>3, <4>5, Zenon
    <3> QED BY <1>11, <2>2, <3>2, <3>3 DEF FeedArrives
  <2>5. new.first + new.again > 1 => Parallel
    <3>1. old.first \in Nat /\ old.again \in Nat /\ new.first \in Nat /\ new.again \in Nat
      BY DEF Refresh
    <3> QED BY <2>3, <2>4, <3>1
  <2> QED BY <1>1, <2>1, <2>4, <2>5, OpenKept
<1>12. ASSUME NEW i \in Instances, CallFails(i) PROVE LeftOver'
  <2>1. UNCHANGED <<kind, clock>> /\ ~At(i, "NONE")
    BY <1>12 DEF CallFails, Calling, At
  <2>2. CASE Fail(i)
    BY <1>6, <2>1, <2>2
  <2>3. CASE /\ refresh[i].first > 0 /\ UNCHANGED orphans
             /\ refresh' = [refresh EXCEPT ![i] = TriedAgain(refresh[i])]
    <3>1. PICK row \in Refresh : row = refresh[i]
      BY <1>1
    <3>2. row.first > 0
      BY <2>3, <3>1
    <3>3. PICK new \in Refresh : new = TriedAgain(row) /\ new.first = row.first - 1 /\ new.again = row.again + 1
      BY <1>1, <3>2, TriedAgainFields
    <3>4. refresh' = [refresh EXCEPT ![i] = new]
      BY <2>3, <3>1, <3>3
    <3>5. new.first + new.again > 1 => Parallel
      BY <1>1, <3>1, <3>3 DEF LeftOver, Open
    <3> QED BY <1>1, <2>1, <2>3, <3>3, <3>4, <3>5, OpenKept
  <2> QED BY <1>12, <2>2, <2>3 DEF CallFails
<1>13. ASSUME NEW i \in Instances, RefreshStep(i) PROVE LeftOver'
  <2>1. CASE ReadLatest(i)
    <3>1. ~At(i, "NONE") /\ UNCHANGED <<kind, clock, orphans>>
      BY <2>1 DEF ReadLatest, At
    <3>2. PICK answer : Finish(i, answer)
      BY <2>1 DEF ReadLatest
    <3> QED BY <1>5, <3>1, <3>2
  <2>2. CASE WriteCache(i)
    <3>1. ~At(i, "NONE") /\ UNCHANGED <<kind, clock>>
      BY <2>2 DEF WriteCache, At
    <3> QED BY <1>5, <1>6, <2>2, <3>1 DEF WriteCache
  <2>3. CASE CallSucceeds(i) \/ CallSucceedsWithWait(i)
    BY <1>10, <2>3 DEF CallSucceeds, CallSucceedsWithWait, AllAnswered, Calling
  <2>4. CASE QuotaRunsOut(i) \/ CallIsInvalid(i) \/ PageIsRefused(i) \/ CallIsRateLimited(i)
    <3>1. At(i, "CALL") /\ UNCHANGED <<kind, clock>> /\ Fail(i)
      BY <2>4 DEF QuotaRunsOut, CallIsInvalid, PageIsRefused, CallIsRateLimited, AllAnswered, Calling
    <3> QED BY <1>6, <3>1 DEF At
  <2> QED BY <1>7, <1>9, <1>11, <1>12, <1>13, <2>1, <2>2, <2>3, <2>4 DEF RefreshStep
<1>14. ASSUME NEW i \in Instances, Restart(i) PROVE LeftOver'
  <2>1. /\ refresh' = [refresh EXCEPT ![i] = NoRefresh] /\ UNCHANGED <<kind, clock>> /\ orphans' \subseteq orphans
    BY <1>14 DEF Restart
  <2>2. NoRefresh \in Refresh /\ NoRefresh.first = 0 /\ NoRefresh.again = 0
    BY NothingFits DEF NoRefresh
  <2>3. ~(NoRefresh.first + NoRefresh.again > 1)
    BY <2>2
  <2> QED BY <1>1, <2>1, <2>2, <2>3, OpenKept
<1>15. CASE Tick
  <2>1. clock' = clock + 1 /\ UNCHANGED <<kind, refresh, orphans>> /\ \A o \in orphans : clock < o.since + RefreshTime
    BY <1>15 DEF Tick
  <2>2. \A o \in orphans : o.since \in Nat
    BY DEF LeftOver
  <2> QED BY <1>1, <2>1, <2>2, Times DEF LeftOver, Parallel, Open
<1>16. CASE \/ PurgeExpired \/ \E o \in orphans : OrphansEnd(o)
            \/ \E r \in Requests : ReadSourceStatus(r) \/ \E i \in Instances : Ask(r, i)
  BY <1>3, <1>16 DEF PurgeExpired, OrphansEnd, ReadSourceStatus, Ask
<1> QED BY <1>2, <1>4, <1>13, <1>14, <1>15, <1>16 DEF Next

LEMMA OrphansInvariant == Spec => []LeftOver
<1>1. Init => LeftOver
  BY DEF Init, LeftOver, Open, NoRefresh
<1> QED BY <1>1, NextLeftOver, InductiveInvariant, PTL DEF Spec
-----------------------------------------------------------------------------
(* Theorems                                                                *)

\* Every variable has its type, the lock is held by the one instance that is
\* in its transaction, and no request waits for a refresh that has ended
\* (refreshWithLock, inFlightRefreshes).
THEOREM TypeCorrectness == Spec => []TypeOK
<1>1. IInv /\ LeftOver => TypeOK
  <2> SUFFICES ASSUME IInv, LeftOver PROVE TypeOK
    OBVIOUS
  <2>1. \A r \in Requests : /\ requests[r].step \in {"IDLE", "READ", "WAIT", "DONE"}
                            /\ requests[r].answer.status \in {"NONE", "FRESH", "STALE", "UNAVAILABLE"}
    BY DEF IInv, Typed, Request, Answers
  <2>2. cache \in 0 .. clock /\ \A i \in Instances : refresh[i].cached \in 0 .. clock
    BY DEF IInv, Typed, Timed, Refresh
  <2>3. orphans \subseteq [instance : Instances, since : 0 .. clock]
    BY DEF LeftOver, IInv, Typed
  <2> QED BY <2>1, <2>2, <2>3 DEF IInv, Typed, Timed, AskingOK, Locked, RowsOK, JoinedOK, TypeOK
<1> QED BY <1>1, InductiveInvariant, OrphansInvariant, PTL

\* One refresh at a time is in a call, for a row that is not fresh, and no method
\* is asked before the time that its last answer asked for; what else may run
\* upstream are the requests that a failed Promise.all has left behind, no longer
\* than the timeouts allow (refreshWithLock, fetchItems of the Hacker News
\* adapter, reserve, recordResponse and recordFailure).
THEOREM ServiceSpared == Spec => []UpstreamSpared
<1>1. LeftOver /\ IInv => OnlyOrphansBeside
  <2> SUFFICES ASSUME LeftOver, IInv PROVE OnlyOrphansBeside
    OBVIOUS
  <2>1. \A o \in orphans : o.since \in Nat /\ clock \in Nat /\ RefreshTime \in Nat
    BY Times DEF LeftOver, IInv, Typed
  <2> QED BY <2>1 DEF LeftOver, OnlyOrphansBeside
<1>2. IInv => OneUpstreamRefresh /\ BackoffHonoured
  <2> SUFFICES ASSUME IInv, NEW i \in Instances, At(i, "CALL")
               PROVE  /\ \A j \in Instances \ {i} : ~At(j, "CALL")
                      /\ cache # Never => refresh[i].at - cache >= FreshFor
                      /\ last[CallOf(i).method].by = i => refresh[i].at >= last[CallOf(i).method].again
    BY DEF OneUpstreamRefresh, BackoffHonoured
  <2>1. \A j \in Instances \ {i} : ~At(j, "CALL")
    BY CallTyped
  <2>2. cache # Never => refresh[i].at - cache >= FreshFor
    BY DEF IInv, AskingOK, Locked
  <2>3. refresh[i].call \in DOMAIN kind.calls /\ refresh[i].call >= refresh[i].call
    BY CallTyped
  <2>4. last[CallOf(i).method].by = i => last[CallOf(i).method].again <= refresh[i].at
    BY <2>3 DEF IInv, AskingOK, MayStillAsk, CallOf
  <2>5. last[CallOf(i).method].again \in Nat /\ refresh[i].at \in Nat
    BY CallTyped DEF IInv, Typed, LastAsked, Refresh
  <2> QED BY <2>1, <2>2, <2>4, <2>5
<1> QED BY <1>1, <1>2, InductiveInvariant, OrphansInvariant, PTL DEF UpstreamSpared

\* No answer is older than the maximum stale age, one that says FRESH is no
\* older than the fresh period and one refresh, and none is older than what its
\* request had read itself (loadSource, fallback, getOrStartRefresh).
THEOREM TimelyAnswers == Spec => []AnswersInTime
<1>1. IInv => AnswersInTime
  BY DEF IInv
<1> QED BY <1>1, InductiveInvariant, PTL

-----------------------------------------------------------------------------
(* Sorting and filtering                                                   *)

\* A set of natural numbers that is not empty has a least one.
LEMMA LeastNumber ==
    ASSUME NEW S \in SUBSET Nat, S # {}
    PROVE  \E m \in S : \A k \in S : m <= k
<1>1. PICK m \in S : \A k \in S : ~ (<<k, m>> \in OpToRel(<, Nat))
  BY NatLessThanWellFounded, WFMin
<1>2. \A k \in S : ~ (k < m)
  BY <1>1 DEF OpToRel
<1> QED
  BY <1>2

\* A strict total order on S, as a set of pairs.
IsOrder(S, before) ==
    /\ \A x \in S : <<x, x>> \notin before
    /\ \A x, y \in S : x # y => <<x, y>> \in before \/ <<y, x>> \in before
    /\ \A x, y, z \in S : <<x, y>> \in before /\ <<y, z>> \in before => <<x, z>> \in before

\* s has the elements of S in order.
Sorts(s, S, before) ==
    /\ s \in Seq(S) /\ DOMAIN s = 1 .. Len(s)
    /\ \A j, k \in DOMAIN s : <<s[j], s[k]>> \in before <=> j < k
    /\ \A x \in S : \E k \in DOMAIN s : s[k] = x

\* InOrder sorts a finite set.
LEMMA InOrderSorts ==
    ASSUME NEW S, IsFiniteSet(S), NEW before, IsOrder(S, before)
    PROVE  Sorts(InOrder(S, before), S, before) /\ Len(InOrder(S, before)) = Cardinality(S)
<1> DEFINE Below(x) == {y \in S : <<y, x>> \in before}
           rank == [x \in S |-> Cardinality(Below(x))]
           n == Cardinality(S)
           s == InOrder(S, before)
<1>1. n \in Nat
  BY FS_CardinalityType
<1>2. ASSUME NEW x \in S PROVE IsFiniteSet(Below(x)) /\ Cardinality(Below(x)) \in 0 .. n - 1
  <2>1. Below(x) \in SUBSET S /\ x \notin Below(x)
    BY DEF IsOrder
  <2>2. IsFiniteSet(Below(x)) /\ Cardinality(Below(x)) <= n /\ Cardinality(Below(x)) # n
    BY <2>1, FS_Subset
  <2>3. Cardinality(Below(x)) \in Nat
    BY <2>2, FS_CardinalityType
  <2> QED
    BY <1>1, <2>2, <2>3
<1>3. ASSUME NEW x \in S, NEW y \in S, <<x, y>> \in before PROVE rank[x] < rank[y]
  <2>1. Below(x) \in SUBSET Below(y) /\ x \in Below(y) /\ x \notin Below(x)
    BY <1>3 DEF IsOrder
  <2>2. Cardinality(Below(x)) <= Cardinality(Below(y)) /\ Cardinality(Below(x)) # Cardinality(Below(y))
    BY <1>2, <2>1, FS_Subset
  <2>3. Cardinality(Below(x)) \in Nat /\ Cardinality(Below(y)) \in Nat
    BY <1>2, <1>1
  <2> QED
    BY <2>2, <2>3
<1>4. rank \in [S -> 0 .. n - 1]
  BY <1>2
<1>5. \A x, y \in S : rank[x] = rank[y] => x = y
  <2> SUFFICES ASSUME NEW x \in S, NEW y \in S, x # y PROVE rank[x] # rank[y]
    OBVIOUS
  <2>1. rank[x] \in Int /\ rank[y] \in Int
    BY <1>1, <1>4
  <2>2. rank[x] < rank[y] \/ rank[y] < rank[x]
    BY <1>3 DEF IsOrder
  <2> QED
    BY <2>1, <2>2
<1>6. ASSUME NEW m \in 0 .. n - 1 PROVE \E x \in S : rank[x] = m
  <2> SUFFICES ASSUME \A x \in S : rank[x] # m PROVE FALSE
    OBVIOUS
  <2> DEFINE T == (0 .. n - 1) \ {m}
  <2>1. rank \in [S -> T]
    BY <1>4
  <2>2. IsFiniteSet(0 .. n - 1) /\ Cardinality(0 .. n - 1) = n
    <3>1. n - 1 \in Int /\ n >= 1 /\ 0 \in Int
      BY <1>1
    <3>2. IsFiniteSet(0 .. n - 1) /\ Cardinality(0 .. n - 1) = IF 0 > n - 1 THEN 0 ELSE n - 1 - 0 + 1
      BY <3>1, FS_Interval
    <3> QED
      BY <3>1, <3>2, <1>1
  <2>3. IsFiniteSet(T) /\ Cardinality(T) = n - 1
    <3>1. PICK I : I = 0 .. n - 1
      OBVIOUS
    <3>2. IsFiniteSet(I \ {m}) /\ Cardinality(I \ {m}) = IF m \in I THEN Cardinality(I) - 1 ELSE Cardinality(I)
      BY <2>2, <3>1, FS_RemoveElement
    <3> QED
      BY <2>2, <3>1, <3>2
  <2>4. Cardinality(T) < Cardinality(S)
    BY <2>3, <1>1
  <2> HIDE DEF T
  <2> HIDE DEF rank
  <2>5. \E x, y \in S : x # y /\ rank[x] = rank[y]
    BY <2>1, <2>3, <2>4, FS_PigeonHole
  <2> QED
    BY <2>5, <1>5
<1>7. s = [k \in 1 .. n |-> CHOOSE x \in S : Cardinality(Below(x)) = k - 1]
  BY DEF InOrder
<1>8. ASSUME NEW k \in 1 .. n PROVE s[k] \in S /\ rank[s[k]] = k - 1
  <2>1. k - 1 \in 0 .. n - 1
    BY <1>1
  <2>2. s[k] = CHOOSE x \in S : Cardinality(Below(x)) = k - 1
    BY <1>7
  <2>3. \E x \in S : Cardinality(Below(x)) = k - 1
    BY <1>6, <2>1
  <2>4. s[k] \in S /\ Cardinality(Below(s[k])) = k - 1
    BY <2>2, <2>3
  <2> QED
    BY <2>4
<1> HIDE DEF s, rank, Below
<1>9. s \in [1 .. n -> S]
  BY <1>7, <1>8
<1>10. s \in Seq(S) /\ Len(s) = n /\ DOMAIN s = 1 .. n
  BY <1>1, <1>9
<1>11. ASSUME NEW j \in 1 .. n, NEW k \in 1 .. n PROVE <<s[j], s[k]>> \in before <=> j < k
  <2>1. s[j] \in S /\ s[k] \in S /\ rank[s[j]] = j - 1 /\ rank[s[k]] = k - 1
    BY <1>8
  <2>2. <<s[j], s[k]>> \in before => rank[s[j]] < rank[s[k]]
    BY <2>1, <1>3 DEF rank
  <2>3. <<s[k], s[j]>> \in before => rank[s[k]] < rank[s[j]]
    BY <2>1, <1>3 DEF rank
  <2>4. s[j] # s[k] => <<s[j], s[k]>> \in before \/ <<s[k], s[j]>> \in before
    BY <2>1 DEF IsOrder
  <2> QED
    BY <2>1, <2>2, <2>3, <2>4, <1>1
<1>12. ASSUME NEW x \in S PROVE \E k \in 1 .. n : s[k] = x
  <2>1. rank[x] \in 0 .. n - 1
    BY <1>4
  <2>2. rank[x] + 1 \in 1 .. n
    BY <2>1, <1>1
  <2>3. s[rank[x] + 1] \in S /\ rank[s[rank[x] + 1]] = rank[x]
    BY <2>1, <2>2, <1>8, <1>1
  <2>4. s[rank[x] + 1] = x
    BY <2>3, <1>5
  <2> QED
    BY <2>2, <2>4
<1> QED
  BY <1>10, <1>11, <1>12 DEF Sorts, s

\* The pairs of numbers in K, the smaller one first.
Less(K) == {p \in K \X K : p[1] < p[2]}

\* Less is the order of the numbers.
LEMMA LessIsOrder ==
    ASSUME NEW K \in SUBSET Int PROVE IsOrder(K, Less(K)) /\ \A j, k \in K : <<j, k>> \in Less(K) <=> j < k
BY DEF IsOrder, Less

\* What is kept of s are its elements at growing indices.
LEMMA KeptPicks ==
    ASSUME NEW T, NEW s \in Seq(T), NEW K \in SUBSET DOMAIN s
    PROVE  /\ Kept(s, K) \in Seq(T) /\ DOMAIN Kept(s, K) = 1 .. Len(Kept(s, K))
           /\ \E index \in [DOMAIN Kept(s, K) -> K] :
                  /\ \A n \in DOMAIN Kept(s, K) : Kept(s, K)[n] = s[index[n]]
                  /\ \A j, n \in DOMAIN Kept(s, K) : index[j] < index[n] <=> j < n
                  /\ \A k \in K : \E n \in DOMAIN Kept(s, K) : index[n] = k
<1> DEFINE index == InOrder(K, Less(K))
<1>1. K \in SUBSET Int /\ IsFiniteSet(K)
  <2>1. Len(s) \in Nat /\ DOMAIN s = 1 .. Len(s)
    OBVIOUS
  <2>2. IsFiniteSet(1 .. Len(s))
    BY <2>1, FS_Interval
  <2> QED
    BY <2>1, <2>2, FS_Subset
<1>2. Sorts(index, K, Less(K))
  BY <1>1, LessIsOrder, InOrderSorts
<1>3. Kept(s, K) = [n \in DOMAIN index |-> s[index[n]]]
  BY DEF Kept, Less
<1> HIDE DEF index
<1>4. index \in Seq(K) /\ DOMAIN index = 1 .. Len(index) /\ index \in [DOMAIN index -> K]
  BY <1>2 DEF Sorts
<1>5. \A k \in K : s[k] \in T
  OBVIOUS
<1>6. PICK l \in Nat : DOMAIN index = 1 .. l
  BY <1>4
<1>7. \A n \in 1 .. l : s[index[n]] \in T
  BY <1>4, <1>5, <1>6
<1>8. Kept(s, K) \in Seq(T) /\ DOMAIN Kept(s, K) = 1 .. l /\ DOMAIN Kept(s, K) = 1 .. Len(Kept(s, K))
  <2> DEFINE e(n) == s[index[n]]
  <2>1. \A n \in 1 .. l : e(n) \in T
    BY <1>7
  <2>2. Kept(s, K) = [n \in 1 .. l |-> e(n)]
    BY <1>3, <1>6
  <2> HIDE DEF e
  <2> QED
    BY <2>1, <2>2
<1>9. \A n \in 1 .. l : Kept(s, K)[n] = s[index[n]]
  BY <1>3, <1>6
<1>10. \A j, n \in 1 .. l : <<index[j], index[n]>> \in Less(K) <=> j < n
  BY <1>2, <1>6 DEF Sorts
<1>11. \A j, n \in 1 .. l : index[j] < index[n] <=> j < n
  BY <1>1, <1>4, <1>6, <1>10, LessIsOrder
<1>12. \A k \in K : \E n \in 1 .. l : index[n] = k
  BY <1>2, <1>6 DEF Sorts
<1> DEFINE D == DOMAIN Kept(s, K)
<1>13. D = 1 .. l
  BY <1>8
<1> HIDE DEF D
<1>14. /\ index \in [D -> K]
       /\ \A n \in D : Kept(s, K)[n] = s[index[n]]
       /\ \A j, n \in D : index[j] < index[n] <=> j < n
       /\ \A k \in K : \E n \in D : index[n] = k
  BY <1>4, <1>6, <1>9, <1>11, <1>12, <1>13
<1>15. /\ index \in [DOMAIN Kept(s, K) -> K]
       /\ \A n \in DOMAIN Kept(s, K) : Kept(s, K)[n] = s[index[n]]
       /\ \A j, n \in DOMAIN Kept(s, K) : index[j] < index[n] <=> j < n
       /\ \A k \in K : \E n \in DOMAIN Kept(s, K) : index[n] = k
  BY <1>14 DEF D
<1> QED
  BY <1>8, <1>15, Zenon

\* What filter keeps, and that it repeats nothing.
LEMMA KeptShown ==
    ASSUME NEW T, NEW s \in Seq(T), NEW K \in SUBSET DOMAIN s
    PROVE  /\ Kept(s, K) \in Seq(T)
           /\ \A n \in DOMAIN Kept(s, K) : \E k \in K : Kept(s, K)[n] = s[k]
           /\ \A k \in K : \E n \in DOMAIN Kept(s, K) : Kept(s, K)[n] = s[k]
           /\ Distinct(s) => Distinct(Kept(s, K))
<1> DEFINE t == Kept(s, K)
<1>1. t \in Seq(T) /\ DOMAIN t = 1 .. Len(t)
  BY KeptPicks
<1>2. PICK index \in [DOMAIN t -> K] :
                  /\ \A n \in DOMAIN t : t[n] = s[index[n]]
                  /\ \A j, n \in DOMAIN t : index[j] < index[n] <=> j < n
                  /\ \A k \in K : \E n \in DOMAIN t : index[n] = k
  BY KeptPicks
<1> HIDE DEF t
<1>3. ASSUME Distinct(s), NEW j \in DOMAIN t, NEW n \in DOMAIN t, t[j] = t[n] PROVE j = n
  <2>1. index[j] = index[n]
    BY <1>2, <1>3 DEF Distinct
  <2>2. index[j] \in Int
    BY <1>2
  <2>3. ~ (j < n) /\ ~ (n < j) /\ j \in Int /\ n \in Int
    BY <1>1, <1>2, <2>1, <2>2
  <2> QED
    BY <2>3
<1>4. Distinct(s) => Distinct(t)
  BY <1>3 DEF Distinct
<1>5. \A n \in DOMAIN t : index[n] \in K
  BY <1>2
<1> QED
  BY <1>1, <1>2, <1>4, <1>5 DEF t

\* A filter that keeps the elements from one on is the rest of the sequence.
LEMMA KeptTail ==
    ASSUME NEW T, NEW s \in Seq(T), NEW m \in 0 .. Len(s)
    PROVE  Kept(s, (m + 1) .. Len(s)) = SubSeq(s, m + 1, Len(s))
<1> DEFINE K == (m + 1) .. Len(s)
           l == Len(s) - m
           index == InOrder(K, Less(K))
<1>1. IsFiniteSet(K) /\ Cardinality(K) = l
  <2>1. m + 1 \in Int /\ Len(s) \in Int
    OBVIOUS
  <2>2. IsFiniteSet(K) /\ Cardinality(K) = IF m + 1 > Len(s) THEN 0 ELSE Len(s) - (m + 1) + 1
    BY <2>1, FS_Interval
  <2> QED
    BY <2>2
<1>2. ASSUME NEW x \in K PROVE Cardinality({y \in K : <<y, x>> \in Less(K)}) = x - m - 1
  <2>1. {y \in K : <<y, x>> \in Less(K)} = (m + 1) .. (x - 1)
    BY DEF Less
  <2>2. Cardinality((m + 1) .. (x - 1)) = IF m + 1 > x - 1 THEN 0 ELSE x - 1 - (m + 1) + 1
    BY FS_Interval
  <2>3. IF m + 1 > x - 1 THEN 0 = x - m - 1 ELSE x - 1 - (m + 1) + 1 = x - m - 1
    OBVIOUS
  <2> QED
    BY <2>1, <2>2, <2>3
<1>3. index = [n \in 1 .. l |-> CHOOSE x \in K : Cardinality({y \in K : <<y, x>> \in Less(K)}) = n - 1]
  BY <1>1 DEF InOrder
<1>4. ASSUME NEW n \in 1 .. l PROVE index[n] = m + n
  <2> DEFINE P(x) == Cardinality({y \in K : <<y, x>> \in Less(K)}) = n - 1
  <2>1. index[n] = CHOOSE x \in K : P(x)
    BY <1>3
  <2>2. m + n \in K /\ P(m + n)
    BY <1>2
  <2>3. \A x \in K : P(x) => x = m + n
    BY <1>2
  <2> HIDE DEF P
  <2> QED
    BY <2>1, <2>2, <2>3
<1>5. Kept(s, K) = [n \in 1 .. l |-> s[index[n]]]
  BY <1>3 DEF Kept, Less
<1> HIDE DEF index
<1>6. Kept(s, K) = [n \in 1 .. l |-> s[m + n]]
  BY <1>4, <1>5
<1>7. SubSeq(s, m + 1, Len(s)) = [n \in 1 .. l |-> s[m + n]]
  OBVIOUS
<1> QED
  BY <1>6, <1>7

-----------------------------------------------------------------------------
(* The ranking                                                             *)

\* The number of keys of an item.
Width(interest) == IF interest = None THEN 2 ELSE 6

\* The keys of an item: as many numbers for any item, the last one its own.
LEMMA RankedKeys ==
    ASSUME NEW i \in Items, NEW T, NEW interest \in Interests
    PROVE  /\ Ranked(i, T, interest) \in [1 .. Width(interest) -> Int]
           /\ Ranked(i, T, interest)[Width(interest)] = i
           /\ Width(interest) \in Nat \ {0}
<1>1. /\ Score[i].day \in Nat /\ Score[i].engagement \in Nat /\ Score[i].clear \in Nat
      /\ Score[i].matches[interest] \in Nat
      /\ i \in Nat
  BY PageAssumption
<1>2. Band(i, T) \in Int
  BY DEF Band
<1> QED
  BY <1>1, <1>2 DEF Ranked, Width

\* compareRankedItems orders keys of one length.
LEMMA ComesBeforeOrders ==
    ASSUME NEW n \in Nat, NEW a \in [1 .. n -> Int], NEW b \in [1 .. n -> Int], NEW c \in [1 .. n -> Int]
    PROVE  /\ ~ ComesBefore(a, a)
           /\ a # b => ComesBefore(a, b) \/ ComesBefore(b, a)
           /\ ComesBefore(a, b) /\ ComesBefore(b, c) => ComesBefore(a, c)
<1>1. ~ ComesBefore(a, a)
  BY DEF ComesBefore
<1>2. ASSUME a # b PROVE ComesBefore(a, b) \/ ComesBefore(b, a)
  <2> DEFINE Differ == {k \in 1 .. n : a[k] # b[k]}
  <2>1. Differ \in SUBSET Nat /\ Differ # {}
    <3>1. Differ = {} => \A k \in 1 .. n : a[k] = b[k]
      OBVIOUS
    <3>2. a = [k \in 1 .. n |-> a[k]] /\ b = [k \in 1 .. n |-> b[k]]
      OBVIOUS
    <3>3. (\A k \in 1 .. n : a[k] = b[k]) => a = b
      BY ONLY <3>2
    <3> QED
      BY <1>2, <3>1, <3>3
  <2>2. PICK k \in Differ : \A j \in Differ : k <= j
    BY <2>1, LeastNumber
  <2>3. k \in 1 .. n /\ a[k] # b[k] /\ \A j \in 1 .. k - 1 : a[j] = b[j]
    BY <2>2
  <2>4. a[k] < b[k] \/ b[k] < a[k]
    BY <2>3
  <2> QED
    BY <2>3, <2>4 DEF ComesBefore
<1>3. ASSUME ComesBefore(a, b), ComesBefore(b, c) PROVE ComesBefore(a, c)
  <2>1. PICK k \in 1 .. n : a[k] < b[k] /\ \A j \in 1 .. k - 1 : a[j] = b[j]
    BY <1>3 DEF ComesBefore
  <2>2. PICK l \in 1 .. n : b[l] < c[l] /\ \A j \in 1 .. l - 1 : b[j] = c[j]
    BY <1>3 DEF ComesBefore
  <2>3. PICK m \in 1 .. n : m <= k /\ m <= l /\ (m = k \/ m = l)
    <3>1. k \in Int /\ l \in Int
      OBVIOUS
    <3>2. k <= l \/ l <= k
      BY <3>1
    <3>3. CASE k <= l
      <4>1. k <= k /\ k <= l /\ k \in 1 .. n
        BY <3>1, <3>3
      <4> QED
        BY ONLY <4>1
    <3>4. CASE l <= k
      <4>1. l <= k /\ l <= l /\ l \in 1 .. n
        BY <3>1, <3>4
      <4> QED
        BY ONLY <4>1
    <3> QED
      BY <3>2, <3>3, <3>4
  <2>4. \A j \in 1 .. m - 1 : a[j] = c[j]
    BY <2>1, <2>2, <2>3
  <2>5. a[m] < c[m]
    <3>1. m = k \/ m \in 1 .. k - 1
      BY <2>3
    <3>2. m = l \/ m \in 1 .. l - 1
      BY <2>3
    <3>3. a[m] \in Int /\ b[m] \in Int /\ c[m] \in Int
      OBVIOUS
    <3> QED
      BY <2>1, <2>2, <2>3, <3>1, <3>2, <3>3
  <2> QED
    BY <2>4, <2>5 DEF ComesBefore
<1> QED
  BY <1>1, <1>2, <1>3

\* Items are ranked in an order, that of their keys.
LEMMA RankOrderIsOrder ==
    ASSUME NEW T \in SUBSET Items, NEW interest \in Interests
    PROVE  /\ IsOrder(T, RankOrder(T, interest))
           /\ \A i, j \in T : <<i, j>> \in RankOrder(T, interest)
                                  <=> ComesBefore(Ranked(i, T, interest), Ranked(j, T, interest))
<1> DEFINE key(i) == Ranked(i, T, interest)
           n == Width(interest)
<1>1. n \in Nat /\ \A i \in T : key(i) \in [1 .. n -> Int] /\ key(i)[n] = i
  <2>1. n \in Nat
    BY DEF Width
  <2>2. ASSUME NEW i \in T PROVE key(i) \in [1 .. n -> Int] /\ key(i)[n] = i
    <3>1. i \in Items
      OBVIOUS
    <3> QED
      BY <3>1, RankedKeys
  <2> QED
    BY <2>1, <2>2
<1>2. \A i, j \in T : <<i, j>> \in RankOrder(T, interest) <=> ComesBefore(key(i), key(j))
  BY DEF RankOrder
<1> HIDE DEF key, n
<1>3. \A i \in T : ~ ComesBefore(key(i), key(i))
  BY <1>1, ComesBeforeOrders
<1>4. \A i, j \in T : i # j => ComesBefore(key(i), key(j)) \/ ComesBefore(key(j), key(i))
  BY <1>1, ComesBeforeOrders
<1>5. \A i, j, k \in T : ComesBefore(key(i), key(j)) /\ ComesBefore(key(j), key(k)) => ComesBefore(key(i), key(k))
  BY <1>1, ComesBeforeOrders
<1>6. IsOrder(T, RankOrder(T, interest))
  BY <1>2, <1>3, <1>4, <1>5 DEF IsOrder
<1> QED
  BY <1>2, <1>6 DEF key

\* The ranking holds the items of its tab, once each, in that order.
LEMMA RankingSorts ==
    ASSUME NEW F \in Feeds, NEW tab \in Categories, NEW interest \in Interests
    PROVE  /\ InTab(F, tab) \in SUBSET Items /\ IsFiniteSet(InTab(F, tab))
           /\ Sorts(Ranking[F][tab][interest], InTab(F, tab), RankOrder(InTab(F, tab), interest))
<1>1. InTab(F, tab) \in SUBSET Items
  BY PageAssumption DEF InTab
<1>2. IsFiniteSet(InTab(F, tab))
  BY <1>1, PageAssumption, FS_Subset
<1>3. Ranking[F][tab][interest] = InOrder(InTab(F, tab), RankOrder(InTab(F, tab), interest))
  BY DEF Ranking
<1>4. IsOrder(InTab(F, tab), RankOrder(InTab(F, tab), interest))
  BY <1>1, RankOrderIsOrder
<1> QED
  BY <1>1, <1>2, <1>3, <1>4, InOrderSorts

\* What is sorted is a sequence without repetitions.
LEMMA SortedDistinct ==
    ASSUME NEW s, NEW S, NEW before, IsOrder(S, before), Sorts(s, S, before)
    PROVE  s \in Seq(S) /\ Distinct(s)
<1>1. \A j, k \in DOMAIN s : s[j] = s[k] => ~ (j < k) /\ ~ (k < j)
  <2> SUFFICES ASSUME NEW j \in DOMAIN s, NEW k \in DOMAIN s, s[j] = s[k] PROVE ~ (j < k) /\ ~ (k < j)
    OBVIOUS
  <2>1. s[j] \in S /\ <<s[j], s[k]>> = <<s[j], s[j]>> /\ <<s[k], s[j]>> = <<s[j], s[j]>>
    BY DEF Sorts
  <2>2. <<s[j], s[j]>> \notin before
    BY <2>1 DEF IsOrder
  <2>3. (<<s[j], s[k]>> \in before <=> j < k) /\ (<<s[k], s[j]>> \in before <=> k < j)
    BY DEF Sorts
  <2> QED
    BY <2>1, <2>2, <2>3
<1>2. \A j, k \in DOMAIN s : s[j] = s[k] => j = k
  BY <1>1 DEF Sorts
<1> QED
  BY <1>2 DEF Distinct, Sorts

\* What follows a cursor is of the tab, each item once.
LEMMA AfterCursorDistinct ==
    ASSUME NEW F \in Feeds, NEW tab \in Categories, NEW interest \in Interests, NEW cursor
    PROVE  /\ AfterCursor(F, tab, interest, cursor) \in Seq(InTab(F, tab))
           /\ Distinct(AfterCursor(F, tab, interest, cursor))
<1> DEFINE r == Ranking[F][tab][interest]
           K == {k \in DOMAIN r : cursor # Nil => Behind(r[k], F, tab, interest, cursor)}
<1>1. r \in Seq(InTab(F, tab)) /\ Distinct(r)
  BY RankingSorts, RankOrderIsOrder, SortedDistinct
<1>2. K \in SUBSET DOMAIN r
  OBVIOUS
<1>3. AfterCursor(F, tab, interest, cursor) = Kept(r, K)
  BY DEF AfterCursor
<1> HIDE DEF r, K
<1> QED
  BY <1>1, <1>2, <1>3, KeptShown

\* What follows the first m items of a ranking.
LEMMA AfterCursorTail ==
    ASSUME NEW F \in Feeds, NEW tab \in Categories, NEW interest \in Interests, NEW cursor,
           NEW m \in 0 .. Len(Ranking[F][tab][interest]),
           m = 0 => cursor = Nil,
           m > 0 => /\ cursor # Nil
                    /\ cursor.keys = Ranked(Ranking[F][tab][interest][m], InTab(F, tab), interest)
    PROVE  AfterCursor(F, tab, interest, cursor)
               = SubSeq(Ranking[F][tab][interest], m + 1, Len(Ranking[F][tab][interest]))
<1> DEFINE r == Ranking[F][tab][interest]
           T == InTab(F, tab)
           K == {k \in DOMAIN r : cursor # Nil => Behind(r[k], F, tab, interest, cursor)}
<1>1. r \in Seq(T) /\ DOMAIN r = 1 .. Len(r) /\ T \in SUBSET Items
  BY RankingSorts DEF Sorts
<1>2. \A j, k \in DOMAIN r : <<r[j], r[k]>> \in RankOrder(T, interest) <=> j < k
  BY RankingSorts DEF Sorts
<1>3. \A i, j \in T : <<i, j>> \in RankOrder(T, interest) <=> ComesBefore(Ranked(i, T, interest), Ranked(j, T, interest))
  BY <1>1, RankOrderIsOrder
<1>4. \A k \in DOMAIN r : r[k] \in T
  BY <1>1
<1>5. \A j, k \in DOMAIN r : ComesBefore(Ranked(r[j], T, interest), Ranked(r[k], T, interest)) <=> j < k
  BY <1>2, <1>3, <1>4
<1>6. ASSUME NEW k \in DOMAIN r
      PROVE  (cursor # Nil => Behind(r[k], F, tab, interest, cursor)) <=> m < k
  <2>1. CASE m = 0
    BY <2>1, <1>1
  <2>2. CASE m > 0
    <3>1. m \in DOMAIN r
      BY <1>1, <2>2
    <3>2. Behind(r[k], F, tab, interest, cursor) <=> ComesBefore(Ranked(r[m], T, interest), Ranked(r[k], T, interest))
      BY <2>2 DEF Behind
    <3> QED
      BY <1>5, <2>2, <3>1, <3>2
  <2> QED
    BY <2>1, <2>2
<1>7. K = (m + 1) .. Len(r)
  <2>1. K = {k \in DOMAIN r : m < k}
    BY <1>6
  <2> HIDE DEF K, r
  <2> QED
    BY <2>1, <1>1
<1>8. AfterCursor(F, tab, interest, cursor) = Kept(r, K)
  BY DEF AfterCursor
<1>9. m \in 0 .. Len(r)
  OBVIOUS
<1> HIDE DEF r, K, T
<1>10. Kept(r, (m + 1) .. Len(r)) = SubSeq(r, m + 1, Len(r))
  BY <1>1, <1>9, KeptTail
<1> QED
  BY <1>7, <1>8, <1>10 DEF r

\* mergeItems keeps what is shown and adds the rest, each once.
LEMMA MergeShows ==
    ASSUME NEW T, NEW shown \in Seq(T), NEW incoming \in Seq(T)
    PROVE  /\ Merge(shown, incoming) \in Seq(T)
           /\ Shown(Merge(shown, incoming)) = Shown(shown) \cup Shown(incoming)
           /\ Distinct(shown) /\ Distinct(incoming) => Distinct(Merge(shown, incoming))
<1> DEFINE K == {n \in DOMAIN incoming : \A k \in DOMAIN shown : shown[k] # incoming[n]}
           new == Kept(incoming, K)
           all == shown \o new
<1>1. K \in SUBSET DOMAIN incoming
  OBVIOUS
<1>2. /\ new \in Seq(T)
      /\ \A n \in DOMAIN new : \E k \in K : new[n] = incoming[k]
      /\ \A k \in K : \E n \in DOMAIN new : new[n] = incoming[k]
      /\ Distinct(incoming) => Distinct(new)
  BY <1>1, KeptShown
<1>3. Merge(shown, incoming) = all
  BY DEF Merge
<1>4. \A n \in DOMAIN new : \A k \in DOMAIN shown : shown[k] # new[n]
  BY <1>2
<1>5. \A n \in DOMAIN incoming : n \in K \/ \E k \in DOMAIN shown : shown[k] = incoming[n]
  OBVIOUS
<1> HIDE DEF new
<1>6. /\ all \in Seq(T) /\ DOMAIN all = 1 .. Len(shown) + Len(new)
      /\ \A n \in 1 .. Len(shown) : all[n] = shown[n]
      /\ \A n \in (Len(shown) + 1) .. (Len(shown) + Len(new)) : all[n] = new[n - Len(shown)]
      /\ DOMAIN shown = 1 .. Len(shown) /\ DOMAIN new = 1 .. Len(new)
      /\ Len(shown) \in Nat /\ Len(new) \in Nat
  BY <1>2
<1> HIDE DEF all
<1>7. \A n \in DOMAIN new : n + Len(shown) \in DOMAIN all /\ all[n + Len(shown)] = new[n]
  <2> SUFFICES ASSUME NEW n \in DOMAIN new PROVE n + Len(shown) \in DOMAIN all /\ all[n + Len(shown)] = new[n]
    OBVIOUS
  <2>1. n + Len(shown) \in (Len(shown) + 1) .. (Len(shown) + Len(new)) /\ n + Len(shown) - Len(shown) = n
    BY <1>6
  <2> QED
    BY <1>6, <2>1
<1>8. \A n \in DOMAIN shown : n \in DOMAIN all /\ all[n] = shown[n]
  BY <1>6
<1>9. \A n \in DOMAIN all : n \in DOMAIN shown \/ (n - Len(shown) \in DOMAIN new /\ all[n] = new[n - Len(shown)])
  <2> SUFFICES ASSUME NEW n \in DOMAIN all, n \notin DOMAIN shown
               PROVE n - Len(shown) \in DOMAIN new /\ all[n] = new[n - Len(shown)]
    OBVIOUS
  <2>1. n \in (Len(shown) + 1) .. (Len(shown) + Len(new))
    BY <1>6
  <2> QED
    BY <1>6, <2>1
<1>10. Shown(all) = Shown(shown) \cup Shown(incoming)
  <2>1. \A n \in DOMAIN all : all[n] \in Shown(shown) \cup Shown(incoming)
    BY <1>2, <1>8, <1>9 DEF Shown
  <2>2. \A n \in DOMAIN shown : shown[n] \in Shown(all)
    BY <1>8 DEF Shown
  <2>3. \A n \in DOMAIN new : new[n] \in Shown(all)
    BY <1>7 DEF Shown
  <2>4. \A n \in DOMAIN incoming : incoming[n] \in Shown(all)
    BY <1>2, <1>5, <2>2, <2>3
  <2> QED
    BY <2>1, <2>2, <2>4 DEF Shown
<1>11. ASSUME Distinct(shown), Distinct(incoming) PROVE Distinct(all)
  <2>1. Distinct(new)
    BY <1>2, <1>11
  <2> SUFFICES ASSUME NEW j \in DOMAIN all, NEW k \in DOMAIN all, all[j] = all[k] PROVE j = k
    BY DEF Distinct
  <2>2. CASE j \in DOMAIN shown /\ k \in DOMAIN shown
    BY <1>8, <1>11, <2>2 DEF Distinct
  <2>3. CASE j \notin DOMAIN shown /\ k \in DOMAIN shown
    BY <1>4, <1>8, <1>9, <2>3
  <2>4. CASE j \in DOMAIN shown /\ k \notin DOMAIN shown
    BY <1>4, <1>8, <1>9, <2>4
  <2>5. CASE j \notin DOMAIN shown /\ k \notin DOMAIN shown
    <3>1. j - Len(shown) = k - Len(shown)
      BY <1>9, <2>1, <2>5 DEF Distinct
    <3>2. j \in Int /\ k \in Int
      BY <1>6
    <3> QED
      BY <1>6, <3>1, <3>2
  <2> QED
    BY <2>2, <2>3, <2>4, <2>5
<1> QED
  BY <1>3, <1>6, <1>10, <1>11

\* Without leaves the rows with other ids.
LEMMA WithoutShows ==
    ASSUME NEW T, NEW s \in Seq(T), NEW id
    PROVE  /\ Without(s, id) \in Seq(T)
           /\ Shown(Without(s, id)) = {r \in Shown(s) : r.id # id}
           /\ Distinct(s) => Distinct(Without(s, id))
<1> DEFINE K == {n \in DOMAIN s : s[n].id # id}
           t == Kept(s, K)
<1>1. K \in SUBSET DOMAIN s
  OBVIOUS
<1>2. /\ t \in Seq(T)
      /\ \A n \in DOMAIN t : \E k \in K : t[n] = s[k]
      /\ \A k \in K : \E n \in DOMAIN t : t[n] = s[k]
      /\ Distinct(s) => Distinct(t)
  BY <1>1, KeptShown
<1>3. Without(s, id) = t
  BY DEF Without
<1> HIDE DEF t
<1>4. Shown(t) = {r \in Shown(s) : r.id # id}
  <2>1. \A r \in Shown(t) : r \in Shown(s) /\ r.id # id
    BY <1>2 DEF Shown
  <2>2. \A r \in Shown(s) : r.id # id => r \in Shown(t)
    <3> SUFFICES ASSUME NEW k \in DOMAIN s, s[k].id # id PROVE s[k] \in Shown(t)
      BY DEF Shown
    <3>1. k \in K
      OBVIOUS
    <3> QED
      BY <1>2, <3>1 DEF Shown
  <2> QED
    BY <2>1, <2>2 DEF Shown
<1> QED
  BY <1>2, <1>3, <1>4

\* The page of a response: as many as there are, up to PageSize.
LEMMA FirstPageOf ==
    ASSUME NEW T, NEW s \in Seq(T)
    PROVE  /\ FirstPage(s) \in Seq(T)
           /\ Len(FirstPage(s)) = (IF Len(s) < PageSize THEN Len(s) ELSE PageSize)
           /\ \A k \in DOMAIN FirstPage(s) : k \in DOMAIN s /\ FirstPage(s)[k] = s[k]
           /\ Distinct(s) => Distinct(FirstPage(s))
<1> DEFINE l == IF Len(s) < PageSize THEN Len(s) ELSE PageSize
<1>1. l \in Nat /\ l <= Len(s) /\ FirstPage(s) = SubSeq(s, 1, l)
  BY PageAssumption DEF FirstPage
<1> HIDE DEF l
<1>2. SubSeq(s, 1, l) = [k \in 1 .. l |-> s[k]]
  BY <1>1
<1>3. \A k \in 1 .. l : k \in DOMAIN s /\ s[k] \in T
  BY <1>1
<1>4. FirstPage(s) \in Seq(T) /\ Len(FirstPage(s)) = l /\ DOMAIN FirstPage(s) = 1 .. l
  BY <1>1, <1>2, <1>3
<1>5. \A k \in 1 .. l : FirstPage(s)[k] = s[k]
  BY <1>1, <1>2
<1> QED
  BY <1>3, <1>4, <1>5 DEF Distinct, l

\* A response that continues a ranking after its first m items.
LEMMA NextPageOf ==
    ASSUME NEW T, NEW r \in Seq(T), Distinct(r), NEW m \in 0 .. Len(r)
    PROVE  LET after == SubSeq(r, m + 1, Len(r))
               l == Len(FirstPage(after))
           IN  /\ l \in Nat /\ m + l <= Len(r)
               /\ FirstPage(after) = SubSeq(r, m + 1, m + l)
               /\ Merge(SubSeq(r, 1, m), FirstPage(after)) = SubSeq(r, 1, m + l)
               /\ (Len(after) <= PageSize) <=> (m + l = Len(r))
               /\ Len(after) > PageSize => m + l > 0 /\ after[PageSize] = r[m + l]
<1> DEFINE after == SubSeq(r, m + 1, Len(r))
           l == IF Len(r) - m < PageSize THEN Len(r) - m ELSE PageSize
           shown == SubSeq(r, 1, m)
           page1 == SubSeq(r, m + 1, m + l)
<1>1. m \in Nat /\ Len(r) \in Nat /\ m <= Len(r) /\ PageSize \in Nat \ {0}
  BY PageAssumption
<1>2. l \in Nat /\ m + l <= Len(r)
  BY <1>1
<1>3. after = [k \in 1 .. Len(r) - m |-> r[m + k]] /\ Len(after) = Len(r) - m
  BY <1>1
<1>4. FirstPage(after) = page1
  <2>1. FirstPage(after) = SubSeq(after, 1, l)
    BY <1>3 DEF FirstPage
  <2>2. SubSeq(after, 1, l) = [k \in 1 .. l |-> after[k]]
    BY <1>2, <1>3
  <2>3. page1 = [k \in 1 .. l |-> r[m + k]]
    BY <1>1, <1>2
  <2>4. \A k \in 1 .. l : after[k] = r[m + k]
    BY <1>1, <1>2, <1>3
  <2> QED
    BY <2>1, <2>2, <2>3, <2>4
<1>5. page1 = [k \in 1 .. l |-> r[m + k]] /\ page1 \in Seq(T) /\ Len(page1) = l /\ DOMAIN page1 = 1 .. l
  <2>1. page1 = [k \in 1 .. l |-> r[m + k]]
    BY <1>1, <1>2
  <2>2. \A k \in 1 .. l : r[m + k] \in T
    BY <1>1, <1>2
  <2> QED
    BY <1>2, <2>1, <2>2
<1>6. shown = [k \in 1 .. m |-> r[k]] /\ DOMAIN shown = 1 .. m
  BY <1>1
<1>7. Merge(shown, page1) = SubSeq(r, 1, m + l)
  <2> DEFINE K == {n \in DOMAIN page1 : \A k \in DOMAIN shown : shown[k] # page1[n]}
  <2>1. \A n \in 1 .. l : \A k \in 1 .. m : r[k] # r[m + n]
    <3> SUFFICES ASSUME NEW n \in 1 .. l, NEW k \in 1 .. m PROVE r[k] # r[m + n]
      OBVIOUS
    <3>1. k \in DOMAIN r /\ m + n \in DOMAIN r /\ k # m + n
      BY <1>1, <1>2
    <3> QED
      BY <3>1 DEF Distinct
  <2>2. K = 1 .. l
    <3>1. \A n \in 1 .. l : page1[n] = r[m + n]
      BY <1>5
    <3>2. \A k \in 1 .. m : shown[k] = r[k]
      BY <1>6
    <3>3. DOMAIN page1 = 1 .. l /\ DOMAIN shown = 1 .. m
      BY <1>5, <1>6
    <3> HIDE DEF page1, shown, l
    <3> QED
      BY <2>1, <3>1, <3>2, <3>3
  <2>3. Kept(page1, 1 .. l) = page1
    <3> HIDE DEF page1, l
    <3>1. 0 \in 0 .. Len(page1) /\ 0 + 1 = 1
      BY <1>2, <1>5
    <3>2. Kept(page1, (0 + 1) .. Len(page1)) = SubSeq(page1, 0 + 1, Len(page1))
      BY <1>5, <3>1, KeptTail
    <3>3. SubSeq(page1, 1, Len(page1)) = page1
      BY <1>5, SubSeqFull
    <3> QED
      BY <1>5, <3>1, <3>2, <3>3
  <2>4. shown \o page1 = SubSeq(r, 1, m + l)
    <3>1. 1 \in 1 .. Len(r) + 1 /\ m \in 1 - 1 .. Len(r) /\ m + l \in m .. Len(r)
      BY <1>1, <1>2
    <3> HIDE DEF l
    <3> QED
      BY <3>1, ConcatAdjacentSubSeq
  <2>5. Merge(shown, page1) = shown \o Kept(page1, K)
    BY DEF Merge
  <2> HIDE DEF page1, shown, K
  <2> QED
    BY <2>2, <2>3, <2>4, <2>5
<1>8. (Len(after) <= PageSize) <=> (m + l = Len(r))
  BY <1>1, <1>3
<1>9. Len(after) > PageSize => m + l > 0 /\ after[PageSize] = r[m + l]
  BY <1>1, <1>3
<1>10. Len(FirstPage(after)) = l
  BY <1>4, <1>5
<1> HIDE DEF l, after, page1, shown
<1>11. FirstPage(after) = SubSeq(r, m + 1, m + Len(FirstPage(after)))
  BY <1>4, <1>10 DEF page1
<1>12. Merge(SubSeq(r, 1, m), FirstPage(after)) = SubSeq(r, 1, m + Len(FirstPage(after)))
  BY <1>4, <1>7, <1>10 DEF shown
<1> QED
  BY <1>2, <1>8, <1>9, <1>10, <1>11, <1>12 DEF after

-----------------------------------------------------------------------------
(* Well-formed calls and pages                                             *)

\* A call is dropped, kept, or not waited for any more.
IsKept(call, new) ==
    \/ new = Nil
    \/ new = call
    \/ call # Nil /\ call.more /\ new = [call EXCEPT !.current = FALSE]

\* All calls but one are dropped, kept, or not waited for any more.
OthersKept(c) == \A x \in Calls \ {c} : IsKept(calls[x], calls'[x])

\* A call that changes what the page is busy with has its item still busy.
StillBusy(call) ==
    /\ call.op = "SAVE" => call.about \in page'.saving
    /\ call.op = "DELETE" => call.about.item \in page'.saving
    /\ call.op = "INTERESTS" => page'.savingInterests

\* A call keeps its type when rows are created and its item stays busy.
LEMMA CallTypedKept ==
    ASSUME NEW call, CallWellFormed(call), created \in Nat, created' \in Nat, created <= created', StillBusy(call)
    PROVE  CallWellFormed(call)'
<1>1. 1 .. created \subseteq 1 .. created' /\ 0 .. created \subseteq 0 .. created'
  OBVIOUS
<1>2. AnyRow \subseteq AnyRow'
  BY <1>1 DEF AnyRow
<1>3. \A s : AnyRows(s) => AnyRows(s)'
  BY <1>2, SeqMonotonic DEF AnyRows
<1>4. ASSUME call.op = "LIST" PROVE ListCall(call)'
  BY <1>1, <1>4 DEF CallWellFormed, ListCall
<1>5. ASSUME call.op = "SAVED" PROVE SavedCall(call)'
  BY <1>1, <1>3, <1>5 DEF CallWellFormed, SavedCall
<1>6. ASSUME call.op = "SAVE" PROVE SaveCall(call)'
  BY <1>1, <1>6 DEF CallWellFormed, SaveCall, StillBusy
<1>7. ASSUME call.op = "DELETE" PROVE DeleteCall(call)'
  BY <1>2, <1>7 DEF CallWellFormed, DeleteCall, StillBusy
<1>8. ASSUME call.op = "INTERESTS" PROVE InterestsCall(call)'
  BY <1>8 DEF CallWellFormed, InterestsCall, StillBusy
<1> QED
  BY <1>4, <1>5, <1>6, <1>7, <1>8 DEF CallWellFormed

\* A call for more keeps its type when it is not waited for any more.
LEMMA NotAwaited ==
    ASSUME NEW call, CallWellFormed(call), call.more, NEW new, new = [call EXCEPT !.current = FALSE]
    PROVE  CallWellFormed(new) /\ new.op = call.op /\ new.about = call.about /\ ~new.current
<1>1. IsCallRow(call)
  BY DEF CallWellFormed
<1>2. /\ new.op = call.op /\ new.about = call.about /\ new.cursor = call.cursor /\ new.more = call.more
      /\ new.current = FALSE /\ new.step = call.step /\ new.basis = call.basis /\ new.answer = call.answer
  BY <1>1 DEF IsCallRow
<1>3. new = [op |-> new.op, about |-> new.about, cursor |-> new.cursor, more |-> new.more,
                current |-> new.current, step |-> new.step, basis |-> new.basis, answer |-> new.answer]
  BY <1>1 DEF IsCallRow
<1>4. IsCallRow(new)
  BY <1>1, <1>2, <1>3 DEF IsCallRow
<1>5. ListCall(call) => ListCall(new)
  BY <1>2 DEF ListCall
<1>6. SavedCall(call) => SavedCall(new)
  BY <1>2 DEF SavedCall
<1>7. SaveCall(call) => SaveCall(new)
  BY <1>2 DEF SaveCall
<1>8. DeleteCall(call) => DeleteCall(new)
  BY <1>2 DEF DeleteCall
<1>9. InterestsCall(call) => InterestsCall(new)
  BY <1>2 DEF InterestsCall
<1>10. CallWellFormed(new)
  BY <1>2, <1>4, <1>5, <1>6, <1>7, <1>8, <1>9 DEF CallWellFormed
<1> QED
  BY <1>2, <1>10

\* What is left to show of a step that makes or handles the call c.
LEMMA CallsStep ==
    ASSUME CallTypes, CurrentCalls, created \in Nat, created' \in Nat, created <= created',
           NEW c, OthersKept(c),
           \A x \in Calls \ {c} : calls[x] # Nil => StillBusy(calls[x]),
           \A x \in Calls \ {c} : calls'[x] # Nil /\ calls'[x].current =>
               /\ calls'[x].op = "LIST" => /\ page'.tab = page.tab /\ page'.status = page.status
                                           /\ page'.loadingMore = page.loadingMore /\ page'.cursor = page.cursor
               /\ calls'[x].op = "SAVED" => /\ page'.savedStatus = page.savedStatus
                                            /\ page'.loadingMoreSaved = page.loadingMoreSaved
                                            /\ page'.savedCursor = page.savedCursor,
           c \in Calls /\ calls'[c] # Nil =>
               /\ CallWellFormed(calls[c])' /\ Awaited(calls[c])'
               /\ \A x \in Calls \ {c} : calls'[x] # Nil => ~ Clash(calls'[c], calls'[x])
    PROVE  CallTypes' /\ CurrentCalls'
<1>1. ASSUME NEW x \in Calls \ {c}, calls'[x] # Nil
      PROVE  /\ calls[x] # Nil /\ CallWellFormed(calls[x])' /\ Awaited(calls[x])'
             /\ calls'[x].op = calls[x].op /\ calls'[x].about = calls[x].about
             /\ calls'[x].current => calls[x].current
  <2>1. PICK call : call = calls[x]
    OBVIOUS
  <2>2. PICK new : new = calls'[x]
    OBVIOUS
  <2>3. call # Nil /\ CallWellFormed(call) /\ StillBusy(call)
    BY <1>1, <2>1, <2>2 DEF CallTypes, OthersKept, IsKept
  <2>4. new = call \/ (call.more /\ new = [call EXCEPT !.current = FALSE])
    BY <1>1, <2>1, <2>2 DEF OthersKept, IsKept
  <2>5. CallWellFormed(new) /\ new.op = call.op /\ new.about = call.about /\ (new.current => call.current /\ new = call)
    BY <2>3, <2>4, NotAwaited
  <2>6. StillBusy(new)
    BY <2>3, <2>5 DEF StillBusy
  <2>7. CallWellFormed(new)'
    BY <2>5, <2>6, CallTypedKept
  <2>8. new.current => Awaited(call)
    BY <2>1, <2>3, <2>5 DEF CurrentCalls
  <2>9. new.current /\ new.op = "LIST" => /\ page'.tab = page.tab /\ page'.status = page.status
                                          /\ page'.loadingMore = page.loadingMore /\ page'.cursor = page.cursor
    BY <1>1, <2>2
  <2>10. new.current /\ new.op = "SAVED" => /\ page'.savedStatus = page.savedStatus
                                            /\ page'.loadingMoreSaved = page.loadingMoreSaved
                                            /\ page'.savedCursor = page.savedCursor
    BY <1>1, <2>2
  <2>11. Awaited(new)'
    BY <2>5, <2>8, <2>9, <2>10 DEF Awaited
  <2>12. CallWellFormed(calls[x])' /\ Awaited(calls[x])'
    BY <2>2, <2>7, <2>11
  <2> QED
    BY <2>1, <2>2, <2>3, <2>5, <2>12
<1>2. CallTypes'
  BY <1>1 DEF CallTypes
<1>3. ASSUME NEW a \in Calls, NEW b \in Calls, a # b, calls'[a] # Nil, calls'[b] # Nil
      PROVE  ~ Clash(calls'[a], calls'[b])
  <2>1. CASE a = c
    BY <1>3, <2>1
  <2>2. CASE b = c
    <3>1. ~ Clash(calls'[b], calls'[a])
      BY <1>3, <2>2
    <3> QED
      BY <3>1 DEF Clash
  <2>3. CASE a # c /\ b # c
    <3>1. calls[a] # Nil /\ calls[b] # Nil
      BY <1>1, <1>3, <2>3
    <3>2. ~ Clash(calls[a], calls[b])
      BY <1>3, <3>1 DEF CurrentCalls
    <3>3. /\ calls'[a].op = calls[a].op /\ calls'[a].about = calls[a].about
          /\ calls'[a].current => calls[a].current
          /\ calls'[b].op = calls[b].op /\ calls'[b].about = calls[b].about
          /\ calls'[b].current => calls[b].current
      BY <1>1, <1>3, <2>3
    <3> QED
      BY <3>2, <3>3 DEF Clash, ItemOf, IsToggle
  <2> QED
    BY <2>1, <2>2, <2>3
<1>4. \A x \in Calls : calls'[x] # Nil => Awaited(calls[x])'
  BY <1>1
<1> QED
  BY <1>2, <1>3, <1>4 DEF CurrentCalls

\* The time and id of a row, and what is left of them in a cursor.
LEMMA Stamps ==
    ASSUME NEW n \in DOMAIN Stamp
    PROVE  /\ Stamp[n].ms \in Nat /\ Stamp[n].us \in Nat /\ Stamp[n].uuid \in Nat
           /\ Truncated(Stamp[n]) \in RowStamp
           /\ Truncated(Stamp[n]).ms = Stamp[n].ms
<1>1. PICK r : r = Stamp[n]
  OBVIOUS
<1>6. Stamp \in Seq(RowStamp)
  BY PageAssumption DEF RowStamp
<1>2. r \in RowStamp
  BY <1>1, <1>6
<1>3. r.ms \in Nat /\ r.us \in Nat /\ r.us \in 0 .. 999 /\ r.uuid \in Nat
  BY <1>2 DEF RowStamp
<1>4. Truncated(r) = [ms |-> r.ms, us |-> 0, uuid |-> r.uuid]
  BY <1>2 DEF Truncated, RowStamp
<1>5. Truncated(r) \in RowStamp /\ Truncated(r).ms = r.ms
  BY <1>3, <1>4 DEF RowStamp
<1> QED
  BY <1>1, <1>3, <1>5

\* Rows are in order: one precedes the other, as their ids differ.
LEMMA StampsOrdered ==
    /\ \A m \in DOMAIN Stamp : ~Precedes(Stamp[m], Stamp[m])
    /\ \A m, n \in DOMAIN Stamp : m # n => Precedes(Stamp[m], Stamp[n]) \/ Precedes(Stamp[n], Stamp[m])
    /\ \A k, m, n \in DOMAIN Stamp :
           Precedes(Stamp[k], Stamp[m]) /\ Precedes(Stamp[m], Stamp[n]) => Precedes(Stamp[k], Stamp[n])
<1>1. \A m \in DOMAIN Stamp : Stamp[m].ms \in Int /\ Stamp[m].us \in Int /\ Stamp[m].uuid \in Int
  BY Stamps
<1>2. \A m, n \in DOMAIN Stamp : Stamp[m].uuid = Stamp[n].uuid => m = n
  BY PageAssumption
<1> QED
  BY <1>1, <1>2 DEF Precedes

\* The pairs of rows, the newer one first.
Descending(rows) == {p \in rows \X rows : Precedes(Stamp[p[2].id], Stamp[p[1].id])}

\* The rows of the saved items that are older than a cursor, newest first.
LEMMA RowsAfterSorts ==
    ASSUME StateTypes, NEW cursor
    PROVE  /\ RowsAfter(cursor) \in Seq(AnyRow) /\ Distinct(RowsAfter(cursor))
           /\ DOMAIN RowsAfter(cursor) = 1 .. Len(RowsAfter(cursor))
           /\ \A k \in DOMAIN RowsAfter(cursor) :
                  \E i \in Items : Older(i, cursor) /\ RowsAfter(cursor)[k] = Row(i)
           /\ \A i \in Items : Older(i, cursor) => \E k \in DOMAIN RowsAfter(cursor) : RowsAfter(cursor)[k] = Row(i)
           /\ \A j, k \in DOMAIN RowsAfter(cursor) :
                  Precedes(Stamp[RowsAfter(cursor)[k].id], Stamp[RowsAfter(cursor)[j].id]) <=> j < k
<1> DEFINE J == {j \in Items : Older(j, cursor)}
           rows == {Row(i) : i \in J}
           s == RowsAfter(cursor)
<1>1. \A i \in J : Row(i) = [item |-> i, id |-> saved[i]] /\ saved[i] \in 1 .. created /\ saved[i] \in Int /\ i \in Items
  BY DEF StateTypes, Older, NoRow, Row
<1>2. rows \subseteq AnyRow
  BY <1>1 DEF AnyRow
<1>3. \A a, b \in rows : a.id = b.id => a = b
  <2> SUFFICES ASSUME NEW i \in J, NEW j \in J, Row(i).id = Row(j).id PROVE Row(i) = Row(j)
    OBVIOUS
  <2>1. saved[i] = saved[j] /\ saved[i] # NoRow
    BY <1>1 DEF NoRow
  <2>2. i = j
    BY <2>1 DEF StateTypes
  <2> QED
    BY <2>2
<1>4. \A a \in rows : a.id \in DOMAIN Stamp
  <2>1. 1 .. created \subseteq DOMAIN Stamp
    BY PageAssumption DEF StateTypes
  <2> QED
    BY <1>1, <2>1
<1>5. IsFiniteSet(rows)
  <2>1. IsFiniteSet(J)
    BY PageAssumption, FS_Subset
  <2> DEFINE f == [i \in J |-> Row(i)]
  <2>2. f \in Surjection(J, rows)
    BY DEF Surjection
  <2> HIDE DEF f, J, rows
  <2> QED
    BY <2>1, <2>2, FS_Surjection
<1> HIDE DEF rows
<1>6. \A a, b \in rows : <<a, b>> \in Descending(rows) <=> Precedes(Stamp[b.id], Stamp[a.id])
  BY DEF Descending
<1>7. IsOrder(rows, Descending(rows))
  BY <1>3, <1>4, <1>6, StampsOrdered DEF IsOrder
<1>8. s = InOrder(rows, Descending(rows))
  BY DEF RowsAfter, NewestFirst, Descending, rows
<1>9. Sorts(s, rows, Descending(rows))
  BY <1>5, <1>7, <1>8, InOrderSorts
<1> HIDE DEF s
<1>10. s \in Seq(AnyRow) /\ Distinct(s)
  BY <1>2, <1>7, <1>9, SortedDistinct, SeqMonotonic
<1>11. DOMAIN s = 1 .. Len(s) /\ \A k \in DOMAIN s : s[k] \in rows
  BY <1>9 DEF Sorts
<1>12. \A k \in DOMAIN s : \E i \in Items : Older(i, cursor) /\ s[k] = Row(i)
  BY <1>11 DEF rows
<1>13. \A i \in Items : Older(i, cursor) => \E k \in DOMAIN s : s[k] = Row(i)
  <2> SUFFICES ASSUME NEW i \in Items, Older(i, cursor) PROVE \E k \in DOMAIN s : s[k] = Row(i)
    OBVIOUS
  <2>1. Row(i) \in rows
    BY DEF rows
  <2> QED
    BY <1>9, <2>1 DEF Sorts
<1>14. \A j, k \in DOMAIN s : Precedes(Stamp[s[k].id], Stamp[s[j].id]) <=> j < k
  BY <1>6, <1>9, <1>11 DEF Sorts
<1> QED
  BY <1>10, <1>11, <1>12, <1>13, <1>14 DEF s

\* The page keeps its types when rows are created.
LEMMA PageFieldsKept ==
    ASSUME PageFields, page' = page, created \in Nat, created' \in Nat, created <= created'
    PROVE  PageFields'
<1>1. 1 .. created \subseteq 1 .. created' /\ 0 .. created \subseteq 0 .. created'
  OBVIOUS
<1>2. AnyRow \subseteq AnyRow'
  BY <1>1 DEF AnyRow
<1>3. AnyRows(page.savedItems) => AnyRows(page.savedItems)'
  BY <1>2, SeqMonotonic DEF AnyRows
<1>4. page.refs \in [Items -> 0 .. created']
  BY <1>1 DEF PageFields
<1> QED
  BY <1>3, <1>4 DEF PageFields

-----------------------------------------------------------------------------
(* The handlers                                                            *)

\* A call that goes on or is answered.
RowHandled(call, new, s, b, a) ==
    \/ new = [call EXCEPT !.step = s, !.answer = a] /\ b = call.basis
    \/ new = [call EXCEPT !.step = s, !.basis = b, !.answer = a]
    \/ new = [call EXCEPT !.step = s] /\ a = call.answer /\ b = call.basis

\* What a call is after a handler's step.
LEMMA HandledRow ==
    ASSUME NEW call, IsCallRow(call), NEW new, NEW s, NEW b, NEW a, IsAnswer(a), RowHandled(call, new, s, b, a)
    PROVE  /\ IsCallRow(new)
           /\ new.op = call.op /\ new.about = call.about /\ new.cursor = call.cursor /\ new.more = call.more
           /\ new.current = call.current /\ new.step = s /\ new.basis = b /\ new.answer = a
<1>1. /\ new.op = call.op /\ new.about = call.about /\ new.cursor = call.cursor /\ new.more = call.more
      /\ new.current = call.current /\ new.step = s /\ new.basis = b /\ new.answer = a
  BY DEF IsCallRow, RowHandled
<1>2. new = [op |-> new.op, about |-> new.about, cursor |-> new.cursor, more |-> new.more,
             current |-> new.current, step |-> new.step, basis |-> new.basis, answer |-> new.answer]
  BY DEF IsCallRow, RowHandled
<1> QED
  BY <1>1, <1>2 DEF IsCallRow

\* A refusal has no items.
LEMMA RefusedFields == IsAnswer(Refused) /\ Refused.ok = FALSE
BY DEF Refused, IsAnswer

\* The answers that handlers make of it.
AnswerMade(r, a, i, c) ==
    \/ a = [r EXCEPT !.ok = TRUE, !.items = i, !.cursor = c]
    \/ a = [r EXCEPT !.ok = TRUE, !.items = i] /\ c = r.cursor
    \/ a = [r EXCEPT !.ok = TRUE] /\ i = r.items /\ c = r.cursor

\* What an answer is that a handler made.
LEMMA AnswerRow ==
    ASSUME NEW r, IsAnswer(r), NEW a, NEW i, NEW c, AnswerMade(r, a, i, c)
    PROVE  IsAnswer(a) /\ a.ok = TRUE /\ a.items = i /\ a.cursor = c
<1>1. a.ok = TRUE /\ a.items = i /\ a.cursor = c
  BY DEF IsAnswer, AnswerMade
<1>2. a = [ok |-> a.ok, items |-> a.items, cursor |-> a.cursor, refs |-> a.refs]
  BY DEF IsAnswer, AnswerMade
<1> QED
  BY <1>1, <1>2 DEF IsAnswer

\* A step that handles c and leaves the page and the other calls as they are.
LEMMA HandlerStep ==
    ASSUME PageShaped, page' = page, created' \in Nat, created <= created', NEW c \in Calls, calls[c] # Nil,
           \A x \in Calls \ {c} : calls'[x] = calls[x],
           NEW new, new = calls'[c], CallWellFormed(new)',
           new.op = calls[c].op, new.about = calls[c].about, new.cursor = calls[c].cursor,
           new.more = calls[c].more, new.current = calls[c].current
    PROVE  CallTypes' /\ CurrentCalls' /\ PageFields'
<1>1. created \in Nat
  BY DEF PageShaped, StateTypes
<1>2. PageFields'
  BY <1>1, PageFieldsKept DEF PageShaped
<1>3. OthersKept(c)
  BY DEF OthersKept, IsKept
<1>4. \A x \in Calls \ {c} : calls[x] # Nil => StillBusy(calls[x])
  BY DEF PageShaped, CallTypes, CallWellFormed, StillBusy, SaveCall, DeleteCall, InterestsCall
<1>5. Awaited(calls[c])'
  <2>1. Awaited(calls[c])
    BY DEF PageShaped, CurrentCalls
  <2> QED
    BY <2>1 DEF Awaited
<1>6. \A x \in Calls \ {c} : calls'[x] # Nil => ~ Clash(calls'[c], calls'[x])
  <2> SUFFICES ASSUME NEW x \in Calls \ {c}, calls[x] # Nil PROVE ~ Clash(calls'[c], calls[x])
    OBVIOUS
  <2>1. ~ Clash(calls[c], calls[x])
    BY DEF PageShaped, CurrentCalls
  <2> QED
    BY <2>1 DEF Clash, IsToggle, ItemOf
<1>7. CallWellFormed(calls[c])'
  OBVIOUS
<1> QED
  BY <1>1, <1>2, <1>3, <1>4, <1>5, <1>6, <1>7, CallsStep DEF PageShaped

\* The entry of c after a handler's step.
CallsHandled(c, s, b, a) ==
    \/ calls' = [calls EXCEPT ![c].step = s, ![c].answer = a] /\ b = calls[c].basis
    \/ calls' = [calls EXCEPT ![c].step = s, ![c].basis = b, ![c].answer = a]
    \/ calls' = [calls EXCEPT ![c].step = s] /\ a = calls[c].answer /\ b = calls[c].basis

\* A handler's step changes its call alone.
LEMMA EntryOf ==
    ASSUME calls = [x \in Calls |-> calls[x]], NEW c \in Calls, NEW s, NEW b, NEW a, CallsHandled(c, s, b, a)
    PROVE  /\ RowHandled(calls[c], calls'[c], s, b, a)
           /\ \A x \in Calls \ {c} : calls'[x] = calls[x]
           /\ calls' = [x \in Calls |-> calls'[x]]
<1>1. CASE calls' = [calls EXCEPT ![c].step = s, ![c].answer = a] /\ b = calls[c].basis
  BY <1>1 DEF RowHandled
<1>2. CASE calls' = [calls EXCEPT ![c].step = s, ![c].basis = b, ![c].answer = a]
  BY <1>2 DEF RowHandled
<1>3. CASE calls' = [calls EXCEPT ![c].step = s] /\ a = calls[c].answer /\ b = calls[c].basis
  BY <1>3 DEF RowHandled
<1> QED
  BY <1>1, <1>2, <1>3 DEF CallsHandled

\* What no handler changes.
Unserved == UNCHANGED <<page, basis, known>>

\* The call c goes on to step s, with what was read for it and its answer.
LEMMA CallAfter ==
    ASSUME PageShaped, NEW c \in Calls, calls[c] # Nil, NEW s, NEW b, NEW a, IsAnswer(a),
           CallsHandled(c, s, b, a)
    PROVE  /\ IsCallRow(calls'[c])
           /\ calls'[c].op = calls[c].op /\ calls'[c].about = calls[c].about
           /\ calls'[c].cursor = calls[c].cursor /\ calls'[c].more = calls[c].more
           /\ calls'[c].current = calls[c].current
           /\ calls'[c].step = s /\ calls'[c].basis = b /\ calls'[c].answer = a
           /\ \A x \in Calls \ {c} : calls'[x] = calls[x]
           /\ calls' = [x \in Calls |-> calls'[x]]
<1>1. PICK call : call = calls[c]
  OBVIOUS
<1>2. PICK new : new = calls'[c]
  OBVIOUS
<1>3. IsCallRow(call) /\ calls = [x \in Calls |-> calls[x]]
  BY <1>1 DEF PageShaped, StateTypes, CallTypes, CallWellFormed
<1>4. /\ RowHandled(call, new, s, b, a)
      /\ \A x \in Calls \ {c} : calls'[x] = calls[x]
      /\ calls' = [x \in Calls |-> calls'[x]]
  BY <1>1, <1>2, <1>3, EntryOf
<1>5. /\ IsCallRow(new)
      /\ new.op = call.op /\ new.about = call.about /\ new.cursor = call.cursor /\ new.more = call.more
      /\ new.current = call.current /\ new.step = s /\ new.basis = b /\ new.answer = a
  BY <1>3, <1>4, HandledRow
<1> QED
  BY <1>1, <1>2, <1>4, <1>5

\* A refusal is an answer to every call.
LEMMA RefusalTyped ==
    ASSUME NEW call, CallWellFormed(call), NEW new, IsCallRow(new), new.op = call.op, new.about = call.about,
           new.cursor = call.cursor, new.more = call.more, new.current = call.current,
           new.step = "ANSWERED", new.answer = Refused
    PROVE  CallWellFormed(new)
<1>1. ~ new.answer.ok /\ new.answer.ok \in BOOLEAN
  BY RefusedFields
<1> QED
  BY <1>1 DEF CallWellFormed, ListCall, SavedCall, SaveCall, DeleteCall, InterestsCall

\* What remains of a handler's step when the rows stay as they are.
LEMMA HandlerKeeps ==
    ASSUME PageShaped, Unserved, UNCHANGED <<feed, saved, created, events>>, interests' \in Interests,
           NEW c \in Calls, calls[c] # Nil, CallWellFormed(calls'[c]),
           calls'[c].op = calls[c].op, calls'[c].about = calls[c].about, calls'[c].cursor = calls[c].cursor,
           calls'[c].more = calls[c].more, calls'[c].current = calls[c].current,
           \A x \in Calls \ {c} : calls'[x] = calls[x], calls' = [x \in Calls |-> calls'[x]]
    PROVE  PageShaped'
<1>1. PICK new : new = calls'[c]
  OBVIOUS
<1>2. created \in Nat
  BY DEF PageShaped, StateTypes
<1>3. StillBusy(new)
  <2>1. CallWellFormed(calls[c])
    BY DEF PageShaped, CallTypes
  <2> QED
    BY <1>1, <2>1 DEF Unserved, StillBusy, CallWellFormed, SaveCall, DeleteCall, InterestsCall
<1>4. CallWellFormed(new)
  BY <1>1
<1>5. CallWellFormed(new)'
  BY <1>2, <1>3, <1>4, CallTypedKept
<1>6. CallTypes' /\ CurrentCalls' /\ PageFields'
  BY <1>1, <1>2, <1>5, HandlerStep DEF Unserved
<1>7. StateTypes'
  BY DEF PageShaped, StateTypes, Unserved
<1> QED
  BY <1>6, <1>7 DEF PageShaped

\* A handler that refuses leaves everything well formed.
LEMMA RefusedShape ==
    ASSUME PageShaped, NEW c \in Calls, calls[c] # Nil, Answered(c, Refused), Unserved,
           UNCHANGED <<feed, saved, created, events>>, interests' \in Interests
    PROVE  PageShaped'
<1>1. PICK b : b = calls[c].basis
  OBVIOUS
<1>2. CallsHandled(c, "ANSWERED", b, Refused)
  BY <1>1 DEF Answered, CallsHandled
<1>3. /\ IsCallRow(calls'[c])
      /\ calls'[c].op = calls[c].op /\ calls'[c].about = calls[c].about
      /\ calls'[c].cursor = calls[c].cursor /\ calls'[c].more = calls[c].more
      /\ calls'[c].current = calls[c].current
      /\ calls'[c].step = "ANSWERED" /\ calls'[c].answer = Refused
      /\ \A x \in Calls \ {c} : calls'[x] = calls[x]
      /\ calls' = [x \in Calls |-> calls'[x]]
  BY <1>2, RefusedFields, CallAfter
<1>4. CallWellFormed(calls[c])
  BY DEF PageShaped, CallTypes
<1>5. CallWellFormed(calls'[c])
  BY <1>3, <1>4, RefusalTyped
<1> QED
  BY <1>3, <1>5, HandlerKeeps

\* The feed's ranking leaves everything well formed: its answer is a page of the ranking.
LEMMA ListDiscoverShape ==
    ASSUME PageShaped, NEW c \in Calls, ListDiscover(c), Unserved PROVE PageShaped'
<1> DEFINE after == AfterCursor(feed, calls[c].about, interests, calls[c].cursor)
           a == [ok |-> TRUE, items |-> FirstPage(after),
                 cursor |-> CursorAfter(after, feed, calls[c].about, interests), refs |-> <<>>]
           b == [feed |-> feed, interest |-> interests]
<1>1. calls[c] # Nil /\ calls[c].op = "LIST" /\ calls[c].step = "SENT"
  BY DEF ListDiscover, IsCall
<1>2. CallWellFormed(calls[c]) /\ ListCall(calls[c])
  BY <1>1 DEF PageShaped, CallTypes, CallWellFormed
<1>3. UNCHANGED <<feed, interests, saved, created, events>> /\ interests' \in Interests
  BY DEF ListDiscover, server, PageShaped, StateTypes
<1>4. CASE CursorFits(calls[c].cursor)
  <2>1. CallsHandled(c, "LISTED", b, a)
    BY <1>4 DEF ListDiscover, CallsHandled
  <2>2. /\ IsAnswer(a) /\ a.ok = TRUE /\ a.items = FirstPage(after)
        /\ a.cursor = CursorAfter(after, feed, calls[c].about, interests)
    BY DEF IsAnswer
  <2>3. b \in ListBasis /\ b.feed = feed /\ b.interest = interests
    BY DEF ListBasis, PageShaped, StateTypes
  <2>4. calls[c].cursor # Nil => calls[c].cursor.interest = b.interest
    BY <1>4 DEF CursorFits
  <2> HIDE DEF a, b
  <2>5. /\ IsCallRow(calls'[c])
        /\ calls'[c].op = calls[c].op /\ calls'[c].about = calls[c].about
        /\ calls'[c].cursor = calls[c].cursor /\ calls'[c].more = calls[c].more
        /\ calls'[c].current = calls[c].current
        /\ calls'[c].step = "LISTED" /\ calls'[c].basis = b /\ calls'[c].answer = a
        /\ \A x \in Calls \ {c} : calls'[x] = calls[x]
        /\ calls' = [x \in Calls |-> calls'[x]]
    BY <1>1, <2>1, <2>2, CallAfter
  <2>6. ListCall(calls'[c])
    BY <1>2, <2>2, <2>3, <2>4, <2>5 DEF ListCall
  <2>7. CallWellFormed(calls'[c])
    BY <1>1, <1>2, <2>2, <2>5, <2>6 DEF CallWellFormed
  <2> QED
    BY <1>1, <1>3, <2>5, <2>7, HandlerKeeps
<1>5. CASE ~ CursorFits(calls[c].cursor)
  <2>1. Answered(c, Refused)
    BY <1>5 DEF ListDiscover
  <2> QED
    BY <1>1, <1>3, <2>1, RefusedShape
<1> QED
  BY <1>4, <1>5

\* So does the reading of the references.
LEMMA FindReferencesShape ==
    ASSUME PageShaped, NEW c \in Calls, FindSavedItemReferences(c), Unserved PROVE PageShaped'
<1> DEFINE old == calls[c].answer
           b == calls[c].basis
<1>1. calls[c] # Nil /\ calls[c].op = "LIST" /\ calls[c].step = "LISTED"
  BY DEF FindSavedItemReferences, IsCall
<1>2. CallWellFormed(calls[c]) /\ ListCall(calls[c]) /\ IsAnswer(old)
  BY <1>1 DEF PageShaped, CallTypes, CallWellFormed, IsCallRow
<1>3. UNCHANGED <<feed, interests, saved, created, events>> /\ interests' \in Interests
  BY DEF FindSavedItemReferences, server, PageShaped, StateTypes
<1>4. PICK a : a = [old EXCEPT !.refs = saved]
  OBVIOUS
<1>5. a.ok = old.ok /\ a.items = old.items /\ a.cursor = old.cursor /\ a.refs = saved
  BY <1>2, <1>4 DEF IsAnswer
<1>6. a = [ok |-> a.ok, items |-> a.items, cursor |-> a.cursor, refs |-> a.refs]
  BY <1>2, <1>4 DEF IsAnswer
<1>7. IsAnswer(a)
  BY <1>5, <1>6 DEF IsAnswer
<1>8. saved \in [Items -> 0 .. created]
  BY DEF PageShaped, StateTypes
<1> HIDE DEF b
<1>9. CallsHandled(c, "ANSWERED", b, a)
  BY <1>4 DEF FindSavedItemReferences, CallsHandled, Answered, b
<1>10. /\ IsCallRow(calls'[c])
       /\ calls'[c].op = calls[c].op /\ calls'[c].about = calls[c].about
       /\ calls'[c].cursor = calls[c].cursor /\ calls'[c].more = calls[c].more
       /\ calls'[c].current = calls[c].current
       /\ calls'[c].step = "ANSWERED" /\ calls'[c].basis = b /\ calls'[c].answer = a
       /\ \A x \in Calls \ {c} : calls'[x] = calls[x]
       /\ calls' = [x \in Calls |-> calls'[x]]
  BY <1>1, <1>7, <1>9, CallAfter
<1>11. ListCall(calls'[c])
  BY <1>1, <1>2, <1>5, <1>8, <1>10 DEF ListCall, b
<1>12. CallWellFormed(calls'[c])
  BY <1>1, <1>2, <1>5, <1>10, <1>11 DEF CallWellFormed
<1> QED
  BY <1>1, <1>3, <1>10, <1>12, HandlerKeeps

\* The page of a list of saved items, and where the next one begins.
LEMMA SavedPage ==
    ASSUME StateTypes, NEW cursor, NEW rows, rows = RowsAfter(cursor)
    PROVE  /\ AnyRows(FirstPage(rows)) /\ Distinct(FirstPage(rows))
           /\ CursorOf(rows) \in RowStamp \cup {Nil}
           /\ \A i \in Items : /\ Older(i, cursor) /\ FirstOfItsMillisecond(saved[i], created)
                               /\ UpTo(saved[i], CursorOf(rows))
                  => Row(i) \in Shown(FirstPage(rows))
           /\ \A k \in DOMAIN FirstPage(rows) : \E i \in Items : Older(i, cursor) /\ FirstPage(rows)[k] = Row(i)
<1>1. /\ rows \in Seq(AnyRow) /\ Distinct(rows) /\ DOMAIN rows = 1 .. Len(rows)
      /\ \A k \in DOMAIN rows : \E i \in Items : Older(i, cursor) /\ rows[k] = Row(i)
      /\ \A i \in Items : Older(i, cursor) => \E k \in DOMAIN rows : rows[k] = Row(i)
      /\ \A j, k \in DOMAIN rows : Precedes(Stamp[rows[k].id], Stamp[rows[j].id]) <=> j < k
  BY RowsAfterSorts
<1>2. /\ FirstPage(rows) \in Seq(AnyRow) /\ Distinct(FirstPage(rows))
      /\ Len(FirstPage(rows)) = (IF Len(rows) < PageSize THEN Len(rows) ELSE PageSize)
      /\ \A k \in DOMAIN FirstPage(rows) : k \in DOMAIN rows /\ FirstPage(rows)[k] = rows[k]
  BY <1>1, FirstPageOf
<1>3. Len(rows) > PageSize => PageSize \in DOMAIN rows /\ rows[PageSize] \in AnyRow
  BY <1>1, PageAssumption
<1>7. /\ Len(FirstPage(rows)) = (IF Len(rows) < PageSize THEN Len(rows) ELSE PageSize)
      /\ Len(rows) \in Int /\ PageSize \in Int
  <2>1. Len(rows) \in Int /\ PageSize \in Int
    BY <1>1, PageAssumption
  <2> QED
    BY <1>2, <2>1
<1>8. 1 .. created \subseteq DOMAIN Stamp /\ \A r \in AnyRow : r.id \in 1 .. created
  BY PageAssumption DEF StateTypes, AnyRow
<1>9. ASSUME Len(rows) > PageSize
      PROVE  \E bottom \in 1 .. created : /\ bottom = rows[PageSize].id /\ bottom \in DOMAIN Stamp
                                        /\ CursorOf(rows) = Truncated(Stamp[bottom])
  BY <1>3, <1>7, <1>8, <1>9 DEF CursorOf
<1>4. CursorOf(rows) \in RowStamp \cup {Nil}
  <2>1. CASE Len(rows) <= PageSize
    BY <2>1 DEF CursorOf
  <2>2. CASE Len(rows) > PageSize
    BY <1>9, <2>2, Stamps
  <2> QED
    BY <1>7, <2>1, <2>2
<1>5. ASSUME NEW i \in Items, Older(i, cursor), FirstOfItsMillisecond(saved[i], created), UpTo(saved[i], CursorOf(rows))
      PROVE  Row(i) \in Shown(FirstPage(rows))
  <2>1. PICK k \in DOMAIN rows : rows[k] = Row(i)
    BY <1>1, <1>5
  <2>2. k \in DOMAIN FirstPage(rows)
    <3>1. DOMAIN FirstPage(rows) = 1 .. Len(FirstPage(rows))
      BY <1>2
    <3>2. CASE Len(rows) <= PageSize
      <4>1. Len(FirstPage(rows)) = Len(rows)
        BY <1>7, <3>2
      <4> QED
        BY <1>1, <3>1, <4>1
    <3>3. CASE Len(rows) > PageSize
      <4>1. PICK bottom \in 1 .. created : /\ bottom = rows[PageSize].id /\ bottom \in DOMAIN Stamp
                                         /\ CursorOf(rows) = Truncated(Stamp[bottom])
        BY <1>9, <3>3
      <4>2. PICK n, cut : n = saved[i] /\ cut = Truncated(Stamp[bottom])
        OBVIOUS
      <4>3. cut # Nil /\ cut.ms = Stamp[bottom].ms /\ Stamp[bottom].ms \in Nat
        <5>1. cut \in RowStamp /\ cut.ms = Stamp[bottom].ms /\ Stamp[bottom].ms \in Nat
          BY <4>1, <4>2, Stamps
        <5>2. Nil \notin RowStamp
          BY PageAssumption DEF RowStamp
        <5> QED
          BY <5>1, <5>2
      <4>4. rows[k].id = n /\ n \in DOMAIN Stamp
        BY <1>5, <1>8, <2>1, <4>2 DEF Row, Older, NoRow, StateTypes
      <4>8. ~Precedes(Stamp[n], cut) /\ FirstOfItsMillisecond(n, created)
        BY <1>5, <4>1, <4>2, <4>3 DEF UpTo
      <4>9. Stamp[n].ms \in Nat /\ Stamp[n].us \in Nat /\ Stamp[bottom].us \in Nat
        BY <4>1, <4>4, Stamps
      <4>10. ~(Stamp[n].ms < Stamp[bottom].ms)
        BY <4>3, <4>8 DEF Precedes
      <4>11. Stamp[bottom].ms = Stamp[n].ms => ~Precedes(Stamp[n], Stamp[bottom])
        BY <4>8 DEF FirstOfItsMillisecond
      <4>5. ~Precedes(Stamp[rows[k].id], Stamp[rows[PageSize].id])
        BY <4>1, <4>3, <4>4, <4>9, <4>10, <4>11 DEF Precedes
      <4>6. ~ (PageSize < k)
        BY <1>1, <1>3, <3>3, <4>5
      <4>7. Len(FirstPage(rows)) = PageSize
        BY <1>7, <3>3
      <4> QED
        BY <1>1, <3>1, <4>6, <4>7, PageAssumption
    <3>4. Len(rows) \in Int /\ PageSize \in Int
      BY <1>1, PageAssumption
    <3> QED
      BY <3>2, <3>3, <3>4
  <2> QED
    BY <1>2, <2>1, <2>2 DEF Shown
<1>6. \A k \in DOMAIN FirstPage(rows) : \E i \in Items : Older(i, cursor) /\ FirstPage(rows)[k] = Row(i)
  BY <1>1, <1>2
<1> QED
  BY <1>2, <1>4, <1>5, <1>6 DEF AnyRows

\* So does listSavedItems: it answers a page of the rows.
LEMMA ListSavedItemsShape ==
    ASSUME PageShaped, NEW c \in Calls, ListSavedItems(c), Unserved PROVE PageShaped'
<1>1. calls[c] # Nil /\ calls[c].op = "SAVED" /\ calls[c].step = "SENT"
  BY DEF ListSavedItems, IsCall
<1>2. CallWellFormed(calls[c]) /\ SavedCall(calls[c])
  BY <1>1 DEF PageShaped, CallTypes, CallWellFormed
<1>3. UNCHANGED <<feed, interests, saved, created, events>> /\ interests' \in Interests
  BY DEF ListSavedItems, server, PageShaped, StateTypes
<1>4. PICK rows : rows = RowsAfter(calls[c].cursor)
  OBVIOUS
<1>5. PICK a : a = [Refused EXCEPT !.ok = TRUE, !.items = FirstPage(rows), !.cursor = CursorOf(rows)]
  OBVIOUS
<1>6. IsAnswer(a) /\ a.ok = TRUE /\ a.items = FirstPage(rows) /\ a.cursor = CursorOf(rows)
  <2>1. AnswerMade(Refused, a, FirstPage(rows), CursorOf(rows))
    BY <1>5 DEF AnswerMade
  <2> QED
    BY <2>1, RefusedFields, AnswerRow
<1>7. CallsHandled(c, "ANSWERED", created, a)
  BY <1>4, <1>5 DEF ListSavedItems, CallsHandled
<1>8. /\ IsCallRow(calls'[c])
      /\ calls'[c].op = calls[c].op /\ calls'[c].about = calls[c].about
      /\ calls'[c].cursor = calls[c].cursor /\ calls'[c].more = calls[c].more
      /\ calls'[c].current = calls[c].current
      /\ calls'[c].step = "ANSWERED" /\ calls'[c].basis = created /\ calls'[c].answer = a
      /\ \A x \in Calls \ {c} : calls'[x] = calls[x]
      /\ calls' = [x \in Calls |-> calls'[x]]
  <2>1. PICK b : b = created
    OBVIOUS
  <2> QED
    BY <1>1, <1>6, <1>7, <2>1, CallAfter
<1>9. AnyRows(a.items) /\ Distinct(a.items) /\ a.cursor \in RowStamp \cup {Nil}
  BY <1>4, <1>6, SavedPage DEF PageShaped
<1>10. created \in 0 .. created
  BY DEF PageShaped, StateTypes
<1>11. SavedCall(calls'[c])
  BY <1>2, <1>6, <1>8, <1>9, <1>10 DEF SavedCall
<1>12. CallWellFormed(calls'[c])
  BY <1>1, <1>2, <1>6, <1>8, <1>11 DEF CallWellFormed
<1> QED
  BY <1>1, <1>3, <1>8, <1>12, HandlerKeeps

\* A call that goes on without an answer.
LEMMA GoesShape ==
    ASSUME PageShaped, NEW c \in Calls, calls[c] # Nil, calls[c].op = "SAVE", ~calls[c].answer.ok,
           NEW s \in {"CACHED", "CONFLICT"}, Goes(c, s), Unserved,
           UNCHANGED <<feed, interests, saved, created, events>>
    PROVE  PageShaped'
<1>1. CallWellFormed(calls[c]) /\ SaveCall(calls[c]) /\ IsAnswer(calls[c].answer)
  BY DEF PageShaped, CallTypes, CallWellFormed, IsCallRow
<1>2. interests' \in Interests
  BY DEF PageShaped, StateTypes
<1>3. PICK a, b : a = calls[c].answer /\ b = calls[c].basis
  OBVIOUS
<1>4. CallsHandled(c, s, b, a)
  BY <1>3 DEF Goes, CallsHandled
<1>5. /\ IsCallRow(calls'[c])
      /\ calls'[c].op = calls[c].op /\ calls'[c].about = calls[c].about
      /\ calls'[c].cursor = calls[c].cursor /\ calls'[c].more = calls[c].more
      /\ calls'[c].current = calls[c].current
      /\ calls'[c].step = s /\ calls'[c].basis = b /\ calls'[c].answer = a
      /\ \A x \in Calls \ {c} : calls'[x] = calls[x]
      /\ calls' = [x \in Calls |-> calls'[x]]
  BY <1>1, <1>3, <1>4, CallAfter
<1>6. CallWellFormed(calls'[c])
  BY <1>1, <1>3, <1>5 DEF CallWellFormed, SaveCall
<1> QED
  BY <1>2, <1>5, <1>6, HandlerKeeps

\* So does the reading of the cache by saveItem.
LEMMA ReadCacheShape ==
    ASSUME PageShaped, NEW c \in Calls, ReadCache(c), Unserved PROVE PageShaped'
<1>1. calls[c] # Nil /\ calls[c].op = "SAVE" /\ calls[c].step = "SENT"
  BY DEF ReadCache, IsCall
<1>2. ~calls[c].answer.ok
  BY <1>1 DEF PageShaped, CallTypes, CallWellFormed, SaveCall
<1>3. UNCHANGED <<feed, interests, saved, created, events>> /\ interests' \in Interests
  BY DEF ReadCache, server, PageShaped, StateTypes
<1>4. CASE Goes(c, "CACHED")
  BY <1>1, <1>2, <1>3, <1>4, GoesShape
<1>5. CASE Answered(c, Refused)
  BY <1>1, <1>3, <1>5, RefusedShape
<1> QED
  BY <1>4, <1>5 DEF ReadCache

\* An answer to a save, with the row that is there now.
LEMMA SavedAnswer ==
    ASSUME PageShaped, NEW c \in Calls, calls[c] # Nil, calls[c].op = "SAVE",
           NEW id, NEW isNew, Saved(c, calls[c].about, id, isNew)
    PROVE  /\ IsCallRow(calls'[c])
           /\ calls'[c].op = calls[c].op /\ calls'[c].about = calls[c].about
           /\ calls'[c].cursor = calls[c].cursor /\ calls'[c].more = calls[c].more
           /\ calls'[c].current = calls[c].current
           /\ calls'[c].step = "ANSWERED" /\ calls'[c].answer.ok = TRUE
           /\ calls'[c].answer.items = <<[item |-> calls[c].about, id |-> id]>>
           /\ \A x \in Calls \ {c} : calls'[x] = calls[x]
           /\ calls' = [x \in Calls |-> calls'[x]]
<1>1. PICK items : items = <<[item |-> calls[c].about, id |-> id]>>
  OBVIOUS
<1>2. PICK a : a = [Refused EXCEPT !.ok = TRUE, !.items = items]
  OBVIOUS
<1>3. AnswerMade(Refused, a, items, Refused.cursor)
  BY <1>2 DEF AnswerMade
<1>4. IsAnswer(a) /\ a.ok = TRUE /\ a.items = items
  BY <1>3, RefusedFields, AnswerRow
<1>5. PICK b : b = calls[c].basis
  OBVIOUS
<1>6. CallsHandled(c, "ANSWERED", b, a)
  BY <1>1, <1>2, <1>5 DEF Saved, Answered, CallsHandled
<1>7. /\ IsCallRow(calls'[c])
      /\ calls'[c].op = calls[c].op /\ calls'[c].about = calls[c].about
      /\ calls'[c].cursor = calls[c].cursor /\ calls'[c].more = calls[c].more
      /\ calls'[c].current = calls[c].current
      /\ calls'[c].step = "ANSWERED" /\ calls'[c].answer = a
      /\ \A x \in Calls \ {c} : calls'[x] = calls[x]
      /\ calls' = [x \in Calls |-> calls'[x]]
  BY <1>4, <1>6, CallAfter
<1> QED
  BY <1>1, <1>4, <1>7

\* So does the transaction of saveItem, whatever row it finds or creates.
LEMMA InsertShape ==
    ASSUME PageShaped, NEW c \in Calls, InsertSavedItem(c), Unserved PROVE PageShaped'
<1> DEFINE i == calls[c].about
<1>1. calls[c] # Nil /\ calls[c].op = "SAVE" /\ UNCHANGED <<feed, interests>>
  BY DEF InsertSavedItem, IsCall
<1>2. CallWellFormed(calls[c]) /\ SaveCall(calls[c])
  BY <1>1 DEF PageShaped, CallTypes, CallWellFormed
<1>3. interests' \in Interests /\ created \in Nat /\ i \in Items /\ events = created
  BY <1>1, <1>2 DEF PageShaped, StateTypes, PageFields, SaveCall
<1>4. CASE /\ calls[c].step = "CACHED" /\ saved[i] = NoRow /\ created < Len(Stamp)
           /\ saved' = [saved EXCEPT ![i] = created + 1]
           /\ created' = created + 1
           /\ Saved(c, i, created + 1, TRUE)
  <2>1. /\ IsCallRow(calls'[c])
        /\ calls'[c].op = calls[c].op /\ calls'[c].about = calls[c].about
        /\ calls'[c].cursor = calls[c].cursor /\ calls'[c].more = calls[c].more
        /\ calls'[c].current = calls[c].current
        /\ calls'[c].step = "ANSWERED" /\ calls'[c].answer.ok = TRUE
        /\ calls'[c].answer.items = <<[item |-> calls[c].about, id |-> created + 1]>>
        /\ \A x \in Calls \ {c} : calls'[x] = calls[x]
        /\ calls' = [x \in Calls |-> calls'[x]]
    <3>1. PICK id : id = created + 1
      OBVIOUS
    <3>2. Saved(c, calls[c].about, id, TRUE)
      BY <1>4, <3>1
    <3> QED
      BY <1>1, <3>1, <3>2, SavedAnswer
  <2>2. PICK new : new = calls'[c]
    OBVIOUS
  <2>3. SaveCall(new)'
    <3>1. new.about \in page'.saving
      BY <1>2, <2>1, <2>2 DEF SaveCall, Unserved
    <3>2. created + 1 \in 1 .. created'
      BY <1>3, <1>4
    <3> QED
      BY <2>1, <2>2, <3>1, <3>2 DEF SaveCall
  <2>4. CallWellFormed(new)'
    BY <1>1, <1>2, <2>1, <2>2, <2>3 DEF CallWellFormed
  <2>5. created' \in Nat /\ created <= created' /\ page' = page
    BY <1>3, <1>4 DEF Unserved
  <2>6. CallTypes' /\ CurrentCalls' /\ PageFields'
    BY <1>1, <2>1, <2>2, <2>4, <2>5, HandlerStep
  <2>7. StateTypes'
    <3>1. saved \in [Items -> 0 .. created] /\ \A j, k \in Items : saved[j] = saved[k] /\ saved[j] # NoRow => j = k
      BY DEF PageShaped, StateTypes
    <3>2. saved' \in [Items -> 0 .. created']
      BY <1>3, <1>4, <3>1
    <3>3. \A j, k \in Items : saved'[j] = saved'[k] /\ saved'[j] # NoRow => j = k
      <4>1. \A j \in Items : saved'[j] = IF j = i THEN created + 1 ELSE saved[j]
        BY <1>4, <3>1
      <4>2. \A j \in Items : saved[j] # created + 1
        BY <1>3, <3>1
      <4> QED
        BY <3>1, <4>1, <4>2
    <3>4. events' = created'
      BY <1>3, <1>4 DEF Saved, Counted
    <3>5. known' \in 0 .. created' /\ feed' \in Feeds /\ interests' \in Interests /\ (basis # Nil => basis \in ListBasis)'
      BY <1>1, <1>4, <1>3 DEF PageShaped, StateTypes, Unserved, ListBasis
    <3>6. created' <= Len(Stamp)'
      BY <1>3, <1>4, PageAssumption
    <3> QED
      BY <2>1, <2>5, <3>2, <3>3, <3>4, <3>5, <3>6 DEF StateTypes
  <2> QED
    BY <2>6, <2>7 DEF PageShaped
<1>5. CASE /\ calls[c].step = "CACHED" /\ saved[i] # NoRow
           /\ Goes(c, "CONFLICT")
           /\ UNCHANGED <<saved, created, events>>
  <2>1. ~calls[c].answer.ok
    BY <1>2, <1>5 DEF SaveCall
  <2> QED
    BY <1>1, <1>5, <2>1, GoesShape
<1>6. CASE /\ calls[c].step = "CONFLICT" /\ Found(i)
           /\ Saved(c, i, saved[i], FALSE)
           /\ UNCHANGED <<saved, created>>
  <2>1. PICK id : id = saved[i]
    OBVIOUS
  <2>2. id \in 1 .. created
    BY <1>3, <1>6, <2>1 DEF Found, NoRow, PageShaped, StateTypes
  <2>3. /\ IsCallRow(calls'[c])
        /\ calls'[c].op = calls[c].op /\ calls'[c].about = calls[c].about
        /\ calls'[c].cursor = calls[c].cursor /\ calls'[c].more = calls[c].more
        /\ calls'[c].current = calls[c].current
        /\ calls'[c].step = "ANSWERED" /\ calls'[c].answer.ok = TRUE
        /\ calls'[c].answer.items = <<[item |-> calls[c].about, id |-> id]>>
        /\ \A x \in Calls \ {c} : calls'[x] = calls[x]
        /\ calls' = [x \in Calls |-> calls'[x]]
    BY <1>1, <1>6, <2>1, SavedAnswer
  <2>4. SaveCall(calls'[c])
    BY <1>2, <2>2, <2>3 DEF SaveCall
  <2>5. CallWellFormed(calls'[c])
    BY <1>1, <1>2, <2>3, <2>4 DEF CallWellFormed
  <2>6. UNCHANGED <<feed, saved, created, events>>
    BY <1>1, <1>6 DEF Saved, Counted
  <2> QED
    BY <1>1, <1>3, <2>3, <2>5, <2>6, HandlerKeeps
<1>7. CASE /\ calls[c].step = "CONFLICT" /\ ~Found(i)
           /\ Answered(c, Refused)
           /\ UNCHANGED <<saved, created, events>>
  BY <1>1, <1>3, <1>7, RefusedShape
<1> QED
  BY <1>4, <1>5, <1>6, <1>7 DEF InsertSavedItem

\* An answer without rows to a call that is only done.
LEMMA DoneAnswer ==
    ASSUME PageShaped, NEW c \in Calls, calls[c] # Nil, calls[c].op \in {"DELETE", "INTERESTS"},
           Answered(c, [Refused EXCEPT !.ok = TRUE])
    PROVE  /\ CallWellFormed(calls'[c])
           /\ calls'[c].op = calls[c].op /\ calls'[c].about = calls[c].about
           /\ calls'[c].cursor = calls[c].cursor /\ calls'[c].more = calls[c].more
           /\ calls'[c].current = calls[c].current
           /\ \A x \in Calls \ {c} : calls'[x] = calls[x]
           /\ calls' = [x \in Calls |-> calls'[x]]
<1>1. PICK a : a = [Refused EXCEPT !.ok = TRUE]
  OBVIOUS
<1>2. AnswerMade(Refused, a, Refused.items, Refused.cursor)
  BY <1>1 DEF AnswerMade
<1>3. IsAnswer(a) /\ a.ok = TRUE
  BY <1>2, RefusedFields, AnswerRow
<1>4. PICK b : b = calls[c].basis
  OBVIOUS
<1>5. CallsHandled(c, "ANSWERED", b, a)
  BY <1>1, <1>4 DEF Answered, CallsHandled
<1>6. /\ IsCallRow(calls'[c])
      /\ calls'[c].op = calls[c].op /\ calls'[c].about = calls[c].about
      /\ calls'[c].cursor = calls[c].cursor /\ calls'[c].more = calls[c].more
      /\ calls'[c].current = calls[c].current
      /\ calls'[c].step = "ANSWERED" /\ calls'[c].answer = a
      /\ \A x \in Calls \ {c} : calls'[x] = calls[x]
      /\ calls' = [x \in Calls |-> calls'[x]]
  BY <1>3, <1>5, CallAfter
<1>7. CallWellFormed(calls[c])
  BY DEF PageShaped, CallTypes
<1>8. CallWellFormed(calls'[c])
  BY <1>3, <1>6, <1>7 DEF CallWellFormed, DeleteCall, InterestsCall
<1> QED
  BY <1>6, <1>8

\* So does deleteItem.
LEMMA DeleteShape ==
    ASSUME PageShaped, NEW c \in Calls, DeleteItem(c), Unserved PROVE PageShaped'
<1>1. calls[c] # Nil /\ calls[c].op = "DELETE" /\ UNCHANGED <<feed, interests, created, events>>
  BY DEF DeleteItem, IsCall
<1>2. /\ CallWellFormed(calls'[c])
      /\ calls'[c].op = calls[c].op /\ calls'[c].about = calls[c].about
      /\ calls'[c].cursor = calls[c].cursor /\ calls'[c].more = calls[c].more
      /\ calls'[c].current = calls[c].current
      /\ \A x \in Calls \ {c} : calls'[x] = calls[x]
      /\ calls' = [x \in Calls |-> calls'[x]]
  BY <1>1, DoneAnswer DEF DeleteItem
<1>3. PICK new : new = calls'[c]
  OBVIOUS
<1>4. CallWellFormed(calls[c]) /\ calls[c].about.item \in Items
  BY <1>1 DEF PageShaped, CallTypes, CallWellFormed, DeleteCall, AnyRow
<1>5. created' \in Nat /\ created <= created' /\ page' = page /\ created' = created /\ created \in Nat
  BY <1>1 DEF Unserved, PageShaped, StateTypes
<1>6. StillBusy(new)
  BY <1>1, <1>2, <1>3, <1>4 DEF Unserved, StillBusy, CallWellFormed, DeleteCall
<1>7. CallWellFormed(new)'
  BY <1>2, <1>3, <1>5, <1>6, CallTypedKept
<1>8. CallTypes' /\ CurrentCalls' /\ PageFields'
  BY <1>1, <1>2, <1>3, <1>5, <1>7, HandlerStep
<1>9. StateTypes'
  <2>1. saved \in [Items -> 0 .. created] /\ \A j, k \in Items : saved[j] = saved[k] /\ saved[j] # NoRow => j = k
    BY DEF PageShaped, StateTypes
  <2>2. PICK i \in Items : saved' = saved \/ saved' = [saved EXCEPT ![i] = NoRow]
    BY <1>4 DEF DeleteItem
  <2>3. saved' \in [Items -> 0 .. created'] /\ \A j, k \in Items : saved'[j] = saved'[k] /\ saved'[j] # NoRow => j = k
    BY <1>5, <2>1, <2>2 DEF NoRow
  <2> QED
    BY <1>1, <1>2, <2>3 DEF PageShaped, StateTypes, Unserved, ListBasis
<1> QED
  BY <1>8, <1>9 DEF PageShaped

\* So does the update of the interests.
LEMMA UpdateInterestsShape ==
    ASSUME PageShaped, NEW c \in Calls, UpdateInterests(c), Unserved PROVE PageShaped'
<1>1. calls[c] # Nil /\ calls[c].op = "INTERESTS" /\ UNCHANGED <<feed, saved, created, events>>
      /\ interests' = calls[c].about
  BY DEF UpdateInterests, IsCall
<1>2. interests' \in Interests
  BY <1>1 DEF PageShaped, CallTypes, CallWellFormed, InterestsCall
<1>3. /\ CallWellFormed(calls'[c])
      /\ calls'[c].op = calls[c].op /\ calls'[c].about = calls[c].about
      /\ calls'[c].cursor = calls[c].cursor /\ calls'[c].more = calls[c].more
      /\ calls'[c].current = calls[c].current
      /\ \A x \in Calls \ {c} : calls'[x] = calls[x]
      /\ calls' = [x \in Calls |-> calls'[x]]
  BY <1>1, DoneAnswer DEF UpdateInterests
<1> QED
  BY <1>1, <1>2, <1>3, HandlerKeeps

\* Every handler's step leaves everything well formed.
LEMMA HandleCallShape ==
    ASSUME PageShaped, NEW c \in Calls, HandleCall(c) PROVE PageShaped'
<1>1. Unserved
  BY DEF HandleCall, Unserved
<1> QED
  BY <1>1, ListDiscoverShape, FindReferencesShape, ListSavedItemsShape, ReadCacheShape, InsertShape,
     DeleteShape, UpdateInterestsShape DEF HandleCall

\* A lost answer is a refusal to the page.
LEMMA LoseAnswerShape ==
    ASSUME PageShaped, NEW c \in Calls, LoseAnswer(c) PROVE PageShaped'
<1>1. /\ calls[c] # Nil /\ Answered(c, Refused) /\ Unserved
      /\ UNCHANGED <<feed, saved, created, events>> /\ interests' = interests
  BY DEF LoseAnswer, server, Unserved
<1>2. interests' \in Interests
  BY <1>1 DEF PageShaped, StateTypes
<1> QED
  BY <1>1, <1>2, RefusedShape

\* Refreshes and other tabs leave everything well formed.
LEMMA ElsewhereShape ==
    ASSUME PageShaped, Elsewhere PROVE PageShaped'
<1>1. UNCHANGED <<page, basis, known, calls>>
  BY DEF Elsewhere
<1>2. created \in Nat /\ created' \in Nat /\ created <= created'
  BY DEF Elsewhere, PageShaped, StateTypes
<1>3. PageFields'
  BY <1>1, <1>2, PageFieldsKept DEF PageShaped
<1>4. CallTypes'
  <2> SUFFICES ASSUME NEW x \in Calls, calls[x] # Nil PROVE CallWellFormed(calls[x])'
    BY <1>1 DEF CallTypes
  <2>1. PICK call : call = calls[x]
    OBVIOUS
  <2>2. CallWellFormed(call)
    BY <2>1 DEF PageShaped, CallTypes
  <2>3. StillBusy(call)
    BY <1>1, <2>2 DEF StillBusy, CallWellFormed, SaveCall, DeleteCall, InterestsCall
  <2>4. CallWellFormed(call)'
    BY <1>2, <2>2, <2>3, CallTypedKept
  <2> QED
    BY <1>1, <2>1, <2>4
<1>5. CurrentCalls'
  BY <1>1 DEF PageShaped, CurrentCalls, Awaited, Clash, ItemOf, IsToggle
<1>6. StateTypes'
  <2>1. saved \in [Items -> 0 .. created] /\ \A j, k \in Items : saved[j] = saved[k] /\ saved[j] # NoRow => j = k
    BY DEF PageShaped, StateTypes
  <2>2. feed' \in Feeds /\ interests' \in Interests /\ events' = created'
    BY DEF Elsewhere, PageShaped, StateTypes
  <2>3. \/ UNCHANGED <<saved, created>>
        \/ \E i \in Items : saved' = [saved EXCEPT ![i] = created + 1] /\ created' = created + 1
        \/ \E i \in Items : saved' = [saved EXCEPT ![i] = NoRow] /\ created' = created
    <3>1. feed \subseteq Items
      BY PageAssumption DEF PageShaped, StateTypes
    <3> QED
      BY <3>1 DEF Elsewhere
  <2>4. saved' \in [Items -> 0 .. created'] /\ \A j, k \in Items : saved'[j] = saved'[k] /\ saved'[j] # NoRow => j = k
    <3>1. CASE UNCHANGED <<saved, created>>
      BY <2>1, <3>1
    <3>2. CASE \E i \in Items : saved' = [saved EXCEPT ![i] = created + 1] /\ created' = created + 1
      <4>1. PICK i \in Items : saved' = [saved EXCEPT ![i] = created + 1] /\ created' = created + 1
        BY <3>2
      <4>2. \A j \in Items : saved'[j] = IF j = i THEN created + 1 ELSE saved[j]
        BY <2>1, <4>1
      <4>3. \A j \in Items : saved[j] # created + 1
        BY <1>2, <2>1
      <4>4. saved' \in [Items -> 0 .. created']
        BY <1>2, <2>1, <4>1
      <4> QED
        BY <2>1, <4>2, <4>3, <4>4
    <3>3. CASE \E i \in Items : saved' = [saved EXCEPT ![i] = NoRow] /\ created' = created
      BY <1>2, <2>1, <3>3 DEF NoRow
    <3> QED
      BY <2>3, <3>1, <3>2, <3>3
  <2>5. created' <= Len(Stamp)'
    BY PageAssumption DEF Elsewhere, PageShaped, StateTypes
  <2> QED
    BY <1>1, <1>2, <2>2, <2>4, <2>5 DEF PageShaped, StateTypes, ListBasis
<1> QED
  BY <1>3, <1>4, <1>5, <1>6 DEF PageShaped

-----------------------------------------------------------------------------
(* What the user does                                                      *)

\* Two pages with the same list, the same saved list, busy with the same.
SameList(p, q) ==
    /\ q.tab = p.tab /\ q.status = p.status /\ q.items = p.items /\ q.cursor = p.cursor
    /\ q.loadingMore = p.loadingMore
SameSaved(p, q) ==
    /\ q.savedStatus = p.savedStatus /\ q.savedItems = p.savedItems /\ q.savedCursor = p.savedCursor
    /\ q.loadingMoreSaved = p.loadingMoreSaved
SameBusy(p, q) == q.saving = p.saving /\ q.savingInterests = p.savingInterests

\* What choosing a tab changes of the page.
LEMMA TabFields ==
    ASSUME NEW p, IsPage(p), NEW tab, NEW q, q = [p EXCEPT !.tab = tab]
    PROVE  /\ IsPage(q) /\ q.tab = tab /\ SameSaved(p, q) /\ SameBusy(p, q) /\ q.refs = p.refs
           /\ q.loadingMore = p.loadingMore
<1>1. q = [view |-> q.view, tab |-> q.tab, status |-> q.status, items |-> q.items, cursor |-> q.cursor,
         loadingMore |-> q.loadingMore, refs |-> q.refs, savedStatus |-> q.savedStatus,
         savedItems |-> q.savedItems, savedCursor |-> q.savedCursor,
         loadingMoreSaved |-> q.loadingMoreSaved, saving |-> q.saving,
         savingInterests |-> q.savingInterests]
  BY DEF IsPage
<1>2. q.tab = tab /\ SameSaved(p, q) /\ SameBusy(p, q) /\ q.refs = p.refs /\ q.loadingMore = p.loadingMore
  BY DEF IsPage, SameSaved, SameBusy
<1> QED
  BY <1>1, <1>2 DEF IsPage

\* What asking for the feed changes of the page.
LEMMA ExploringFields ==
    ASSUME NEW p, IsPage(p), NEW q, q = Exploring(p)
    PROVE  /\ IsPage(q) /\ q.view = "EXPLORE" /\ q.tab = p.tab /\ q.status = "loading" /\ q.items = <<>>
           /\ q.cursor = Nil /\ q.loadingMore = p.loadingMore /\ SameSaved(p, q) /\ SameBusy(p, q)
           /\ q.refs = p.refs
<1>1. q = [view |-> q.view, tab |-> q.tab, status |-> q.status, items |-> q.items, cursor |-> q.cursor,
         loadingMore |-> q.loadingMore, refs |-> q.refs, savedStatus |-> q.savedStatus,
         savedItems |-> q.savedItems, savedCursor |-> q.savedCursor,
         loadingMoreSaved |-> q.loadingMoreSaved, saving |-> q.saving,
         savingInterests |-> q.savingInterests]
  BY DEF IsPage, Exploring
<1>2. /\ q.view = "EXPLORE" /\ q.tab = p.tab /\ q.status = "loading" /\ q.items = <<>>
      /\ q.cursor = Nil /\ q.loadingMore = p.loadingMore /\ SameSaved(p, q) /\ SameBusy(p, q)
      /\ q.refs = p.refs
  BY DEF IsPage, SameSaved, SameBusy, Exploring
<1> QED
  BY <1>1, <1>2 DEF IsPage

\* What asking for the saved items changes of the page.
LEMMA SavingFields ==
    ASSUME NEW p, IsPage(p), NEW q, q = Saving(p)
    PROVE  /\ IsPage(q) /\ q.view = "SAVED" /\ q.savedStatus = "loading" /\ q.savedItems = <<>>
           /\ q.savedCursor = Nil /\ q.loadingMoreSaved = p.loadingMoreSaved /\ SameList(p, q) /\ SameBusy(p, q)
           /\ q.refs = p.refs
<1>1. q = [view |-> q.view, tab |-> q.tab, status |-> q.status, items |-> q.items, cursor |-> q.cursor,
         loadingMore |-> q.loadingMore, refs |-> q.refs, savedStatus |-> q.savedStatus,
         savedItems |-> q.savedItems, savedCursor |-> q.savedCursor,
         loadingMoreSaved |-> q.loadingMoreSaved, saving |-> q.saving,
         savingInterests |-> q.savingInterests]
  BY DEF IsPage, Saving
<1>2. /\ q.view = "SAVED" /\ q.savedStatus = "loading" /\ q.savedItems = <<>>
      /\ q.savedCursor = Nil /\ q.loadingMoreSaved = p.loadingMoreSaved /\ SameList(p, q) /\ SameBusy(p, q)
      /\ q.refs = p.refs
  BY DEF IsPage, SameList, SameBusy, Saving
<1> QED
  BY <1>1, <1>2 DEF IsPage

\* A button is disabled, or enabled again.
BusyWith(p, q) ==
    \/ q = [p EXCEPT !.loadingMore = TRUE]
    \/ q = [p EXCEPT !.loadingMoreSaved = TRUE]
    \/ \E i \in Items : q = [p EXCEPT !.saving = @ \cup {i}]
    \/ \E i \in Items : q = [p EXCEPT !.saving = @ \ {i}]
    \/ q = [p EXCEPT !.savingInterests = TRUE]
    \/ q = [p EXCEPT !.savingInterests = FALSE]
    \/ q = [p EXCEPT !.loadingMore = FALSE]
    \/ q = [p EXCEPT !.loadingMoreSaved = FALSE]

\* What disabling or enabling a button leaves alone.
LEMMA BusyFields ==
    ASSUME NEW p, IsPage(p), NEW q, BusyWith(p, q)
    PROVE  /\ IsPage(q) /\ q.view = p.view /\ q.tab = p.tab /\ q.status = p.status /\ q.items = p.items
           /\ q.cursor = p.cursor /\ q.refs = p.refs /\ q.savedStatus = p.savedStatus
           /\ q.savedItems = p.savedItems /\ q.savedCursor = p.savedCursor
<1>1. q = [view |-> q.view, tab |-> q.tab, status |-> q.status, items |-> q.items, cursor |-> q.cursor,
         loadingMore |-> q.loadingMore, refs |-> q.refs, savedStatus |-> q.savedStatus,
         savedItems |-> q.savedItems, savedCursor |-> q.savedCursor,
         loadingMoreSaved |-> q.loadingMoreSaved, saving |-> q.saving,
         savingInterests |-> q.savingInterests]
  BY DEF IsPage, BusyWith
<1>2. /\ q.view = p.view /\ q.tab = p.tab /\ q.status = p.status /\ q.items = p.items
      /\ q.cursor = p.cursor /\ q.refs = p.refs /\ q.savedStatus = p.savedStatus
      /\ q.savedItems = p.savedItems /\ q.savedCursor = p.savedCursor
  BY DEF IsPage, BusyWith
<1> QED
  BY <1>1, <1>2 DEF IsPage

\* A call as the page makes it.
Made(new, op, about, cursor) ==
    \/ new = Call(op, about, cursor, TRUE) /\ cursor # Nil
    \/ new = Call(op, about, cursor, FALSE) /\ cursor = Nil

\* What a call is when the page makes it.
LEMMA NewCallFields ==
    ASSUME NEW op, NEW about, NEW cursor, NEW new, Made(new, op, about, cursor)
    PROVE  /\ IsCallRow(new) /\ new.op = op /\ new.about = about /\ new.cursor = cursor
           /\ new.more \in BOOLEAN /\ (new.more <=> cursor # Nil) /\ new.current \in BOOLEAN /\ new.current
           /\ new.step = "SENT" /\ new.answer.ok \in BOOLEAN /\ ~new.answer.ok
<1>1. /\ new.op = op /\ new.about = about /\ new.cursor = cursor
      /\ (new.more = TRUE /\ cursor # Nil) \/ (new.more = FALSE /\ cursor = Nil)
      /\ new.current = TRUE /\ new.step = "SENT" /\ new.answer = Refused
  BY DEF Call, Made
<1>2. new = [op |-> new.op, about |-> new.about, cursor |-> new.cursor, more |-> new.more,
             current |-> new.current, step |-> new.step, basis |-> new.basis, answer |-> new.answer]
  BY DEF Call, Made
<1>3. IsCallRow(new) /\ new.answer.ok = FALSE
  BY <1>1, <1>2, RefusedFields DEF IsCallRow
<1> QED
  BY <1>1, <1>3

\* Such a call has its type once the page is busy with it.
LEMMA NewCallTyped ==
    ASSUME NEW op, NEW about, NEW cursor, NEW new, Made(new, op, about, cursor),
           \/ op = "LIST" /\ about \in Categories /\ cursor \in ListCursor \cup {Nil}
           \/ op = "SAVED" /\ cursor \in RowStamp \cup {Nil}
           \/ op = "SAVE" /\ about \in page'.saving
           \/ op = "DELETE" /\ about \in AnyRow' /\ about.item \in page'.saving
           \/ op = "INTERESTS" /\ about \in Interests /\ page'.savingInterests
    PROVE  CallWellFormed(new)'
BY NewCallFields DEF CallWellFormed, ListCall, SavedCall, SaveCall, DeleteCall, InterestsCall

\* Where a list is asked for again, and where a view is left.
LEMMA ReloadedKeeps ==
    ASSUME StateTypes, CallTypes, NEW c \in Calls, NEW op \in {"LIST", "SAVED"}, NEW about, NEW f,
           f = Reloaded(op, c, about)
    PROVE  /\ f = [x \in Calls |-> f[x]] /\ Made(f[c], op, about, Nil)
           /\ \A x \in Calls \ {c} :
                  /\ IsKept(calls[x], f[x])
                  /\ ~ (f[x] # Nil /\ f[x].op = op /\ f[x].current)
<1>1. f = [x \in Calls |-> f[x]] /\ Made(f[c], op, about, Nil)
  BY DEF Reloaded, Made
<1>2. ASSUME NEW x \in Calls \ {c}
      PROVE  /\ IsKept(calls[x], f[x])
             /\ ~ (f[x] # Nil /\ f[x].op = op /\ f[x].current)
  <2>1. CASE ~IsCall(x, op)
    BY <2>1 DEF Reloaded, IsCall, IsKept
  <2>2. CASE IsCall(x, op) /\ ~calls[x].more
    BY <2>2 DEF Reloaded, IsKept
  <2>3. CASE IsCall(x, op) /\ calls[x].more
    <3>1. f[x] = [calls[x] EXCEPT !.current = FALSE] /\ calls[x] # Nil
      BY <2>3 DEF Reloaded, IsCall
    <3>2. PICK call, new : call = calls[x] /\ new = f[x]
      OBVIOUS
    <3>3. ~ new.current
      BY <2>3, <3>1, <3>2, NotAwaited DEF CallTypes
    <3> QED
      BY <2>3, <3>1, <3>2, <3>3 DEF IsKept
  <2> QED
    BY <2>1, <2>2, <2>3
<1> QED
  BY <1>1, <1>2

\* Leaving a view drops some of its calls and leaves the others alone.
LEMMA LeftKeeps ==
    ASSUME NEW f, NEW op, NEW g, g = Left(op, f)
    PROVE  /\ g = [x \in Calls |-> g[x]]
           /\ \A x \in Calls : g[x] = f[x] \/ (g[x] = Nil /\ f[x].op = op)
BY DEF Left

\* Rows stay rows while none is created.
LEMMA RowsKept ==
    ASSUME created' = created, NEW s, AnyRows(s)
    PROVE  AnyRows(s)'
BY DEF AnyRows, AnyRow

\* An empty list is a list of rows and of items.
LEMMA NoRows == AnyRows(<<>>) /\ <<>> \in Seq(Items)
BY DEF AnyRows

\* What is shown of the server and the counters when the page alone acts.
LEMMA StateTypesKept ==
    ASSUME StateTypes, UNCHANGED server, known' \in 0 .. created, basis' # Nil => basis' \in ListBasis,
           calls' = [x \in Calls |-> calls'[x]]
    PROVE  StateTypes'
BY DEF StateTypes, server

\* A step that asks for a list again.
LEMMA ReloadStep ==
    ASSUME PageShaped, UNCHANGED <<server, known>>, PageFields', NEW c \in Calls, NEW op \in {"LIST", "SAVED"}, NEW about,
           NEW f, f = Reloaded(op, c, about),
           calls' = f \/ \E other \in {"LIST", "SAVED"} \ {op} : calls' = Left(other, f),
           op = "LIST" => about = page'.tab /\ page'.status = "loading" /\ SameSaved(page, page'),
           op = "SAVED" => page'.savedStatus = "loading" /\ SameList(page, page'),
           basis' = Nil \/ basis' = basis,
           page'.saving = page.saving,
           page'.savingInterests = page.savingInterests \/ (calls[c] # Nil /\ calls[c].op = "INTERESTS")
    PROVE  PageShaped'
<1>1. StateTypes /\ CallTypes /\ CurrentCalls /\ PageFields /\ created' = created /\ created \in Nat
  BY DEF PageShaped, StateTypes, server
<1>2. /\ f = [x \in Calls |-> f[x]] /\ Made(f[c], op, about, Nil)
      /\ \A x \in Calls \ {c} :
             /\ IsKept(calls[x], f[x])
             /\ ~ (f[x] # Nil /\ f[x].op = op /\ f[x].current)
  BY <1>1, ReloadedKeeps
<1>3. PICK new : new = f[c]
  OBVIOUS
<1>4. op = "LIST" => about \in Categories
  BY DEF PageFields
<1>5. new.op = op /\ new.about = about /\ new.cursor = Nil /\ ~new.more /\ new.current
  BY <1>2, <1>3, NewCallFields
<1>6. CallWellFormed(new)'
  BY <1>2, <1>3, <1>4, NewCallTyped
<1>7. /\ calls' = [x \in Calls |-> calls'[x]] /\ calls'[c] = new
      /\ \A x \in Calls \ {c} : calls'[x] = Nil \/ calls'[x] = f[x]
  <2>1. CASE calls' = f
    BY <1>2, <1>3, <2>1
  <2>2. CASE \E other \in {"LIST", "SAVED"} \ {op} : calls' = Left(other, f)
    <3>1. PICK other \in {"LIST", "SAVED"} \ {op} : calls' = Left(other, f)
      BY <2>2
    <3>2. /\ calls' = [x \in Calls |-> calls'[x]]
          /\ \A x \in Calls : calls'[x] = f[x] \/ (calls'[x] = Nil /\ f[x].op = other)
      BY <3>1, LeftKeeps
    <3>3. f[c] = new /\ f[c].op # other
      BY <1>2, <1>3, <1>5
    <3> QED
      BY <3>2, <3>3
  <2> QED
    BY <2>1, <2>2
<1>8. OthersKept(c)
  BY <1>2, <1>7 DEF OthersKept, IsKept
<1>9. \A x \in Calls \ {c} : calls'[x] # Nil => ~ (calls'[x].op = op /\ calls'[x].current)
  BY <1>2, <1>7
<1>10. StateTypes'
  BY <1>1, <1>7, StateTypesKept DEF StateTypes
<1>11. \A x \in Calls \ {c} : calls[x] # Nil => StillBusy(calls[x])
  <2> SUFFICES ASSUME NEW x \in Calls \ {c}, calls[x] # Nil PROVE StillBusy(calls[x])
    OBVIOUS
  <2>1. calls[x].op = "INTERESTS" => page'.savingInterests
    <3> SUFFICES ASSUME calls[x].op = "INTERESTS" PROVE page'.savingInterests
      OBVIOUS
    <3>1. page.savingInterests
      BY <1>1 DEF CallTypes, CallWellFormed, InterestsCall
    <3>2. ~ (calls[c] # Nil /\ calls[c].op = "INTERESTS")
      BY <1>1 DEF CurrentCalls, Clash
    <3> QED
      BY <3>1, <3>2
  <2> QED
    BY <1>1, <2>1 DEF CallTypes, CallWellFormed, StillBusy, SaveCall, DeleteCall
<1>12. Awaited(new)'
  BY <1>5 DEF Awaited
<1>13. \A x \in Calls \ {c} : calls'[x] # Nil => ~ Clash(new, calls'[x])
  BY <1>5, <1>9 DEF Clash, IsToggle
<1>14. \A x \in Calls \ {c} : calls'[x] # Nil /\ calls'[x].current =>
           /\ calls'[x].op = "LIST" => /\ page'.tab = page.tab /\ page'.status = page.status
                                       /\ page'.loadingMore = page.loadingMore /\ page'.cursor = page.cursor
           /\ calls'[x].op = "SAVED" => /\ page'.savedStatus = page.savedStatus
                                        /\ page'.loadingMoreSaved = page.loadingMoreSaved
                                        /\ page'.savedCursor = page.savedCursor
  BY <1>9 DEF SameList, SameSaved
<1>15. CallWellFormed(calls[c])' /\ Awaited(calls[c])'
  BY <1>6, <1>7, <1>12
<1>16. CallTypes' /\ CurrentCalls'
  BY <1>1, <1>7, <1>8, <1>11, <1>13, <1>14, <1>15, CallsStep
<1> QED
  BY <1>10, <1>16 DEF PageShaped

\* Choosing a tab leaves everything well formed.
LEMMA SelectCategoryShape ==
    ASSUME PageShaped, Click, NEW c \in Calls, NEW tab \in Categories, SelectCategory(tab, c)
    PROVE  PageShaped'
<1> USE DEF Click, SelectCategory
<1>1. IsPage(page) /\ PageFields /\ created' = created
  BY DEF PageShaped, PageFields, server
<1>2. PICK p : p = [page EXCEPT !.tab = tab]
  OBVIOUS
<1>3. IsPage(p) /\ p.tab = tab /\ SameSaved(page, p) /\ SameBusy(page, p) /\ p.refs = page.refs /\ p.loadingMore = page.loadingMore
  BY <1>1, <1>2, TabFields
<1>4. PICK q : q = Exploring(p)
  OBVIOUS
<1>5. /\ IsPage(q) /\ q.view = "EXPLORE" /\ q.tab = p.tab /\ q.status = "loading" /\ q.items = <<>>
      /\ q.cursor = Nil /\ q.loadingMore = p.loadingMore /\ SameSaved(p, q) /\ SameBusy(p, q)
      /\ q.refs = p.refs
  BY <1>3, <1>4, ExploringFields
<1>6. page' = q
  BY <1>2, <1>4
<1>7. PageFields'
  BY <1>1, <1>3, <1>5, <1>6, RowsKept, NoRows DEF PageFields, Statuses, SameSaved, SameBusy
<1>8. SameSaved(page, page') /\ SameBusy(page, page')
  BY <1>3, <1>5, <1>6 DEF SameSaved, SameBusy
<1>9. PICK f : f = Reloaded("LIST", c, tab)
  OBVIOUS
<1> QED
  BY <1>3, <1>5, <1>6, <1>7, <1>8, <1>9, ReloadStep DEF SameBusy

\* So does going back to the feed.
LEMMA ShowExploreShape ==
    ASSUME PageShaped, Click, NEW c \in Calls, ShowExplore(c)
    PROVE  PageShaped'
<1> USE DEF Click, ShowExplore
<1>1. IsPage(page) /\ PageFields /\ created' = created
  BY DEF PageShaped, PageFields, server
<1>2. PICK q : q = Exploring(page)
  OBVIOUS
<1>3. PICK p : p = page
  OBVIOUS
<1>4. /\ IsPage(q) /\ q.view = "EXPLORE" /\ q.tab = p.tab /\ q.status = "loading" /\ q.items = <<>>
      /\ q.cursor = Nil /\ q.loadingMore = p.loadingMore /\ SameSaved(p, q) /\ SameBusy(p, q)
      /\ q.refs = p.refs
  BY <1>1, <1>2, <1>3, ExploringFields
<1>5. page' = q
  BY <1>2
<1>6. PageFields'
  BY <1>1, <1>3, <1>4, <1>5, RowsKept, NoRows DEF PageFields, Statuses, SameSaved, SameBusy
<1>7. PICK f : f = Reloaded("LIST", c, page.tab)
  OBVIOUS
<1>8. calls' = Left("SAVED", f)
  BY <1>7
<1>9. "SAVED" \in {"LIST", "SAVED"} \ {"LIST"}
  OBVIOUS
<1> QED
  BY <1>3, <1>4, <1>5, <1>6, <1>7, <1>8, <1>9, ReloadStep DEF SameBusy

\* So does going to the saved items.
LEMMA ShowSavedShape ==
    ASSUME PageShaped, Click, NEW c \in Calls, ShowSaved(c)
    PROVE  PageShaped'
<1> USE DEF Click, ShowSaved
<1>1. IsPage(page) /\ PageFields /\ created' = created
  BY DEF PageShaped, PageFields, server
<1>2. PICK q : q = Saving(page)
  OBVIOUS
<1>3. PICK p : p = page
  OBVIOUS
<1>4. /\ IsPage(q) /\ q.view = "SAVED" /\ q.savedStatus = "loading" /\ q.savedItems = <<>>
      /\ q.savedCursor = Nil /\ q.loadingMoreSaved = p.loadingMoreSaved /\ SameList(p, q) /\ SameBusy(p, q)
      /\ q.refs = p.refs
  BY <1>1, <1>2, <1>3, SavingFields
<1>5. page' = q
  BY <1>2
<1>6. PageFields'
  BY <1>1, <1>3, <1>4, <1>5, RowsKept, NoRows DEF PageFields, Statuses, SameList, SameBusy
<1>7. PICK f : f = Reloaded("SAVED", c, Nil)
  OBVIOUS
<1>8. calls' = Left("LIST", f)
  BY <1>7
<1>9. "LIST" \in {"LIST", "SAVED"} \ {"SAVED"}
  OBVIOUS
<1> QED
  BY <1>3, <1>4, <1>5, <1>6, <1>7, <1>8, <1>9, ReloadStep DEF SameBusy

\* A step that makes a call and leaves the lists as they are.
LEMMA AddStep ==
    ASSUME PageShaped, UNCHANGED <<server, known, basis>>, PageFields', NEW c \in Calls,
           calls' = [x \in Calls |-> calls'[x]], \A x \in Calls \ {c} : calls'[x] = calls[x],
           page.saving \subseteq page'.saving, page.savingInterests => page'.savingInterests,
           \A x \in Calls \ {c} : calls[x] # Nil /\ calls[x].current =>
               /\ calls[x].op = "LIST" => /\ page'.tab = page.tab /\ page'.status = page.status
                                          /\ page'.loadingMore = page.loadingMore /\ page'.cursor = page.cursor
               /\ calls[x].op = "SAVED" => /\ page'.savedStatus = page.savedStatus
                                           /\ page'.loadingMoreSaved = page.loadingMoreSaved
                                           /\ page'.savedCursor = page.savedCursor,
           NEW new, new = calls'[c], CallWellFormed(new)', Awaited(new)',
           \A x \in Calls \ {c} : calls[x] # Nil => ~ Clash(new, calls[x])
    PROVE  PageShaped'
<1>1. StateTypes /\ CallTypes /\ CurrentCalls /\ PageFields /\ created' = created /\ created \in Nat
  BY DEF PageShaped, StateTypes, server
<1>2. StateTypes'
  BY <1>1, StateTypesKept DEF StateTypes
<1>3. OthersKept(c)
  BY DEF OthersKept, IsKept
<1>4. \A x \in Calls \ {c} : calls[x] # Nil => StillBusy(calls[x])
  BY <1>1 DEF CallTypes, CallWellFormed, StillBusy, SaveCall, DeleteCall, InterestsCall
<1>5. CallWellFormed(calls[c])' /\ Awaited(calls[c])'
  OBVIOUS
<1>6. CallTypes' /\ CurrentCalls'
  BY <1>1, <1>3, <1>4, <1>5, CallsStep
<1> QED
  BY <1>2, <1>6 DEF PageShaped

\* The call made is in the table, the others are as they were.
LEMMA CallAdded ==
    ASSUME StateTypes, NEW c \in Calls, NEW new, calls' = [calls EXCEPT ![c] = new]
    PROVE  /\ calls' = [x \in Calls |-> calls'[x]] /\ calls'[c] = new
           /\ \A x \in Calls \ {c} : calls'[x] = calls[x]
BY DEF StateTypes

\* So does asking for more of the feed: the call is the one the page then waits for.
LEMMA LoadMoreShape ==
    ASSUME PageShaped, Click, NEW c \in Calls, Free(c), LoadMore(c)
    PROVE  PageShaped'
<1> USE DEF Click, LoadMore
<1>1. StateTypes /\ PageFields /\ CurrentCalls /\ CallTypes /\ created' = created
  BY DEF PageShaped, server
<1>2. PICK p, q : p = page /\ q = page'
  OBVIOUS
<1>3. IsPage(p) /\ BusyWith(p, q)
  BY <1>1, <1>2 DEF BusyWith, PageFields
<1>4. /\ IsPage(q) /\ q.view = p.view /\ q.tab = p.tab /\ q.status = p.status /\ q.items = p.items
      /\ q.cursor = p.cursor /\ q.refs = p.refs /\ q.savedStatus = p.savedStatus
      /\ q.savedItems = p.savedItems /\ q.savedCursor = p.savedCursor
  BY <1>3, BusyFields
<1>5. /\ q.loadingMore = TRUE /\ q.loadingMoreSaved = p.loadingMoreSaved /\ q.saving = p.saving
      /\ q.savingInterests = p.savingInterests
  BY <1>2, <1>3 DEF IsPage
<1>6. PageFields'
  BY <1>1, <1>2, <1>4, <1>5, RowsKept DEF PageFields
<1>7. PICK new : new = Call("LIST", page.tab, page.cursor, TRUE)
  OBVIOUS
<1>8. /\ calls' = [x \in Calls |-> calls'[x]] /\ calls'[c] = new
      /\ \A x \in Calls \ {c} : calls'[x] = calls[x]
  BY <1>1, <1>7, CallAdded
<1>9. PICK tab, cursor : tab = page.tab /\ cursor = page.cursor
  OBVIOUS
<1>10. Made(new, "LIST", tab, cursor)
  BY <1>7, <1>9 DEF Made
<1>11. /\ new.op = "LIST" /\ new.about = tab /\ new.cursor = cursor
       /\ new.more /\ new.current
  BY <1>9, <1>10, NewCallFields
<1>12. CallWellFormed(new)'
  BY <1>1, <1>9, <1>10, NewCallTyped DEF PageFields
<1>13. Awaited(new)'
  BY <1>2, <1>4, <1>5, <1>9, <1>11 DEF Awaited
<1>14. \A x \in Calls \ {c} : calls[x] # Nil /\ calls[x].op = "LIST" => ~calls[x].current
  BY <1>1 DEF CurrentCalls, Awaited
<1>15. \A x \in Calls \ {c} : calls[x] # Nil => ~ Clash(new, calls[x])
  BY <1>11, <1>14 DEF Clash, IsToggle
<1>16. /\ UNCHANGED <<server, known, basis>> /\ page.saving \subseteq page'.saving
       /\ page.savingInterests => page'.savingInterests
       /\ page'.savedStatus = page.savedStatus /\ page'.loadingMoreSaved = page.loadingMoreSaved
       /\ page'.savedCursor = page.savedCursor
  BY <1>2, <1>4, <1>5
<1> QED
  BY <1>6, <1>8, <1>12, <1>13, <1>14, <1>15, <1>16, AddStep

\* So does asking for more of the saved items.
LEMMA LoadMoreSavedShape ==
    ASSUME PageShaped, Click, NEW c \in Calls, Free(c), LoadMoreSaved(c)
    PROVE  PageShaped'
<1> USE DEF Click, LoadMoreSaved
<1>1. StateTypes /\ PageFields /\ CurrentCalls /\ CallTypes /\ created' = created
  BY DEF PageShaped, server
<1>2. PICK p, q : p = page /\ q = page'
  OBVIOUS
<1>3. IsPage(p) /\ BusyWith(p, q)
  BY <1>1, <1>2 DEF BusyWith, PageFields
<1>4. /\ IsPage(q) /\ q.view = p.view /\ q.tab = p.tab /\ q.status = p.status /\ q.items = p.items
      /\ q.cursor = p.cursor /\ q.refs = p.refs /\ q.savedStatus = p.savedStatus
      /\ q.savedItems = p.savedItems /\ q.savedCursor = p.savedCursor
  BY <1>3, BusyFields
<1>5. /\ q.loadingMoreSaved = TRUE /\ q.loadingMore = p.loadingMore /\ q.saving = p.saving
      /\ q.savingInterests = p.savingInterests
  BY <1>2, <1>3 DEF IsPage
<1>6. PageFields'
  BY <1>1, <1>2, <1>4, <1>5, RowsKept DEF PageFields
<1>7. PICK new : new = Call("SAVED", Nil, page.savedCursor, TRUE)
  OBVIOUS
<1>8. /\ calls' = [x \in Calls |-> calls'[x]] /\ calls'[c] = new
      /\ \A x \in Calls \ {c} : calls'[x] = calls[x]
  BY <1>1, <1>7, CallAdded
<1>9. PICK cursor : cursor = page.savedCursor
  OBVIOUS
<1>10. Made(new, "SAVED", Nil, cursor)
  BY <1>7, <1>9 DEF Made
<1>11. new.op = "SAVED" /\ new.cursor = cursor /\ new.more /\ new.current
  BY <1>9, <1>10, NewCallFields
<1>12. CallWellFormed(new)'
  BY <1>1, <1>9, <1>10, NewCallTyped DEF PageFields
<1>13. Awaited(new)'
  BY <1>2, <1>4, <1>5, <1>9, <1>11 DEF Awaited
<1>14. \A x \in Calls \ {c} : calls[x] # Nil /\ calls[x].op = "SAVED" => ~calls[x].current
  BY <1>1 DEF CurrentCalls, Awaited
<1>15. \A x \in Calls \ {c} : calls[x] # Nil => ~ Clash(new, calls[x])
  BY <1>11, <1>14 DEF Clash, IsToggle
<1>16. /\ UNCHANGED <<server, known, basis>> /\ page.saving \subseteq page'.saving
       /\ page.savingInterests => page'.savingInterests
       /\ page'.tab = page.tab /\ page'.status = page.status
       /\ page'.loadingMore = page.loadingMore /\ page'.cursor = page.cursor
  BY <1>2, <1>4, <1>5
<1> QED
  BY <1>6, <1>8, <1>12, <1>13, <1>14, <1>15, <1>16, AddStep

\* So does a toggle: the item was not busy, so that no other call is about it.
LEMMA ToggleSavedShape ==
    ASSUME PageShaped, Click, NEW c \in Calls, Free(c), NEW i \in Items, ToggleSaved(i, c)
    PROVE  PageShaped'
<1> USE DEF Click, ToggleSaved
<1>1. StateTypes /\ PageFields /\ CurrentCalls /\ CallTypes /\ created' = created
  BY DEF PageShaped, server
<1>2. PICK p, q : p = page /\ q = page'
  OBVIOUS
<1>3. IsPage(p) /\ BusyWith(p, q)
  BY <1>1, <1>2 DEF BusyWith, PageFields
<1>4. /\ IsPage(q) /\ q.view = p.view /\ q.tab = p.tab /\ q.status = p.status /\ q.items = p.items
      /\ q.cursor = p.cursor /\ q.refs = p.refs /\ q.savedStatus = p.savedStatus
      /\ q.savedItems = p.savedItems /\ q.savedCursor = p.savedCursor
  BY <1>3, BusyFields
<1>5. /\ q.loadingMoreSaved = p.loadingMoreSaved /\ q.loadingMore = p.loadingMore
      /\ q.saving = p.saving \cup {i} /\ q.savingInterests = p.savingInterests
  BY <1>2, <1>3 DEF IsPage
<1>6. PageFields'
  BY <1>1, <1>2, <1>4, <1>5, RowsKept DEF PageFields
<1>7. PICK new : new = calls'[c]
  OBVIOUS
<1>8. /\ calls' = [x \in Calls |-> calls'[x]]
      /\ \A x \in Calls \ {c} : calls'[x] = calls[x]
  BY <1>1, CallAdded
<1>9. PICK row : row = [item |-> i, id |-> page.refs[i]]
  OBVIOUS
<1>10. \/ page.refs[i] # NoRow /\ Made(new, "DELETE", row, Nil)
       \/ Made(new, "SAVE", i, Nil)
  BY <1>1, <1>7, <1>9 DEF Made, StateTypes
<1>11. /\ new.op \in {"SAVE", "DELETE"} /\ ItemOf(new) = i
  BY <1>9, <1>10, NewCallFields DEF ItemOf
<1>12. CallWellFormed(new)'
  <2>1. page.refs[i] # NoRow => row \in AnyRow' /\ row.item \in page'.saving
    BY <1>1, <1>2, <1>5, <1>9 DEF PageFields, AnyRow, StateTypes, NoRow
  <2>2. i \in page'.saving
    BY <1>2, <1>5
  <2> QED
    BY <1>10, <2>1, <2>2, NewCallTyped
<1>13. Awaited(new)'
  BY <1>11 DEF Awaited
<1>14. i \notin page.saving
  OBVIOUS
<1>15. \A x \in Calls \ {c} : calls[x] # Nil => ~ Clash(new, calls[x])
  <2> SUFFICES ASSUME NEW x \in Calls \ {c}, calls[x] # Nil, IsToggle(calls[x]) PROVE ItemOf(calls[x]) # i
    BY <1>11 DEF Clash
  <2>1. ItemOf(calls[x]) \in page.saving
    BY <1>1 DEF CallTypes, CallWellFormed, SaveCall, DeleteCall, ItemOf, IsToggle
  <2> QED
    BY <1>14, <2>1
<1>16. /\ UNCHANGED <<server, known, basis>> /\ page.saving \subseteq page'.saving
       /\ page.savingInterests => page'.savingInterests
       /\ page'.tab = page.tab /\ page'.status = page.status
       /\ page'.loadingMore = page.loadingMore /\ page'.cursor = page.cursor
       /\ page'.savedStatus = page.savedStatus /\ page'.loadingMoreSaved = page.loadingMoreSaved
       /\ page'.savedCursor = page.savedCursor
  BY <1>2, <1>4, <1>5
<1> QED
  BY <1>6, <1>7, <1>8, <1>12, <1>13, <1>15, <1>16, AddStep

\* So does choosing interests.
LEMMA SaveInterestsShape ==
    ASSUME PageShaped, Click, NEW c \in Calls, Free(c), NEW t \in Interests, SaveInterests(t, c)
    PROVE  PageShaped'
<1> USE DEF Click, SaveInterests
<1>1. StateTypes /\ PageFields /\ CurrentCalls /\ CallTypes /\ created' = created
  BY DEF PageShaped, server
<1>2. PICK p, q : p = page /\ q = page'
  OBVIOUS
<1>3. IsPage(p) /\ BusyWith(p, q)
  BY <1>1, <1>2 DEF BusyWith, PageFields
<1>4. /\ IsPage(q) /\ q.view = p.view /\ q.tab = p.tab /\ q.status = p.status /\ q.items = p.items
      /\ q.cursor = p.cursor /\ q.refs = p.refs /\ q.savedStatus = p.savedStatus
      /\ q.savedItems = p.savedItems /\ q.savedCursor = p.savedCursor
  BY <1>3, BusyFields
<1>5. /\ q.loadingMoreSaved = p.loadingMoreSaved /\ q.loadingMore = p.loadingMore
      /\ q.saving = p.saving /\ q.savingInterests = TRUE
  BY <1>2, <1>3 DEF IsPage
<1>6. PageFields'
  BY <1>1, <1>2, <1>4, <1>5, RowsKept DEF PageFields
<1>7. PICK new : new = Call("INTERESTS", t, Nil, FALSE)
  OBVIOUS
<1>8. /\ calls' = [x \in Calls |-> calls'[x]] /\ calls'[c] = new
      /\ \A x \in Calls \ {c} : calls'[x] = calls[x]
  BY <1>1, <1>7, CallAdded
<1>9. Made(new, "INTERESTS", t, Nil)
  BY <1>7 DEF Made
<1>10. new.op = "INTERESTS"
  BY <1>9, NewCallFields
<1>11. CallWellFormed(new)'
  BY <1>2, <1>5, <1>9, NewCallTyped
<1>12. Awaited(new)'
  BY <1>10 DEF Awaited
<1>13. \A x \in Calls \ {c} : calls[x] # Nil => calls[x].op # "INTERESTS"
  BY <1>1 DEF CallTypes, CallWellFormed, InterestsCall
<1>14. \A x \in Calls \ {c} : calls[x] # Nil => ~ Clash(new, calls[x])
  BY <1>10, <1>13 DEF Clash, IsToggle
<1>15. /\ UNCHANGED <<server, known, basis>> /\ page.saving \subseteq page'.saving
       /\ page.savingInterests => page'.savingInterests
       /\ page'.tab = page.tab /\ page'.status = page.status
       /\ page'.loadingMore = page.loadingMore /\ page'.cursor = page.cursor
       /\ page'.savedStatus = page.savedStatus /\ page'.loadingMoreSaved = page.loadingMoreSaved
       /\ page'.savedCursor = page.savedCursor
  BY <1>2, <1>4, <1>5
<1> QED
  BY <1>6, <1>8, <1>11, <1>12, <1>14, <1>15, AddStep

\* A step that takes the answer of the call c, and what it may change.
LEMMA DropStep ==
    ASSUME PageShaped, UNCHANGED server, PageFields', NEW c \in Calls, calls[c] # Nil,
           calls' = [calls EXCEPT ![c] = Nil],
           known' \in 0 .. created, basis' # Nil => basis' \in ListBasis,
           \/ page'.saving = page.saving
           \/ IsToggle(calls[c]) /\ page'.saving = page.saving \ {ItemOf(calls[c])},
           page'.savingInterests = page.savingInterests \/ calls[c].op = "INTERESTS",
           \/ calls[c].op = "LIST" /\ calls[c].current
           \/ /\ page'.tab = page.tab /\ page'.status = page.status
              /\ page'.loadingMore = page.loadingMore /\ page'.cursor = page.cursor,
           \/ calls[c].op = "SAVED" /\ calls[c].current
           \/ /\ page'.savedStatus = page.savedStatus /\ page'.loadingMoreSaved = page.loadingMoreSaved
              /\ page'.savedCursor = page.savedCursor
    PROVE  PageShaped'
<1>1. StateTypes /\ CallTypes /\ CurrentCalls /\ PageFields /\ created' = created /\ created \in Nat
  BY DEF PageShaped, StateTypes, server
<1>2. /\ calls' = [x \in Calls |-> calls'[x]] /\ calls'[c] = Nil
      /\ \A x \in Calls \ {c} : calls'[x] = calls[x]
  BY <1>1 DEF StateTypes
<1>3. StateTypes'
  BY <1>1, <1>2, StateTypesKept
<1>4. OthersKept(c)
  BY <1>2 DEF OthersKept, IsKept
<1>5. ASSUME NEW x \in Calls \ {c}, calls[x] # Nil
      PROVE  /\ StillBusy(calls[x])
             /\ calls[x].current /\ calls[x].op \in {"LIST", "SAVED"} =>
                    ~ (calls[c].op = calls[x].op /\ calls[c].current)
  <2>1. ~ Clash(calls[c], calls[x])
    BY <1>1, <1>5 DEF CurrentCalls
  <2>2. CallWellFormed(calls[x])
    BY <1>1, <1>5 DEF CallTypes
  <2>3. calls[x].op = "INTERESTS" => page'.savingInterests
    BY <2>1, <2>2 DEF Clash, CallWellFormed, InterestsCall
  <2>4. IsToggle(calls[x]) => ItemOf(calls[x]) \in page'.saving
    BY <2>1, <2>2 DEF Clash, CallWellFormed, SaveCall, DeleteCall, IsToggle, ItemOf
  <2> QED
    BY <2>1, <2>3, <2>4 DEF StillBusy, IsToggle, ItemOf, Clash
<1>6. CallTypes' /\ CurrentCalls'
  BY <1>1, <1>2, <1>4, <1>5, CallsStep
<1> QED
  BY <1>3, <1>6 DEF PageShaped

\* The items and the cursor of an answer to a list request.
LEMMA ListAnswerTyped ==
    ASSUME NEW call, ListCall(call), call.answer.ok
    PROVE  /\ call.answer.items \in Seq(InTab(call.basis.feed, call.about)) /\ Distinct(call.answer.items)
           /\ call.answer.items \in Seq(Items) /\ call.answer.cursor \in ListCursor \cup {Nil}
<1> DEFINE F == call.basis.feed  interest == call.basis.interest
           after == AfterCursor(F, call.about, interest, call.cursor)
<1>1. F \in Feeds /\ interest \in Interests /\ call.about \in Categories
  BY DEF ListCall, ListBasis
<1>2. /\ call.answer.items = FirstPage(after)
      /\ call.answer.cursor = CursorAfter(after, F, call.about, interest)
  BY DEF ListCall
<1>3. after \in Seq(InTab(F, call.about)) /\ Distinct(after)
  BY <1>1, AfterCursorDistinct
<1> HIDE DEF F, interest, after
<1>4. FirstPage(after) \in Seq(InTab(F, call.about)) /\ Distinct(FirstPage(after))
  BY <1>3, FirstPageOf
<1>5. InTab(F, call.about) \subseteq Items
  BY <1>1, RankingSorts
<1>6. FirstPage(after) \in Seq(Items)
  BY <1>4, <1>5, SeqMonotonic
<1>7. CursorAfter(after, F, call.about, interest) \in ListCursor \cup {Nil}
  <2> SUFFICES ASSUME ~ (Len(after) <= PageSize)
               PROVE  [interest |-> interest, keys |-> Ranked(after[PageSize], InTab(F, call.about), interest)] \in ListCursor
    BY DEF CursorAfter
  <2>1. after[PageSize] \in Items
    BY <1>3, <1>5, PageAssumption
  <2>2. /\ Ranked(after[PageSize], InTab(F, call.about), interest) \in [1 .. Width(interest) -> Int]
        /\ Width(interest) \in Nat
    BY <1>1, <2>1, RankedKeys
  <2>3. Ranked(after[PageSize], InTab(F, call.about), interest) \in Seq(Int)
    BY <2>2
  <2> QED
    BY <1>1, <2>3 DEF ListCursor
<1> QED
  BY <1>2, <1>4, <1>6, <1>7 DEF F

\* What setSavedReferences makes of the references.
LEMMA WithRefsIs ==
    ASSUME NEW old, NEW rows
    PROVE  /\ WithRefs(old, rows) = [i \in Items |-> WithRefs(old, rows)[i]]
           /\ \A i \in Items : \/ WithRefs(old, rows)[i] = old[i]
                               \/ \E r \in rows : r.item = i /\ WithRefs(old, rows)[i] = r.id
<1>1. WithRefs(old, rows) = [i \in Items |-> WithRefs(old, rows)[i]]
  BY DEF WithRefs
<1>2. ASSUME NEW i \in Items
      PROVE  \/ WithRefs(old, rows)[i] = old[i]
             \/ \E r \in rows : r.item = i /\ WithRefs(old, rows)[i] = r.id
  <2>1. CASE \E r \in rows : r.item = i
    <3>1. WithRefs(old, rows)[i] = (CHOOSE r \in rows : r.item = i).id
      BY <2>1 DEF WithRefs
    <3>2. (CHOOSE r \in rows : r.item = i) \in rows /\ (CHOOSE r \in rows : r.item = i).item = i
      BY <2>1
    <3> QED
      BY <3>1, <3>2
  <2>2. CASE ~ \E r \in rows : r.item = i
    BY <2>2 DEF WithRefs
  <2> QED
    BY <2>1, <2>2
<1> QED
  BY <1>1, <1>2

\* The rows that an answer to a list request refers to.
LEMMA RefsInIs ==
    ASSUME NEW a, a.items \in Seq(Items), NEW r \in OnlySaved(RefsIn(a))
    PROVE  r.item \in Items /\ r.id = a.refs[r.item] /\ r.id # NoRow
<1>1. PICK k \in DOMAIN a.items : r = [item |-> a.items[k], id |-> a.refs[a.items[k]]]
  BY DEF OnlySaved, RefsIn
<1>2. a.items[k] \in Items
  OBVIOUS
<1> QED
  BY <1>1, <1>2 DEF OnlySaved

\* References replaced by those of rows are references.
LEMMA RefsTyped ==
    ASSUME NEW n \in Nat, NEW old \in [Items -> 0 .. n], NEW rows, \A r \in rows : r.id \in 0 .. n
    PROVE  WithRefs(old, rows) \in [Items -> 0 .. n]
<1>1. \A i \in Items : WithRefs(old, rows)[i] \in 0 .. n
  BY WithRefsIs
<1> QED
  BY <1>1, WithRefsIs

-----------------------------------------------------------------------------
(* What the page makes of answers                                          *)

\* What the page makes of the answer to a list request.
ListShown(p, q, items, cursor, refs) ==
    \/ q = [p EXCEPT !.items = items, !.cursor = cursor, !.status = "ready", !.refs = refs]
    \/ q = [p EXCEPT !.items = items, !.cursor = cursor, !.loadingMore = FALSE, !.refs = refs] /\ p.status = "ready"

\* What the page makes of an error in its place.
ListFailed(p, q) ==
    \/ q = [p EXCEPT !.loadingMore = FALSE] /\ q.status = p.status
    \/ q = [p EXCEPT !.status = "error"] /\ q.status = "error"

\* The same for the saved items.
SavedShown(p, q, items, cursor, refs) ==
    \/ q = [p EXCEPT !.savedItems = items, !.savedCursor = cursor, !.savedStatus = "ready", !.refs = refs]
    \/ /\ q = [p EXCEPT !.savedItems = items, !.savedCursor = cursor, !.loadingMoreSaved = FALSE, !.refs = refs]
       /\ p.savedStatus = "ready"

SavedFailed(p, q) ==
    \/ q = [p EXCEPT !.loadingMoreSaved = FALSE] /\ q.savedStatus = p.savedStatus
    \/ q = [p EXCEPT !.savedStatus = "error"] /\ q.savedStatus = "error"

\* What showing a list changes of the page.
LEMMA ListShownFields ==
    ASSUME NEW p, IsPage(p), NEW q, NEW items, NEW cursor, NEW refs,
           p.loadingMore \in BOOLEAN, p.loadingMoreSaved \in BOOLEAN, ListShown(p, q, items, cursor, refs)
    PROVE  /\ IsPage(q)
           /\ q.view = p.view /\ q.tab = p.tab /\ q.status = "ready" /\ q.items = items /\ q.cursor = cursor
           /\ q.refs = refs /\ SameSaved(p, q) /\ SameBusy(p, q)
           /\ q.loadingMore \in BOOLEAN /\ q.loadingMoreSaved \in BOOLEAN
<1>1. q = [view |-> q.view, tab |-> q.tab, status |-> q.status, items |-> q.items, cursor |-> q.cursor,
         loadingMore |-> q.loadingMore, refs |-> q.refs, savedStatus |-> q.savedStatus,
         savedItems |-> q.savedItems, savedCursor |-> q.savedCursor,
         loadingMoreSaved |-> q.loadingMoreSaved, saving |-> q.saving,
         savingInterests |-> q.savingInterests]
  BY DEF IsPage, ListShown
<1>2. /\ q.view = p.view /\ q.tab = p.tab /\ q.status = "ready" /\ q.items = items /\ q.cursor = cursor
      /\ q.refs = refs /\ SameSaved(p, q) /\ SameBusy(p, q)
      /\ q.loadingMore \in BOOLEAN /\ q.loadingMoreSaved \in BOOLEAN
  BY DEF IsPage, ListShown, SameList, SameSaved, SameBusy
<1> QED
  BY <1>1, <1>2 DEF IsPage

\* What a failed list request changes of the page.
LEMMA ListFailedFields ==
    ASSUME NEW p, IsPage(p), NEW q, p.loadingMore \in BOOLEAN, p.loadingMoreSaved \in BOOLEAN, ListFailed(p, q)
    PROVE  /\ IsPage(q)
           /\ q.view = p.view /\ q.tab = p.tab /\ q.status \in {p.status, "error"} /\ q.items = p.items /\ q.cursor = p.cursor
           /\ q.refs = p.refs /\ SameSaved(p, q) /\ SameBusy(p, q)
           /\ q.loadingMore \in BOOLEAN /\ q.loadingMoreSaved \in BOOLEAN
<1>1. q = [view |-> q.view, tab |-> q.tab, status |-> q.status, items |-> q.items, cursor |-> q.cursor,
         loadingMore |-> q.loadingMore, refs |-> q.refs, savedStatus |-> q.savedStatus,
         savedItems |-> q.savedItems, savedCursor |-> q.savedCursor,
         loadingMoreSaved |-> q.loadingMoreSaved, saving |-> q.saving,
         savingInterests |-> q.savingInterests]
  BY DEF IsPage, ListFailed
<1>2. /\ q.view = p.view /\ q.tab = p.tab /\ q.status \in {p.status, "error"} /\ q.items = p.items /\ q.cursor = p.cursor
      /\ q.refs = p.refs /\ SameSaved(p, q) /\ SameBusy(p, q)
      /\ q.loadingMore \in BOOLEAN /\ q.loadingMoreSaved \in BOOLEAN
  BY DEF IsPage, ListFailed, SameList, SameSaved, SameBusy
<1> QED
  BY <1>1, <1>2 DEF IsPage

\* What showing saved items changes of the page.
LEMMA SavedShownFields ==
    ASSUME NEW p, IsPage(p), NEW q, NEW items, NEW cursor, NEW refs,
           p.loadingMore \in BOOLEAN, p.loadingMoreSaved \in BOOLEAN, SavedShown(p, q, items, cursor, refs)
    PROVE  /\ IsPage(q)
           /\ q.view = p.view /\ q.savedStatus = "ready" /\ q.savedItems = items /\ q.savedCursor = cursor
           /\ q.refs = refs /\ SameList(p, q) /\ SameBusy(p, q)
           /\ q.loadingMore \in BOOLEAN /\ q.loadingMoreSaved \in BOOLEAN
<1>1. q = [view |-> q.view, tab |-> q.tab, status |-> q.status, items |-> q.items, cursor |-> q.cursor,
         loadingMore |-> q.loadingMore, refs |-> q.refs, savedStatus |-> q.savedStatus,
         savedItems |-> q.savedItems, savedCursor |-> q.savedCursor,
         loadingMoreSaved |-> q.loadingMoreSaved, saving |-> q.saving,
         savingInterests |-> q.savingInterests]
  BY DEF IsPage, SavedShown
<1>2. /\ q.view = p.view /\ q.savedStatus = "ready" /\ q.savedItems = items /\ q.savedCursor = cursor
      /\ q.refs = refs /\ SameList(p, q) /\ SameBusy(p, q)
      /\ q.loadingMore \in BOOLEAN /\ q.loadingMoreSaved \in BOOLEAN
  BY DEF IsPage, SavedShown, SameList, SameSaved, SameBusy
<1> QED
  BY <1>1, <1>2 DEF IsPage

\* What a failed request for them changes of the page.
LEMMA SavedFailedFields ==
    ASSUME NEW p, IsPage(p), NEW q, p.loadingMore \in BOOLEAN, p.loadingMoreSaved \in BOOLEAN, SavedFailed(p, q)
    PROVE  /\ IsPage(q)
           /\ q.view = p.view /\ q.savedStatus \in {p.savedStatus, "error"} /\ q.savedItems = p.savedItems
           /\ q.savedCursor = p.savedCursor /\ q.refs = p.refs /\ SameList(p, q) /\ SameBusy(p, q)
           /\ q.loadingMore \in BOOLEAN /\ q.loadingMoreSaved \in BOOLEAN
<1>1. q = [view |-> q.view, tab |-> q.tab, status |-> q.status, items |-> q.items, cursor |-> q.cursor,
         loadingMore |-> q.loadingMore, refs |-> q.refs, savedStatus |-> q.savedStatus,
         savedItems |-> q.savedItems, savedCursor |-> q.savedCursor,
         loadingMoreSaved |-> q.loadingMoreSaved, saving |-> q.saving,
         savingInterests |-> q.savingInterests]
  BY DEF IsPage, SavedFailed
<1>2. /\ q.view = p.view /\ q.savedStatus \in {p.savedStatus, "error"} /\ q.savedItems = p.savedItems
      /\ q.savedCursor = p.savedCursor /\ q.refs = p.refs /\ SameList(p, q) /\ SameBusy(p, q)
      /\ q.loadingMore \in BOOLEAN /\ q.loadingMoreSaved \in BOOLEAN
  BY DEF IsPage, SavedFailed, SameList, SameSaved, SameBusy
<1> QED
  BY <1>1, <1>2 DEF IsPage

\* Taking the answer to a list request leaves everything well formed.
LEMMA ListAnsweredShape ==
    ASSUME PageShaped, NEW c \in Calls, calls[c] # Nil, calls[c].step = "ANSWERED", ListAnswered(c), UNCHANGED server
    PROVE  PageShaped'
<1>1. StateTypes /\ PageFields /\ CurrentCalls /\ CallTypes /\ created' = created /\ created \in Nat
  BY DEF PageShaped, StateTypes, server
<1>2. /\ calls[c].op = "LIST" /\ calls' = [calls EXCEPT ![c] = Nil] /\ known' = known /\ known \in 0 .. created
      /\ known' \in 0 .. created /\ UNCHANGED server
  BY <1>1 DEF ListAnswered, IsCall, StateTypes
<1>3. PICK p, q, a, call : p = page /\ q = page' /\ a = calls[c].answer /\ call = calls[c]
  OBVIOUS
<1>4. IsPage(p) /\ p.loadingMore \in BOOLEAN /\ p.loadingMoreSaved \in BOOLEAN
  BY <1>1, <1>3 DEF PageFields
<1>5. CASE ~IsLast(c) /\ UNCHANGED <<page, basis>>
  <2>1. PageFields'
    BY <1>1, <1>5, PageFieldsKept
  <2>2. basis' # Nil => basis' \in ListBasis
    BY <1>1, <1>5 DEF StateTypes
  <2>3. UNCHANGED page
    BY <1>5
  <2> QED
    BY <1>2, <2>1, <2>2, <2>3, DropStep
<1>6. CASE /\ IsLast(c) /\ ~calls[c].answer.ok /\ UNCHANGED basis
           /\ page' = IF calls[c].more THEN [page EXCEPT !.loadingMore = FALSE]
                      ELSE [page EXCEPT !.status = "error"]
  <2>1. ListFailed(p, q)
    BY <1>3, <1>4, <1>6 DEF ListFailed, IsPage
  <2>2. /\ IsPage(q) /\ q.view = p.view /\ q.tab = p.tab /\ q.status \in {p.status, "error"} /\ q.items = p.items /\ q.cursor = p.cursor
        /\ q.refs = p.refs /\ SameSaved(p, q) /\ SameBusy(p, q)
        /\ q.loadingMore \in BOOLEAN /\ q.loadingMoreSaved \in BOOLEAN
    BY <1>4, <2>1, ListFailedFields
  <2>3. PageFields'
    BY <1>1, <1>3, <2>2, RowsKept DEF PageFields, SameSaved, SameBusy, Statuses
  <2>4. basis' # Nil => basis' \in ListBasis
    BY <1>1, <1>6 DEF StateTypes
  <2>5. calls[c].current
    BY <1>6 DEF IsLast
  <2> QED
    BY <1>2, <1>3, <2>2, <2>3, <2>4, <2>5, DropStep DEF SameSaved, SameBusy
<1>7. CASE /\ IsLast(c) /\ calls[c].answer.ok
           /\ \E refs \in {page.refs, NoRefs} : \E items \in {a.items, Merge(page.items, a.items)} :
                 ListShown(page, page', items, a.cursor, WithRefs(refs, OnlySaved(RefsIn(a))))
           /\ basis' \in {calls[c].basis, basis, Nil}
  <2>1. PICK refs \in {page.refs, NoRefs}, items \in {a.items, Merge(page.items, a.items)} :
            ListShown(page, page', items, a.cursor, WithRefs(refs, OnlySaved(RefsIn(a))))
    BY <1>7
  <2>2. PICK new : new = WithRefs(refs, OnlySaved(RefsIn(a)))
    OBVIOUS
  <2>3. ListShown(p, q, items, a.cursor, new)
    BY <1>3, <2>1, <2>2
  <2>4. /\ IsPage(q)
        /\ q.view = p.view /\ q.tab = p.tab /\ q.status = "ready" /\ q.items = items /\ q.cursor = a.cursor
        /\ q.refs = new /\ SameSaved(p, q) /\ SameBusy(p, q)
        /\ q.loadingMore \in BOOLEAN /\ q.loadingMoreSaved \in BOOLEAN
    BY <1>4, <2>3, ListShownFields
  <2>5. ListCall(call) /\ a = call.answer /\ a.ok
    BY <1>1, <1>2, <1>3, <1>7 DEF CallTypes, CallWellFormed
  <2>6. a.items \in Seq(Items) /\ a.cursor \in ListCursor \cup {Nil} /\ call.basis \in ListBasis
    BY <2>5, ListAnswerTyped DEF ListCall
  <2>7. a.refs \in [Items -> 0 .. created]
    BY <1>3, <2>5 DEF ListCall
  <2>8. items \in Seq(Items)
    BY <1>1, <2>6, MergeShows DEF PageFields
  <2>9. \A r \in OnlySaved(RefsIn(a)) : r.id \in 0 .. created
    BY <2>6, <2>7, RefsInIs
  <2>10. refs \in [Items -> 0 .. created]
    BY <1>1 DEF PageFields, NoRefs, NoRow
  <2>11. new \in [Items -> 0 .. created]
    <3>1. PICK n : n = created
      OBVIOUS
    <3> QED
      BY <1>1, <2>2, <2>9, <2>10, <3>1, RefsTyped
  <2>12. PageFields'
    BY <1>1, <1>3, <2>4, <2>6, <2>8, <2>11, RowsKept DEF PageFields, SameSaved, SameBusy, Statuses
  <2>13. basis' # Nil => basis' \in ListBasis
    BY <1>1, <1>3, <1>7, <2>6 DEF StateTypes
  <2>14. calls[c].current
    BY <1>7 DEF IsLast
  <2> QED
    BY <1>2, <1>3, <2>4, <2>12, <2>13, <2>14, DropStep DEF SameSaved, SameBusy
<1>8. /\ IsLast(c) /\ calls[c].answer.ok /\ ~calls[c].more
      /\ page' = [page EXCEPT !.items = a.items, !.cursor = a.cursor, !.status = "ready",
                              !.refs = WithRefs(NoRefs, OnlySaved(RefsIn(a)))]
      /\ basis' = calls[c].basis
      => ListShown(page, page', a.items, a.cursor, WithRefs(NoRefs, OnlySaved(RefsIn(a))))
  BY DEF ListShown
<1>9. /\ IsLast(c) /\ calls[c].answer.ok /\ calls[c].more
      /\ page' = [page EXCEPT !.items = Merge(page.items, a.items), !.cursor = a.cursor, !.loadingMore = FALSE,
                              !.refs = WithRefs(page.refs, OnlySaved(RefsIn(a)))]
      => ListShown(page, page', Merge(page.items, a.items), a.cursor, WithRefs(page.refs, OnlySaved(RefsIn(a))))
  <2>1. IsLast(c) /\ calls[c].more => page.status = "ready"
    BY <1>1, <1>2 DEF CurrentCalls, Awaited, IsLast
  <2> QED
    BY <2>1 DEF ListShown
<1>10. \/ ~IsLast(c) /\ UNCHANGED <<page, basis>>
       \/ /\ IsLast(c) /\ ~calls[c].answer.ok /\ UNCHANGED basis
          /\ page' = IF calls[c].more THEN [page EXCEPT !.loadingMore = FALSE]
                     ELSE [page EXCEPT !.status = "error"]
       \/ /\ IsLast(c) /\ a.ok /\ ~calls[c].more
          /\ page' = [page EXCEPT !.items = a.items, !.cursor = a.cursor, !.status = "ready",
                                  !.refs = WithRefs(NoRefs, OnlySaved(RefsIn(a)))]
          /\ basis' = calls[c].basis
       \/ /\ IsLast(c) /\ a.ok /\ calls[c].more
          /\ page' = [page EXCEPT !.items = Merge(page.items, a.items), !.cursor = a.cursor, !.loadingMore = FALSE,
                                  !.refs = WithRefs(page.refs, OnlySaved(RefsIn(a)))]
          /\ basis' \in {Nil, basis}
  BY <1>3 DEF ListAnswered
<1> QED
  BY <1>3, <1>5, <1>6, <1>7, <1>8, <1>9, <1>10

\* The rows of a list are of items and have been created.
LEMMA RowIds ==
    ASSUME created \in Nat, NEW rows, AnyRows(rows)
    PROVE  \A r \in Rows(rows) : r \in AnyRow /\ r.item \in Items /\ r.id \in 1 .. created /\ r.id \in 0 .. created
<1>1. ASSUME NEW k \in DOMAIN rows PROVE rows[k] \in AnyRow
  BY DEF AnyRows
<1>2. \A r \in AnyRow : r.item \in Items /\ r.id \in 1 .. created /\ r.id \in 0 .. created
  BY DEF AnyRow
<1> QED
  BY <1>1, <1>2 DEF Rows

\* A row can be put first in a list of rows.
LEMMA RowAdded ==
    ASSUME NEW i \in Items, NEW id \in 1 .. created, NEW rows, AnyRows(rows)
    PROVE  AnyRows(<<[item |-> i, id |-> id]>> \o rows)
<1>1. PICK row : row = [item |-> i, id |-> id]
  OBVIOUS
<1>2. row \in AnyRow
  BY <1>1 DEF AnyRow
<1>3. <<row>> \o rows \in Seq(AnyRow)
  BY <1>2 DEF AnyRows
<1> QED
  BY <1>1, <1>3 DEF AnyRows

\* So does taking the answer to a request for saved items.
LEMMA SavedAnsweredShape ==
    ASSUME PageShaped, NEW c \in Calls, calls[c] # Nil, calls[c].step = "ANSWERED", SavedAnswered(c), UNCHANGED server
    PROVE  PageShaped'
<1>1. StateTypes /\ PageFields /\ CurrentCalls /\ CallTypes /\ created' = created /\ created \in Nat
  BY DEF PageShaped, StateTypes, server
<1>2. /\ calls[c].op = "SAVED" /\ calls' = [calls EXCEPT ![c] = Nil] /\ basis' = basis
      /\ basis' # Nil => basis' \in ListBasis
      /\ known \in 0 .. created /\ UNCHANGED server
  BY <1>1 DEF SavedAnswered, IsCall, StateTypes
<1>3. PICK p, q, a, call : p = page /\ q = page' /\ a = calls[c].answer /\ call = calls[c]
  OBVIOUS
<1>4. IsPage(p) /\ p.loadingMore \in BOOLEAN /\ p.loadingMoreSaved \in BOOLEAN
  BY <1>1, <1>3 DEF PageFields
<1>5. CASE ~IsLast(c) /\ UNCHANGED <<page, known>>
  <2>1. PageFields'
    BY <1>1, <1>5, PageFieldsKept
  <2>2. UNCHANGED page /\ known' \in 0 .. created
    BY <1>2, <1>5
  <2> QED
    BY <1>2, <2>1, <2>2, DropStep
<1>6. CASE /\ IsLast(c) /\ ~calls[c].answer.ok /\ UNCHANGED known
           /\ page' = IF calls[c].more THEN [page EXCEPT !.loadingMoreSaved = FALSE]
                      ELSE [page EXCEPT !.savedStatus = "error"]
  <2>1. SavedFailed(p, q)
    BY <1>3, <1>4, <1>6 DEF SavedFailed, IsPage
  <2>2. /\ IsPage(q) /\ q.view = p.view /\ q.savedStatus \in {p.savedStatus, "error"} /\ q.savedItems = p.savedItems
        /\ q.savedCursor = p.savedCursor /\ q.refs = p.refs /\ SameList(p, q) /\ SameBusy(p, q)
        /\ q.loadingMore \in BOOLEAN /\ q.loadingMoreSaved \in BOOLEAN
    BY <1>4, <2>1, SavedFailedFields
  <2>3. PageFields'
    BY <1>1, <1>3, <2>2, RowsKept DEF PageFields, SameList, SameBusy, Statuses
  <2>4. known' \in 0 .. created
    BY <1>2, <1>6
  <2>5. calls[c].current
    BY <1>6 DEF IsLast
  <2> QED
    BY <1>2, <1>3, <2>2, <2>3, <2>4, <2>5, DropStep DEF SameList, SameBusy
<1>7. CASE /\ IsLast(c) /\ calls[c].answer.ok
           /\ \E refs \in {page.refs, NoRefs} : \E items \in {a.items, Merge(page.savedItems, a.items)} :
                 SavedShown(page, page', items, a.cursor, WithRefs(refs, Rows(a.items)))
           /\ known' \in {calls[c].basis, known}
  <2>1. PICK refs \in {page.refs, NoRefs}, items \in {a.items, Merge(page.savedItems, a.items)} :
            SavedShown(page, page', items, a.cursor, WithRefs(refs, Rows(a.items)))
    BY <1>7
  <2>2. PICK new : new = WithRefs(refs, Rows(a.items))
    OBVIOUS
  <2>3. SavedShown(p, q, items, a.cursor, new)
    BY <1>3, <2>1, <2>2
  <2>4. /\ IsPage(q)
        /\ q.view = p.view /\ q.savedStatus = "ready" /\ q.savedItems = items /\ q.savedCursor = a.cursor
        /\ q.refs = new /\ SameList(p, q) /\ SameBusy(p, q)
        /\ q.loadingMore \in BOOLEAN /\ q.loadingMoreSaved \in BOOLEAN
    BY <1>4, <2>3, SavedShownFields
  <2>5. SavedCall(call) /\ a = call.answer /\ a.ok
    BY <1>1, <1>2, <1>3, <1>7 DEF CallTypes, CallWellFormed
  <2>6. AnyRows(a.items) /\ a.cursor \in RowStamp \cup {Nil} /\ call.basis \in 0 .. created
    BY <2>5 DEF SavedCall
  <2>7. AnyRows(items)
    BY <1>1, <2>6, MergeShows DEF PageFields, AnyRows
  <2>8. \A r \in Rows(a.items) : r.id \in 0 .. created
    BY <1>1, <2>6, RowIds
  <2>9. refs \in [Items -> 0 .. created]
    BY <1>1 DEF PageFields, NoRefs, NoRow
  <2>10. new \in [Items -> 0 .. created]
    <3>1. PICK n : n = created
      OBVIOUS
    <3> QED
      BY <1>1, <2>2, <2>8, <2>9, <3>1, RefsTyped
  <2>11. PageFields'
    BY <1>1, <1>3, <2>4, <2>6, <2>7, <2>10, RowsKept DEF PageFields, SameList, SameBusy, Statuses
  <2>12. known' \in 0 .. created
    BY <1>2, <1>3, <1>7, <2>6
  <2>13. calls[c].current
    BY <1>7 DEF IsLast
  <2> QED
    BY <1>2, <1>3, <2>4, <2>11, <2>12, <2>13, DropStep DEF SameList, SameBusy
<1>8. /\ page' = [page EXCEPT !.savedItems = a.items, !.savedCursor = a.cursor, !.savedStatus = "ready",
                              !.refs = WithRefs(NoRefs, Rows(a.items))]
      => SavedShown(page, page', a.items, a.cursor, WithRefs(NoRefs, Rows(a.items)))
  BY DEF SavedShown
<1>9. /\ IsLast(c) /\ calls[c].more
      /\ page' = [page EXCEPT !.savedItems = Merge(page.savedItems, a.items), !.savedCursor = a.cursor,
                              !.loadingMoreSaved = FALSE, !.refs = WithRefs(page.refs, Rows(a.items))]
      => SavedShown(page, page', Merge(page.savedItems, a.items), a.cursor, WithRefs(page.refs, Rows(a.items)))
  <2>1. IsLast(c) /\ calls[c].more => page.savedStatus = "ready"
    BY <1>1, <1>2 DEF CurrentCalls, Awaited, IsLast
  <2> QED
    BY <2>1 DEF SavedShown
<1>10. \/ ~IsLast(c) /\ UNCHANGED <<page, known>>
       \/ /\ IsLast(c) /\ ~calls[c].answer.ok /\ UNCHANGED known
          /\ page' = IF calls[c].more THEN [page EXCEPT !.loadingMoreSaved = FALSE]
                     ELSE [page EXCEPT !.savedStatus = "error"]
       \/ /\ IsLast(c) /\ a.ok /\ ~calls[c].more
          /\ page' = [page EXCEPT !.savedItems = a.items, !.savedCursor = a.cursor, !.savedStatus = "ready",
                                  !.refs = WithRefs(NoRefs, Rows(a.items))]
          /\ known' = calls[c].basis
       \/ /\ IsLast(c) /\ a.ok /\ calls[c].more
          /\ page' = [page EXCEPT !.savedItems = Merge(page.savedItems, a.items), !.savedCursor = a.cursor,
                                  !.loadingMoreSaved = FALSE, !.refs = WithRefs(page.refs, Rows(a.items))]
          /\ known' = known
  BY <1>3 DEF SavedAnswered
<1> QED
  BY <1>3, <1>5, <1>6, <1>7, <1>8, <1>9, <1>10

\* What the page makes of the answer to a toggle.
Toggled(p, q, i, ref, rows) ==
    \/ q = [p EXCEPT !.saving = @ \ {i}] /\ ref = p.refs[i] /\ rows = p.savedItems
    \/ q = [p EXCEPT !.saving = @ \ {i}, !.refs[i] = ref, !.savedItems = rows]

\* What the answer to a toggle changes of the page.
LEMMA ToggledFields ==
    ASSUME NEW p, IsPage(p), NEW q, NEW n, NEW i \in Items, NEW ref, NEW rows, Toggled(p, q, i, ref, rows), p.refs \in [Items -> n]
    PROVE  /\ IsPage(q) /\ SameList(p, q) /\ q.view = p.view /\ q.savedStatus = p.savedStatus
           /\ q.savedCursor = p.savedCursor /\ q.loadingMoreSaved = p.loadingMoreSaved
           /\ q.savedItems = rows /\ q.refs = [p.refs EXCEPT ![i] = ref]
           /\ q.saving = p.saving \ {i} /\ q.savingInterests = p.savingInterests
<1>1. q = [view |-> q.view, tab |-> q.tab, status |-> q.status, items |-> q.items, cursor |-> q.cursor,
         loadingMore |-> q.loadingMore, refs |-> q.refs, savedStatus |-> q.savedStatus,
         savedItems |-> q.savedItems, savedCursor |-> q.savedCursor,
         loadingMoreSaved |-> q.loadingMoreSaved, saving |-> q.saving,
         savingInterests |-> q.savingInterests]
  BY DEF IsPage, Toggled
<1>2. /\ SameList(p, q) /\ q.view = p.view /\ q.savedStatus = p.savedStatus
      /\ q.savedCursor = p.savedCursor /\ q.loadingMoreSaved = p.loadingMoreSaved
      /\ q.savedItems = rows
      /\ q.saving = p.saving \ {i} /\ q.savingInterests = p.savingInterests
  BY DEF IsPage, Toggled, SameList
<1>3. q.refs = [p.refs EXCEPT ![i] = ref]
  BY DEF IsPage, Toggled
<1> QED
  BY <1>1, <1>2, <1>3 DEF IsPage

\* The row of an item that a toggle that was answered leaves, and the rows.
LEMMA ToggleIs ==
    ASSUME PageShaped, NEW c \in Calls, calls[c] # Nil, ToggleAnswered(c)
    PROVE  LET i == ItemOf(calls[c])  a == calls[c].answer IN
           /\ IsToggle(calls[c]) /\ i \in Items /\ calls' = [calls EXCEPT ![c] = Nil]
           /\ \/ ~a.ok /\ Toggled(page, page', i, page.refs[i], page.savedItems)
              \/ /\ a.ok /\ calls[c].op = "DELETE" /\ calls[c].about \in AnyRow /\ i = calls[c].about.item
                 /\ Toggled(page, page', i, NoRow, Without(page.savedItems, calls[c].about.id))
              \/ /\ a.ok /\ calls[c].op = "SAVE" /\ i = calls[c].about
                 /\ \E id \in 1 .. created :
                       /\ a.items = <<[item |-> i, id |-> id]>>
                       /\ Toggled(page, page', i, id, <<[item |-> i, id |-> id]>> \o Without(page.savedItems, id))
<1> DEFINE i == ItemOf(calls[c])  a == calls[c].answer
<1>1. CallWellFormed(calls[c]) /\ PageFields
  BY DEF PageShaped, CallTypes
<1>2. /\ IsToggle(calls[c]) /\ calls' = [calls EXCEPT ![c] = Nil]
      /\ IsCall(c, "SAVE") <=> calls[c].op = "SAVE"
      /\ IsCall(c, "DELETE") <=> calls[c].op = "DELETE"
      /\ i = IF IsCall(c, "SAVE") THEN calls[c].about ELSE calls[c].about.item
  BY DEF ToggleAnswered, IsToggle, IsCall, ItemOf
<1>3. i \in Items /\ (calls[c].op = "DELETE" => calls[c].about \in AnyRow)
  BY <1>1, <1>2 DEF CallWellFormed, SaveCall, DeleteCall, PageFields, IsToggle, ItemOf
<1>4. CASE ~a.ok
  <2>1. page' = [page EXCEPT !.saving = @ \ {i}]
    BY <1>2, <1>4 DEF ToggleAnswered
  <2> QED
    BY <1>2, <1>3, <1>4, <2>1 DEF Toggled
<1>5. CASE a.ok /\ calls[c].op = "DELETE"
  <2>1. page' = [page EXCEPT !.saving = @ \ {i}, !.refs[i] = NoRow,
                             !.savedItems = Without(page.savedItems, calls[c].about.id)]
    BY <1>2, <1>5 DEF ToggleAnswered
  <2> QED
    BY <1>2, <1>3, <1>5, <2>1 DEF Toggled, ItemOf
<1>6. CASE a.ok /\ calls[c].op = "SAVE"
  <2>1. PICK id \in 1 .. created : a.items = <<[item |-> i, id |-> id]>>
    BY <1>1, <1>6 DEF CallWellFormed, SaveCall, ItemOf
  <2>2. page' = [page EXCEPT !.saving = @ \ {i}, !.refs[i] = a.items[1].id,
                             !.savedItems = a.items \o Without(page.savedItems, a.items[1].id)]
    BY <1>2, <1>6 DEF ToggleAnswered
  <2>3. a.items[1].id = id
    BY <2>1
  <2>4. Toggled(page, page', i, id, <<[item |-> i, id |-> id]>> \o Without(page.savedItems, id))
    BY <2>1, <2>2, <2>3 DEF Toggled
  <2> QED
    BY <1>2, <1>3, <1>6, <2>1, <2>4 DEF ItemOf
<1> QED
  BY <1>2, <1>4, <1>5, <1>6 DEF IsToggle

\* So does taking the answer to a toggle.
LEMMA ToggleAnsweredShape ==
    ASSUME PageShaped, NEW c \in Calls, calls[c] # Nil, ToggleAnswered(c), UNCHANGED server
    PROVE  PageShaped'
<1>1. StateTypes /\ PageFields /\ created' = created /\ created \in Nat
  BY DEF PageShaped, StateTypes, server
<1>2. PICK p, q, i : p = page /\ q = page' /\ i = ItemOf(calls[c])
  OBVIOUS
<1>3. IsToggle(calls[c]) /\ i \in Items /\ calls' = [calls EXCEPT ![c] = Nil]
  BY <1>2, ToggleIs
<1>4. \E ref \in 0 .. created : \E rows : AnyRows(rows) /\ Toggled(p, q, i, ref, rows)
  <2>1. page.refs[i] \in 0 .. created /\ AnyRows(page.savedItems) /\ NoRow \in 0 .. created
    BY <1>1, <1>3 DEF PageFields, NoRow
  <2>2. \A id : AnyRows(Without(page.savedItems, id))
    BY <2>1, WithoutShows DEF AnyRows
  <2>3. \A id \in 1 .. created : /\ AnyRows(<<[item |-> i, id |-> id]>> \o Without(page.savedItems, id))
                                 /\ id \in 0 .. created
    BY <1>1, <1>3, <2>2, RowAdded
  <2>4. \/ Toggled(p, q, i, page.refs[i], page.savedItems)
        \/ Toggled(p, q, i, NoRow, Without(page.savedItems, calls[c].about.id))
        \/ \E id \in 1 .. created :
               Toggled(p, q, i, id, <<[item |-> i, id |-> id]>> \o Without(page.savedItems, id))
    BY <1>2, ToggleIs
  <2> QED
    BY <2>1, <2>2, <2>3, <2>4
<1>5. PICK ref, rows : ref \in 0 .. created /\ AnyRows(rows) /\ Toggled(p, q, i, ref, rows)
  BY <1>4
<1>6. PICK n : n = 0 .. created
  OBVIOUS
<1>7. IsPage(p) /\ p.refs \in [Items -> n]
  BY <1>1, <1>2, <1>6 DEF PageFields
<1>8. /\ IsPage(q) /\ SameList(p, q) /\ q.view = p.view /\ q.savedStatus = p.savedStatus
      /\ q.savedCursor = p.savedCursor /\ q.loadingMoreSaved = p.loadingMoreSaved
      /\ q.savedItems = rows /\ q.refs = [p.refs EXCEPT ![i] = ref]
      /\ q.saving = p.saving \ {i} /\ q.savingInterests = p.savingInterests
  BY <1>3, <1>5, <1>7, ToggledFields
<1>9. q.refs \in [Items -> n]
  BY <1>5, <1>6, <1>7, <1>8
<1>10. PageFields'
  BY <1>1, <1>2, <1>5, <1>6, <1>8, <1>9, RowsKept DEF PageFields, SameList
<1>11. known' \in 0 .. created /\ (basis' # Nil => basis' \in ListBasis)
  BY <1>1 DEF ToggleAnswered, StateTypes
<1> QED
  BY <1>2, <1>3, <1>8, <1>10, <1>11, DropStep DEF SameList

\* So does taking the answer to a choice of interests, which may ask for the feed again.
LEMMA InterestsAnsweredShape ==
    ASSUME PageShaped, NEW c \in Calls, calls[c] # Nil, InterestsAnswered(c), UNCHANGED server
    PROVE  PageShaped'
<1>1. StateTypes /\ PageFields /\ created' = created /\ created \in Nat /\ IsPage(page)
  BY DEF PageShaped, StateTypes, server, PageFields
<1>2. /\ calls[c].op = "INTERESTS" /\ known' = known /\ known' \in 0 .. created
      /\ basis # Nil => basis \in ListBasis
  BY <1>1 DEF InterestsAnswered, IsCall, StateTypes
<1>3. CASE calls[c].answer.ok /\ page.view = "EXPLORE"
  <2>1. calls' = Reloaded("LIST", c, page.tab) /\ page' = [Exploring(page) EXCEPT !.savingInterests = FALSE] /\ basis' = Nil
    BY <1>3 DEF InterestsAnswered
  <2>2. PICK p, r, q : p = page /\ r = Exploring(p) /\ q = page'
    OBVIOUS
  <2>3. /\ IsPage(r) /\ r.view = "EXPLORE" /\ r.tab = p.tab /\ r.status = "loading" /\ r.items = <<>>
        /\ r.cursor = Nil /\ r.loadingMore = p.loadingMore /\ SameSaved(p, r) /\ SameBusy(p, r)
        /\ r.refs = p.refs
    BY <1>1, <2>2, ExploringFields
  <2>4. q = [r EXCEPT !.savingInterests = FALSE]
    BY <2>1, <2>2
  <2>5. BusyWith(r, q)
    BY <2>4 DEF BusyWith
  <2>6. /\ IsPage(q) /\ q.view = r.view /\ q.tab = r.tab /\ q.status = r.status /\ q.items = r.items
        /\ q.cursor = r.cursor /\ q.refs = r.refs /\ q.savedStatus = r.savedStatus
        /\ q.savedItems = r.savedItems /\ q.savedCursor = r.savedCursor
    BY <2>3, <2>5, BusyFields
  <2>7. /\ q.loadingMore = r.loadingMore /\ q.loadingMoreSaved = r.loadingMoreSaved /\ q.saving = r.saving
        /\ q.savingInterests = FALSE
    BY <2>3, <2>4 DEF IsPage
  <2>8. PageFields'
    <3>1. /\ q.view = "EXPLORE" /\ q.tab = p.tab /\ q.status = "loading" /\ q.items = <<>> /\ q.cursor = Nil
          /\ q.loadingMore = p.loadingMore /\ q.refs = p.refs /\ q.savedStatus = p.savedStatus
          /\ q.savedItems = p.savedItems /\ q.savedCursor = p.savedCursor
          /\ q.loadingMoreSaved = p.loadingMoreSaved /\ q.saving = p.saving
      BY <2>3, <2>6, <2>7 DEF SameSaved, SameBusy
    <3> QED
      BY <1>1, <2>2, <2>6, <2>7, <3>1, RowsKept, NoRows DEF PageFields, Statuses
  <2>9. PICK f : f = Reloaded("LIST", c, page.tab)
    OBVIOUS
  <2>10. SameSaved(page, page') /\ page'.saving = page.saving /\ page'.status = "loading" /\ page'.tab = page.tab
    BY <2>2, <2>3, <2>6, <2>7 DEF SameSaved, SameBusy
  <2> QED
    BY <1>2, <2>1, <2>8, <2>9, <2>10, ReloadStep
<1>4. CASE ~ (calls[c].answer.ok /\ page.view = "EXPLORE")
  <2>1. calls' = [calls EXCEPT ![c] = Nil] /\ page' = [page EXCEPT !.savingInterests = FALSE] /\ basis' = basis
    BY <1>4 DEF InterestsAnswered
  <2>2. PICK p, q : p = page /\ q = page'
    OBVIOUS
  <2>3. BusyWith(p, q)
    BY <2>1, <2>2 DEF BusyWith
  <2>4. /\ IsPage(q) /\ q.view = p.view /\ q.tab = p.tab /\ q.status = p.status /\ q.items = p.items
        /\ q.cursor = p.cursor /\ q.refs = p.refs /\ q.savedStatus = p.savedStatus
        /\ q.savedItems = p.savedItems /\ q.savedCursor = p.savedCursor
    BY <1>1, <2>2, <2>3, BusyFields
  <2>5. /\ q.loadingMore = p.loadingMore /\ q.loadingMoreSaved = p.loadingMoreSaved /\ q.saving = p.saving
        /\ q.savingInterests = FALSE
    BY <1>1, <2>1, <2>2 DEF IsPage
  <2>6. PageFields'
    BY <1>1, <2>2, <2>4, <2>5, RowsKept DEF PageFields
  <2> QED
    BY <1>2, <2>1, <2>2, <2>4, <2>5, <2>6, DropStep
<1> QED
  BY <1>3, <1>4

\* Every answer that is taken leaves everything well formed.
LEMMA GetAnswerShape ==
    ASSUME PageShaped, NEW c \in Calls, GetAnswer(c)
    PROVE  PageShaped'
<1>1. calls[c] # Nil /\ calls[c].step = "ANSWERED" /\ UNCHANGED server
  BY DEF GetAnswer
<1>2. ListAnswered(c) \/ SavedAnswered(c) \/ ToggleAnswered(c) \/ InterestsAnswered(c)
  BY DEF GetAnswer
<1> QED
  BY <1>1, <1>2, ListAnsweredShape, SavedAnsweredShape, ToggleAnsweredShape, InterestsAnsweredShape

\* Everything that the user does leaves everything well formed.
LEMMA UserStepShape ==
    ASSUME PageShaped, UserStep
    PROVE  PageShaped'
<1>1. Click
  BY DEF UserStep
<1>2. PICK c \in Calls : Free(c) /\
           \/ \E tab \in Categories : SelectCategory(tab, c)
           \/ ShowExplore(c) \/ ShowSaved(c) \/ LoadMore(c) \/ LoadMoreSaved(c)
           \/ \E i \in Items : ToggleSaved(i, c)
           \/ \E t \in Interests : SaveInterests(t, c)
  BY DEF UserStep
<1> QED
  BY <1>1, <1>2, SelectCategoryShape, ShowExploreShape, ShowSavedShape, LoadMoreShape, LoadMoreSavedShape,
     ToggleSavedShape, SaveInterestsShape

\* Everything is well formed at first.
LEMMA PageInitShape == PageInit => PageShaped
<1> SUFFICES ASSUME PageInit PROVE PageShaped
  OBVIOUS
<1> USE DEF PageInit
<1>1. StateTypes
  BY DEF StateTypes, NoRow
<1>2. PICK c \in Calls : calls = [x \in Calls |-> IF x = c THEN Call("LIST", NoPage.tab, Nil, FALSE) ELSE Nil]
  OBVIOUS
<1>3. NoPage.tab \in Categories
  BY PageAssumption DEF NoPage
<1>4. IsPage(NoPage)
  BY DEF IsPage, NoPage
<1>5. PICK p, q : p = NoPage /\ q = Exploring(p)
  OBVIOUS
<1>6. /\ IsPage(q) /\ q.view = "EXPLORE" /\ q.tab = p.tab /\ q.status = "loading" /\ q.items = <<>>
      /\ q.cursor = Nil /\ q.loadingMore = p.loadingMore /\ SameSaved(p, q) /\ SameBusy(p, q)
      /\ q.refs = p.refs
  BY <1>4, <1>5, ExploringFields
<1>7. /\ p.loadingMore = FALSE /\ p.refs = [i \in Items |-> NoRow] /\ p.savedStatus = "idle" /\ p.savedItems = <<>>
      /\ p.savedCursor = Nil /\ p.loadingMoreSaved = FALSE /\ p.saving = {} /\ p.savingInterests = FALSE
      /\ p.tab \in Categories
  BY <1>3, <1>5 DEF NoPage
<1>8. page = q
  BY <1>5
<1>9. page.refs \in [Items -> 0 .. created]
  BY <1>6, <1>7, <1>8 DEF NoRow
<1>10. PageFields
  BY <1>6, <1>7, <1>8, <1>9, NoRows DEF PageFields, SameSaved, SameBusy, Statuses
<1>11. PICK new, tab : new = calls[c] /\ tab = NoPage.tab
  OBVIOUS
<1>12. Made(new, "LIST", tab, Nil)
  BY <1>2, <1>11 DEF Made
<1>13. /\ IsCallRow(new) /\ new.op = "LIST" /\ new.about = tab /\ new.cursor = Nil
       /\ new.more \in BOOLEAN /\ (new.more <=> Nil # Nil) /\ new.current \in BOOLEAN /\ new.current
       /\ new.step = "SENT" /\ new.answer.ok \in BOOLEAN /\ ~new.answer.ok
  BY <1>12, NewCallFields
<1>14. \A x \in Calls \ {c} : calls[x] = Nil
  BY <1>2
<1>15. CallWellFormed(new)
  BY <1>3, <1>11, <1>13 DEF CallWellFormed, ListCall
<1>16. CallTypes
  BY <1>11, <1>14, <1>15 DEF CallTypes
<1>17. CurrentCalls
  <2>1. Awaited(new)
    BY <1>5, <1>6, <1>8, <1>11, <1>13 DEF Awaited
  <2> QED
    BY <1>11, <1>14, <2>1 DEF CurrentCalls
<1> QED
  BY <1>1, <1>10, <1>16, <1>17 DEF PageShaped

\* It stays so when nothing happens.
LEMMA ShapeStutters == PageShaped /\ UNCHANGED pageVars => PageShaped'
<1> SUFFICES ASSUME PageShaped, UNCHANGED pageVars PROVE PageShaped'
  OBVIOUS
<1> USE DEF pageVars
<1>1. StateTypes /\ CallTypes /\ CurrentCalls /\ PageFields /\ created \in Nat
  BY DEF PageShaped, StateTypes
<1>2. StateTypes'
  BY <1>1 DEF StateTypes
<1>3. PageFields'
  BY <1>1, PageFieldsKept
<1>4. ASSUME NEW x \in Calls, calls[x] # Nil PROVE CallWellFormed(calls[x])'
  <2>1. PICK call : call = calls[x]
    OBVIOUS
  <2>2. CallWellFormed(call)
    BY <1>1, <1>4, <2>1 DEF CallTypes
  <2>3. StillBusy(call)
    BY <2>2 DEF StillBusy, CallWellFormed, SaveCall, DeleteCall, InterestsCall
  <2>4. CallWellFormed(call)'
    BY <1>1, <2>2, <2>3, CallTypedKept
  <2> QED
    BY <2>1, <2>4
<1>5. CallTypes'
  BY <1>4 DEF CallTypes
<1>6. CurrentCalls'
  BY <1>1 DEF CurrentCalls, Awaited, Clash, IsToggle, ItemOf
<1> QED
  BY <1>2, <1>3, <1>5, <1>6 DEF PageShaped

\* Every step leaves everything well formed.
LEMMA ShapeStep == PageShaped /\ [PageNext]_pageVars => PageShaped'
BY UserStepShape, HandleCallShape, GetAnswerShape, LoseAnswerShape, ElsewhereShape, ShapeStutters DEF PageNext

\* The type invariant is a part of being well formed.
LEMMA ShapeTypes == PageShaped => PageTypeOK
<1> SUFFICES ASSUME PageShaped PROVE PageTypeOK
  OBVIOUS
<1>1. StateTypes /\ CallTypes /\ PageFields
  BY DEF PageShaped
<1>2. \A c \in Calls : calls[c] # Nil =>
           /\ calls[c].step \in {"SENT", "LISTED", "CACHED", "CONFLICT", "ANSWERED"}
           /\ calls[c].op = "SAVE" => calls[c].about \in page.saving
           /\ calls[c].op = "DELETE" => calls[c].about.item \in page.saving
           /\ calls[c].op = "INTERESTS" => page.savingInterests
  BY <1>1 DEF CallTypes, CallWellFormed, ListCall, SavedCall, SaveCall, DeleteCall, InterestsCall
<1> QED
  BY <1>1, <1>2 DEF PageTypeOK, StateTypes, PageFields, Statuses

\* The variables always have their types, a mutation under way keeps its item
\* busy (savingItems in DiscoverPage.tsx), and analytics counts the rows that
\* were created (saveItem).
THEOREM PageTypeCorrect == PageSpec => []PageTypeOK
<1>1. PageInit => PageShaped
  BY PageInitShape
<1>2. PageShaped /\ [PageNext]_pageVars => PageShaped'
  BY ShapeStep
<1>3. PageShaped => PageTypeOK
  BY ShapeTypes
<1> QED
  BY <1>1, <1>2, <1>3, PTL DEF PageSpec

-----------------------------------------------------------------------------
(* What a step does to the lists shown                                     *)

\* A call that only ceases to be waited for.
SameCall(call, new) ==
    /\ new.op = call.op /\ new.about = call.about /\ new.cursor = call.cursor
    /\ new.step = call.step /\ new.basis = call.basis /\ new.answer = call.answer
    /\ new.current => call.current

\* A call that is kept differs in being waited for at most.
LEMMA KeptSame ==
    ASSUME NEW call, IsCallRow(call), NEW new, IsKept(call, new), new # Nil
    PROVE  SameCall(call, new)
<1>1. CASE new = call
  BY <1>1 DEF SameCall
<1>2. CASE new = [call EXCEPT !.current = FALSE]
  BY <1>2 DEF SameCall, IsCallRow
<1> QED
  BY <1>1, <1>2 DEF IsKept

\* The calls are those there were and calls that are not served yet; a row
\* that is asked to be removed is one that the page refers to.
CallsFrame ==
    \A x \in Calls : calls'[x] # Nil =>
        \/ calls[x] # Nil /\ SameCall(calls[x], calls'[x])
        \/ /\ ~calls'[x].answer.ok
           /\ calls'[x].op = "DELETE" =>
                  \E i \in Items : /\ page.refs[i] # NoRow
                                   /\ calls'[x].about.item = i /\ calls'[x].about.id = page.refs[i]

\* Dropping a call leaves the others alone.
LEMMA DropFrame ==
    ASSUME StateTypes, NEW c \in Calls, calls' = [calls EXCEPT ![c] = Nil]
    PROVE  CallsFrame
<1>1. calls'[c] = Nil /\ \A x \in Calls \ {c} : calls'[x] = calls[x]
  BY DEF StateTypes
<1> QED
  BY <1>1 DEF CallsFrame, SameCall

\* A call that is added is not served yet.
LEMMA AddFrame ==
    ASSUME StateTypes, NEW c \in Calls, \A x \in Calls \ {c} : calls'[x] = calls[x],
           NEW op, NEW about, NEW cursor, Made(calls'[c], op, about, cursor),
           op = "DELETE" => \E i \in Items : page.refs[i] # NoRow /\ about.item = i /\ about.id = page.refs[i]
    PROVE  CallsFrame
<1>1. PICK new : new = calls'[c]
  OBVIOUS
<1>2. new.op = op /\ new.about = about /\ ~new.answer.ok
  BY <1>1, NewCallFields
<1> QED
  BY <1>1, <1>2 DEF CallsFrame, SameCall

\* Asking for a list again adds one call and keeps or drops the others.
LEMMA ReloadFrame ==
    ASSUME StateTypes, CallTypes, NEW c \in Calls, NEW op \in {"LIST", "SAVED"}, NEW about,
           NEW f, f = Reloaded(op, c, about),
           calls' = f \/ \E other \in {"LIST", "SAVED"} \ {op} : calls' = Left(other, f)
    PROVE  CallsFrame
<1>1. Made(f[c], op, about, Nil) /\ \A x \in Calls \ {c} : IsKept(calls[x], f[x])
  BY ReloadedKeeps
<1>2. PICK new : new = f[c]
  OBVIOUS
<1>3. new.op = op /\ ~new.answer.ok
  BY <1>1, <1>2, NewCallFields
<1>4. \A x \in Calls : calls'[x] = Nil \/ calls'[x] = f[x]
  <2>1. CASE \E other \in {"LIST", "SAVED"} \ {op} : calls' = Left(other, f)
    BY <2>1, LeftKeeps
  <2> QED
    BY <2>1
<1>5. ASSUME NEW x \in Calls \ {c}, calls'[x] # Nil PROVE calls[x] # Nil /\ SameCall(calls[x], calls'[x])
  <2>1. PICK call, kept : call = calls[x] /\ kept = f[x]
    OBVIOUS
  <2>2. IsKept(call, kept) /\ kept # Nil /\ kept = calls'[x]
    BY <1>1, <1>4, <1>5, <2>1
  <2>3. call # Nil
    BY <2>2 DEF IsKept
  <2>4. IsCallRow(call)
    BY <2>1, <2>3 DEF CallTypes, CallWellFormed
  <2>5. SameCall(call, kept)
    BY <2>2, <2>4, KeptSame
  <2> QED
    BY <2>1, <2>2, <2>3, <2>5
<1>6. ASSUME calls'[c] # Nil PROVE ~calls'[c].answer.ok /\ calls'[c].op # "DELETE"
  BY <1>2, <1>3, <1>4, <1>6
<1> QED
  BY <1>5, <1>6 DEF CallsFrame

\* The lists shown are those there were, or they are asked for again.
ListFrame ==
    \/ /\ page'.tab = page.tab /\ page'.items = page.items /\ page'.cursor = page.cursor /\ basis' = basis
       /\ page'.status \in {page.status, "error"}
    \/ page'.items = <<>> /\ basis' = Nil

SavedFrame ==
    \/ /\ page'.savedItems = page.savedItems /\ page'.savedCursor = page.savedCursor
       /\ page'.savedStatus \in {page.savedStatus, "error"}
    \/ page'.savedItems = <<>> /\ page'.savedStatus = "loading"

PageFrame ==
    UNCHANGED <<server, known>> /\ page'.refs = page.refs /\ ListFrame /\ SavedFrame /\ CallsFrame

\* What the user does either keeps a list or asks for it again.
LEMMA UserStepFrame ==
    ASSUME PageShaped, UserStep
    PROVE  PageFrame
<1>1. StateTypes /\ CallTypes /\ PageFields /\ IsPage(page)
  BY DEF PageShaped, PageFields
<1>2. UNCHANGED <<server, known>>
  BY DEF UserStep, Click
<1>3. PICK p, q : p = page /\ q = page'
  OBVIOUS
<1>4. ASSUME NEW c \in Calls, NEW tab \in Categories, SelectCategory(tab, c) PROVE PageFrame
  <2>1. PICK r : r = [page EXCEPT !.tab = tab]
    OBVIOUS
  <2>2. IsPage(r) /\ SameSaved(p, r) /\ SameBusy(p, r) /\ r.refs = p.refs
    BY <1>1, <1>3, <2>1, TabFields
  <2>3. q = Exploring(r) /\ basis' = Nil
    BY <1>3, <1>4, <2>1 DEF SelectCategory
  <2>4. q.items = <<>> /\ SameSaved(r, q) /\ q.refs = r.refs
    BY <2>2, <2>3, ExploringFields
  <2>5. PICK f : f = Reloaded("LIST", c, tab)
    OBVIOUS
  <2>6. CallsFrame
    BY <1>1, <1>4, <2>5, ReloadFrame DEF SelectCategory
  <2> QED
    BY <1>2, <1>3, <2>2, <2>3, <2>4, <2>6 DEF PageFrame, ListFrame, SavedFrame, SameSaved
<1>5. ASSUME NEW c \in Calls, ShowExplore(c) PROVE PageFrame
  <2>1. q = Exploring(p) /\ basis' = Nil
    BY <1>3, <1>5 DEF ShowExplore
  <2>2. q.items = <<>> /\ SameSaved(p, q) /\ q.refs = p.refs
    BY <1>1, <1>3, <2>1, ExploringFields
  <2>3. PICK f : f = Reloaded("LIST", c, page.tab)
    OBVIOUS
  <2>4. CallsFrame
    <3>1. calls' = Left("SAVED", f) /\ "SAVED" \in {"LIST", "SAVED"} \ {"LIST"}
      BY <1>5, <2>3 DEF ShowExplore
    <3>2. PICK tab : tab = page.tab
      OBVIOUS
    <3> QED
      BY <1>1, <2>3, <3>1, <3>2, ReloadFrame
  <2> QED
    BY <1>2, <1>3, <2>1, <2>2, <2>4 DEF PageFrame, ListFrame, SavedFrame, SameSaved
<1>6. ASSUME NEW c \in Calls, ShowSaved(c) PROVE PageFrame
  <2>1. q = Saving(p) /\ basis' = basis
    BY <1>3, <1>6 DEF ShowSaved
  <2>2. q.savedItems = <<>> /\ q.savedStatus = "loading" /\ SameList(p, q) /\ q.refs = p.refs
    BY <1>1, <1>3, <2>1, SavingFields
  <2>3. PICK f : f = Reloaded("SAVED", c, Nil)
    OBVIOUS
  <2>4. CallsFrame
    <3>1. calls' = Left("LIST", f) /\ "LIST" \in {"LIST", "SAVED"} \ {"SAVED"}
      BY <1>6, <2>3 DEF ShowSaved
    <3> QED
      BY <1>1, <2>3, <3>1, ReloadFrame
  <2> QED
    BY <1>2, <1>3, <2>1, <2>2, <2>4 DEF PageFrame, ListFrame, SavedFrame, SameList
<1>7. ASSUME BusyWith(p, q), basis' = basis, CallsFrame PROVE PageFrame
  <2>1. /\ q.tab = p.tab /\ q.status = p.status /\ q.items = p.items
        /\ q.cursor = p.cursor /\ q.refs = p.refs /\ q.savedStatus = p.savedStatus
        /\ q.savedItems = p.savedItems /\ q.savedCursor = p.savedCursor
    BY <1>1, <1>3, <1>7, BusyFields
  <2> QED
    BY <1>2, <1>3, <1>7, <2>1 DEF PageFrame, ListFrame, SavedFrame
<1>8. ASSUME NEW c \in Calls, LoadMore(c) PROVE PageFrame
  <2>1. BusyWith(p, q) /\ basis' = basis
    BY <1>3, <1>8 DEF LoadMore, BusyWith
  <2>2. PICK tab, cursor : tab = page.tab /\ cursor = page.cursor
    OBVIOUS
  <2>3. Made(calls'[c], "LIST", tab, cursor) /\ \A x \in Calls \ {c} : calls'[x] = calls[x]
    BY <1>1, <1>8, <2>2 DEF LoadMore, Made, StateTypes
  <2>4. CallsFrame
    BY <1>1, <2>3, AddFrame
  <2> QED
    BY <1>7, <2>1, <2>4
<1>9. ASSUME NEW c \in Calls, LoadMoreSaved(c) PROVE PageFrame
  <2>1. BusyWith(p, q) /\ basis' = basis
    BY <1>3, <1>9 DEF LoadMoreSaved, BusyWith
  <2>2. PICK cursor : cursor = page.savedCursor
    OBVIOUS
  <2>3. Made(calls'[c], "SAVED", Nil, cursor) /\ \A x \in Calls \ {c} : calls'[x] = calls[x]
    BY <1>1, <1>9, <2>2 DEF LoadMoreSaved, Made, StateTypes
  <2>4. CallsFrame
    BY <1>1, <2>3, AddFrame
  <2> QED
    BY <1>7, <2>1, <2>4
<1>10. ASSUME NEW c \in Calls, NEW i \in Items, ToggleSaved(i, c) PROVE PageFrame
  <2>1. BusyWith(p, q) /\ basis' = basis
    BY <1>3, <1>10 DEF ToggleSaved, BusyWith
  <2>2. PICK row : row = [item |-> i, id |-> page.refs[i]]
    OBVIOUS
  <2>3. /\ \/ page.refs[i] # NoRow /\ Made(calls'[c], "DELETE", row, Nil)
           \/ Made(calls'[c], "SAVE", i, Nil)
        /\ \A x \in Calls \ {c} : calls'[x] = calls[x]
    BY <1>1, <1>10, <2>2 DEF ToggleSaved, Made, StateTypes
  <2>4. row.item = i /\ row.id = page.refs[i]
    BY <2>2
  <2>5. CallsFrame
    <3>1. CASE Made(calls'[c], "SAVE", i, Nil)
      BY <1>1, <2>3, <3>1, AddFrame
    <3>2. CASE page.refs[i] # NoRow /\ Made(calls'[c], "DELETE", row, Nil)
      BY <1>1, <2>3, <2>4, <3>2, AddFrame
    <3> QED
      BY <2>3, <3>1, <3>2
  <2> QED
    BY <1>7, <2>1, <2>5
<1>11. ASSUME NEW c \in Calls, NEW t \in Interests, SaveInterests(t, c) PROVE PageFrame
  <2>1. BusyWith(p, q) /\ basis' = basis
    BY <1>3, <1>11 DEF SaveInterests, BusyWith
  <2>2. Made(calls'[c], "INTERESTS", t, Nil) /\ \A x \in Calls \ {c} : calls'[x] = calls[x]
    BY <1>1, <1>11 DEF SaveInterests, Made, StateTypes
  <2>3. CallsFrame
    BY <1>1, <2>2, AddFrame
  <2> QED
    BY <1>7, <2>1, <2>3
<1> QED
  BY <1>4, <1>5, <1>6, <1>8, <1>9, <1>10, <1>11 DEF UserStep

\* The page shows what it waited for.
ListTaken(call) ==
    LET a == call.answer IN
    /\ call.op = "LIST" /\ call.current /\ a.ok /\ call.step = "ANSWERED"
    /\ UNCHANGED <<server, known>> /\ SavedFrame /\ CallsFrame
    /\ page'.tab = page.tab /\ page'.cursor = a.cursor
    /\ \/ /\ ~call.more /\ page'.items = a.items /\ basis' = call.basis
          /\ page'.refs = WithRefs(NoRefs, OnlySaved(RefsIn(a)))
       \/ /\ call.more /\ page'.items = Merge(page.items, a.items)
          /\ basis' = IF basis # Nil /\ basis.feed # call.basis.feed THEN Nil ELSE basis
          /\ page'.refs = WithRefs(page.refs, OnlySaved(RefsIn(a)))

SavedTaken(call) ==
    LET a == call.answer IN
    /\ call.op = "SAVED" /\ call.current /\ a.ok
    /\ UNCHANGED server /\ ListFrame /\ CallsFrame
    /\ page'.savedCursor = a.cursor /\ page'.savedStatus = "ready"
    /\ \/ /\ ~call.more /\ page'.savedItems = a.items /\ known' = call.basis
          /\ page'.refs = WithRefs(NoRefs, Rows(a.items))
       \/ /\ call.more /\ page'.savedItems = Merge(page.savedItems, a.items) /\ known' = known
          /\ page'.refs = WithRefs(page.refs, Rows(a.items))

ToggleTaken(call) ==
    LET i == ItemOf(call)  a == call.answer IN
    /\ IsToggle(call) /\ a.ok /\ i \in Items
    /\ UNCHANGED <<server, known>> /\ ListFrame /\ CallsFrame
    /\ page'.savedStatus = page.savedStatus /\ page'.savedCursor = page.savedCursor
    /\ \/ /\ call.op = "DELETE" /\ call.about \in AnyRow /\ page'.refs = [page.refs EXCEPT ![i] = NoRow]
          /\ page'.savedItems = Without(page.savedItems, call.about.id)
       \/ /\ call.op = "SAVE"
          /\ \E id \in 1 .. created :
                /\ a.items = <<[item |-> i, id |-> id]>> /\ page'.refs = [page.refs EXCEPT ![i] = id]
                /\ page'.savedItems = <<[item |-> i, id |-> id]>> \o Without(page.savedItems, id)

\* The answer to a list request is shown, or changes no list.
LEMMA ListAnsweredIs ==
    ASSUME PageShaped, NEW c \in Calls, calls[c] # Nil, calls[c].step = "ANSWERED", ListAnswered(c), UNCHANGED server
    PROVE  PageFrame \/ ListTaken(calls[c])
<1>1. StateTypes /\ PageFields /\ CurrentCalls
  BY DEF PageShaped
<1>2. calls[c].op = "LIST" /\ known' = known /\ CallsFrame
  BY <1>1, DropFrame DEF ListAnswered, IsCall
<1>3. PICK p, q, a : p = page /\ q = page' /\ a = calls[c].answer
  OBVIOUS
<1>4. IsPage(p) /\ p.loadingMore \in BOOLEAN /\ p.loadingMoreSaved \in BOOLEAN
  BY <1>1, <1>3 DEF PageFields
<1>5. CASE ~IsLast(c) /\ UNCHANGED <<page, basis>>
  BY <1>2, <1>5 DEF PageFrame, ListFrame, SavedFrame
<1>6. CASE /\ IsLast(c) /\ ~calls[c].answer.ok /\ UNCHANGED basis
           /\ page' = IF calls[c].more THEN [page EXCEPT !.loadingMore = FALSE]
                      ELSE [page EXCEPT !.status = "error"]
  <2>1. ListFailed(p, q)
    BY <1>3, <1>4, <1>6 DEF ListFailed, IsPage
  <2>2. /\ q.tab = p.tab /\ q.status \in {p.status, "error"} /\ q.items = p.items /\ q.cursor = p.cursor
        /\ q.refs = p.refs /\ SameSaved(p, q)
    BY <1>4, <2>1, ListFailedFields
  <2>3. UNCHANGED basis
    BY <1>6
  <2> QED
    BY <1>2, <1>3, <2>2, <2>3 DEF PageFrame, ListFrame, SavedFrame, SameSaved
<1>7. CASE /\ IsLast(c) /\ calls[c].answer.ok /\ ~calls[c].more
           /\ page' = [page EXCEPT !.items = a.items, !.cursor = a.cursor, !.status = "ready",
                              !.refs = WithRefs(NoRefs, OnlySaved(RefsIn(a)))]
           /\ basis' = calls[c].basis
  <2>1. PICK refs, items : refs = WithRefs(NoRefs, OnlySaved(RefsIn(a))) /\ items = a.items
    OBVIOUS
  <2>2. ListShown(p, q, items, a.cursor, refs)
    BY <1>3, <1>7, <2>1 DEF ListShown
  <2>3. q.tab = p.tab /\ q.items = items /\ q.cursor = a.cursor /\ q.refs = refs /\ SameSaved(p, q)
    BY <1>4, <2>2, ListShownFields
  <2>4. calls[c].current /\ calls[c].answer.ok /\ ~calls[c].more /\ basis' = calls[c].basis
    BY <1>7 DEF IsLast
  <2> QED
    BY <1>2, <1>3, <2>1, <2>3, <2>4 DEF ListTaken, SavedFrame, SameSaved
<1>8. CASE /\ IsLast(c) /\ calls[c].answer.ok /\ calls[c].more
           /\ page' = [page EXCEPT !.items = Merge(page.items, a.items), !.cursor = a.cursor, !.loadingMore = FALSE,
                              !.refs = WithRefs(page.refs, OnlySaved(RefsIn(a)))]
           /\ basis' = IF basis # Nil /\ basis.feed # calls[c].basis.feed THEN Nil ELSE basis
  <2>1. PICK refs, items : refs = WithRefs(page.refs, OnlySaved(RefsIn(a))) /\ items = Merge(page.items, a.items)
    OBVIOUS
  <2>2. page.status = "ready"
    BY <1>1, <1>2, <1>8 DEF CurrentCalls, Awaited, IsLast
  <2>3. ListShown(p, q, items, a.cursor, refs)
    BY <1>3, <1>8, <2>1, <2>2 DEF ListShown
  <2>4. q.tab = p.tab /\ q.items = items /\ q.cursor = a.cursor /\ q.refs = refs /\ SameSaved(p, q)
    BY <1>4, <2>3, ListShownFields
  <2>5. /\ calls[c].current /\ calls[c].answer.ok /\ calls[c].more
        /\ basis' = IF basis # Nil /\ basis.feed # calls[c].basis.feed THEN Nil ELSE basis
    BY <1>8 DEF IsLast
  <2> QED
    BY <1>2, <1>3, <2>1, <2>4, <2>5 DEF ListTaken, SavedFrame, SameSaved
<1> QED
  BY <1>3, <1>5, <1>6, <1>7, <1>8 DEF ListAnswered

\* So is the answer to a request for saved items.
LEMMA SavedAnsweredIs ==
    ASSUME PageShaped, NEW c \in Calls, calls[c] # Nil, calls[c].step = "ANSWERED", SavedAnswered(c), UNCHANGED server
    PROVE  PageFrame \/ SavedTaken(calls[c])
<1>1. StateTypes /\ PageFields /\ CurrentCalls
  BY DEF PageShaped
<1>2. calls[c].op = "SAVED" /\ basis' = basis /\ CallsFrame
  BY <1>1, DropFrame DEF SavedAnswered, IsCall
<1>3. PICK p, q, a : p = page /\ q = page' /\ a = calls[c].answer
  OBVIOUS
<1>4. IsPage(p) /\ p.loadingMore \in BOOLEAN /\ p.loadingMoreSaved \in BOOLEAN
  BY <1>1, <1>3 DEF PageFields
<1>5. CASE ~IsLast(c) /\ UNCHANGED <<page, known>>
  BY <1>2, <1>5 DEF PageFrame, ListFrame, SavedFrame
<1>6. CASE /\ IsLast(c) /\ ~calls[c].answer.ok /\ UNCHANGED known
           /\ page' = IF calls[c].more THEN [page EXCEPT !.loadingMoreSaved = FALSE]
                      ELSE [page EXCEPT !.savedStatus = "error"]
  <2>1. SavedFailed(p, q)
    BY <1>3, <1>4, <1>6 DEF SavedFailed, IsPage
  <2>2. /\ q.savedStatus \in {p.savedStatus, "error"} /\ q.savedItems = p.savedItems
        /\ q.savedCursor = p.savedCursor /\ q.refs = p.refs /\ SameList(p, q)
    BY <1>4, <2>1, SavedFailedFields
  <2>3. UNCHANGED known
    BY <1>6
  <2> QED
    BY <1>2, <1>3, <2>2, <2>3 DEF PageFrame, ListFrame, SavedFrame, SameList
<1>7. CASE /\ IsLast(c) /\ calls[c].answer.ok /\ ~calls[c].more
           /\ page' = [page EXCEPT !.savedItems = a.items, !.savedCursor = a.cursor, !.savedStatus = "ready",
                              !.refs = WithRefs(NoRefs, Rows(a.items))]
           /\ known' = calls[c].basis
  <2>1. PICK refs, items : refs = WithRefs(NoRefs, Rows(a.items)) /\ items = a.items
    OBVIOUS
  <2>2. SavedShown(p, q, items, a.cursor, refs)
    BY <1>3, <1>7, <2>1 DEF SavedShown
  <2>3. /\ q.savedItems = items /\ q.savedCursor = a.cursor /\ q.savedStatus = "ready"
        /\ q.refs = refs /\ SameList(p, q)
    BY <1>4, <2>2, SavedShownFields
  <2>4. calls[c].current /\ calls[c].answer.ok /\ ~calls[c].more /\ known' = calls[c].basis
    BY <1>7 DEF IsLast
  <2> QED
    BY <1>2, <1>3, <2>1, <2>3, <2>4 DEF SavedTaken, ListFrame, SameList
<1>8. CASE /\ IsLast(c) /\ calls[c].answer.ok /\ calls[c].more
           /\ page' = [page EXCEPT !.savedItems = Merge(page.savedItems, a.items), !.savedCursor = a.cursor,
                              !.loadingMoreSaved = FALSE, !.refs = WithRefs(page.refs, Rows(a.items))]
           /\ known' = known
  <2>1. PICK refs, items : refs = WithRefs(page.refs, Rows(a.items)) /\ items = Merge(page.savedItems, a.items)
    OBVIOUS
  <2>2. page.savedStatus = "ready"
    BY <1>1, <1>2, <1>8 DEF CurrentCalls, Awaited, IsLast
  <2>3. SavedShown(p, q, items, a.cursor, refs)
    BY <1>3, <1>8, <2>1, <2>2 DEF SavedShown
  <2>4. /\ q.savedItems = items /\ q.savedCursor = a.cursor /\ q.savedStatus = "ready"
        /\ q.refs = refs /\ SameList(p, q)
    BY <1>4, <2>3, SavedShownFields
  <2>5. calls[c].current /\ calls[c].answer.ok /\ calls[c].more /\ known' = known
    BY <1>8 DEF IsLast
  <2> QED
    BY <1>2, <1>3, <2>1, <2>4, <2>5 DEF SavedTaken, ListFrame, SameList
<1> QED
  BY <1>3, <1>5, <1>6, <1>7, <1>8 DEF SavedAnswered

\* The answer to a toggle is shown, or changes no list.
LEMMA ToggleAnsweredIs ==
    ASSUME PageShaped, NEW c \in Calls, calls[c] # Nil, ToggleAnswered(c), UNCHANGED server
    PROVE  PageFrame \/ ToggleTaken(calls[c])
<1>1. StateTypes /\ PageFields
  BY DEF PageShaped
<1>2. PICK p, q, i, a, n : p = page /\ q = page' /\ i = ItemOf(calls[c]) /\ a = calls[c].answer /\ n = 0 .. created
  OBVIOUS
<1>3. IsToggle(calls[c]) /\ i \in Items /\ CallsFrame /\ UNCHANGED <<known, basis>>
  BY <1>1, <1>2, ToggleIs, DropFrame DEF ToggleAnswered
<1>4. IsPage(p) /\ p.refs \in [Items -> n]
  BY <1>1, <1>2 DEF PageFields
<1>5. ASSUME NEW ref, NEW rows, Toggled(p, q, i, ref, rows)
      PROVE  /\ SameList(p, q) /\ q.savedStatus = p.savedStatus /\ q.savedCursor = p.savedCursor
             /\ q.savedItems = rows /\ q.refs = [p.refs EXCEPT ![i] = ref]
  BY <1>3, <1>4, <1>5, ToggledFields
<1>6. CASE ~a.ok /\ Toggled(p, q, i, page.refs[i], page.savedItems)
  <2>1. /\ SameList(p, q) /\ q.savedStatus = p.savedStatus /\ q.savedCursor = p.savedCursor
        /\ q.savedItems = page.savedItems /\ q.refs = [p.refs EXCEPT ![i] = page.refs[i]]
    BY <1>5, <1>6
  <2>2. q.refs = page.refs
    BY <1>2, <1>4, <2>1
  <2> QED
    BY <1>2, <1>3, <2>1, <2>2 DEF PageFrame, ListFrame, SavedFrame, SameList
<1>7. CASE /\ a.ok /\ calls[c].op = "DELETE" /\ calls[c].about \in AnyRow
           /\ Toggled(p, q, i, NoRow, Without(page.savedItems, calls[c].about.id))
  <2>1. /\ SameList(p, q) /\ q.savedStatus = p.savedStatus /\ q.savedCursor = p.savedCursor
        /\ q.savedItems = Without(page.savedItems, calls[c].about.id) /\ q.refs = [p.refs EXCEPT ![i] = NoRow]
    BY <1>5, <1>7
  <2> QED
    BY <1>2, <1>3, <1>7, <2>1 DEF ToggleTaken, ListFrame, SameList
<1>8. ASSUME a.ok, calls[c].op = "SAVE", NEW id \in 1 .. created, a.items = <<[item |-> i, id |-> id]>>,
             Toggled(p, q, i, id, <<[item |-> i, id |-> id]>> \o Without(page.savedItems, id))
      PROVE  ToggleTaken(calls[c])
  <2>1. /\ SameList(p, q) /\ q.savedStatus = p.savedStatus /\ q.savedCursor = p.savedCursor
        /\ q.savedItems = <<[item |-> i, id |-> id]>> \o Without(page.savedItems, id)
        /\ q.refs = [p.refs EXCEPT ![i] = id]
    BY <1>5, <1>8
  <2> QED
    BY <1>2, <1>3, <1>8, <2>1 DEF ToggleTaken, ListFrame, SameList
<1> QED
  BY <1>2, <1>6, <1>7, <1>8, ToggleIs

\* The answer to a choice of interests shows nothing by itself.
LEMMA InterestsAnsweredIs ==
    ASSUME PageShaped, NEW c \in Calls, calls[c] # Nil, InterestsAnswered(c), UNCHANGED server
    PROVE  PageFrame
<1>1. StateTypes /\ CallTypes /\ PageFields /\ IsPage(page) /\ known' = known
  BY DEF PageShaped, PageFields, InterestsAnswered
<1>2. PICK p, q : p = page /\ q = page'
  OBVIOUS
<1>3. CASE calls[c].answer.ok /\ page.view = "EXPLORE"
  <2>1. PICK r, f, tab : r = Exploring(p) /\ f = Reloaded("LIST", c, page.tab) /\ tab = page.tab
    OBVIOUS
  <2>2. calls' = f /\ q = [r EXCEPT !.savingInterests = FALSE] /\ basis' = Nil
    BY <1>2, <1>3, <2>1 DEF InterestsAnswered
  <2>3. IsPage(r) /\ r.items = <<>> /\ SameSaved(p, r) /\ r.refs = p.refs
    BY <1>1, <1>2, <2>1, ExploringFields
  <2>4. BusyWith(r, q)
    BY <2>2 DEF BusyWith
  <2>5. /\ q.items = r.items /\ q.refs = r.refs /\ q.savedStatus = r.savedStatus
        /\ q.savedItems = r.savedItems /\ q.savedCursor = r.savedCursor
    BY <2>3, <2>4, BusyFields
  <2>6. CallsFrame
    BY <1>1, <2>1, <2>2, ReloadFrame
  <2> QED
    BY <1>1, <1>2, <2>2, <2>3, <2>5, <2>6 DEF PageFrame, ListFrame, SavedFrame, SameSaved
<1>4. CASE ~ (calls[c].answer.ok /\ page.view = "EXPLORE")
  <2>1. calls' = [calls EXCEPT ![c] = Nil] /\ BusyWith(p, q) /\ basis' = basis
    BY <1>2, <1>4 DEF InterestsAnswered, BusyWith
  <2>2. /\ q.tab = p.tab /\ q.status = p.status /\ q.items = p.items
        /\ q.cursor = p.cursor /\ q.refs = p.refs /\ q.savedStatus = p.savedStatus
        /\ q.savedItems = p.savedItems /\ q.savedCursor = p.savedCursor
    BY <1>1, <1>2, <2>1, BusyFields
  <2>3. CallsFrame
    BY <1>1, <2>1, DropFrame
  <2> QED
    BY <1>1, <1>2, <2>1, <2>2, <2>3 DEF PageFrame, ListFrame, SavedFrame
<1> QED
  BY <1>3, <1>4

\* What the page makes of an answer.
LEMMA GetAnswerIs ==
    ASSUME PageShaped, NEW c \in Calls, GetAnswer(c)
    PROVE  /\ calls[c] # Nil
           /\ PageFrame \/ ListTaken(calls[c]) \/ SavedTaken(calls[c]) \/ ToggleTaken(calls[c])
<1>1. calls[c] # Nil /\ calls[c].step = "ANSWERED" /\ UNCHANGED server
  BY DEF GetAnswer
<1>2. ListAnswered(c) \/ SavedAnswered(c) \/ ToggleAnswered(c) \/ InterestsAnswered(c)
  BY DEF GetAnswer
<1> QED
  BY <1>1, <1>2, ListAnsweredIs, SavedAnsweredIs, ToggleAnsweredIs, InterestsAnsweredIs

-----------------------------------------------------------------------------
(* The lists are sound                                                     *)

\* The keys of an item are a sequence of numbers.
LEMMA RankedSeq ==
    ASSUME NEW i \in Items, NEW T, NEW interest \in Interests
    PROVE  Ranked(i, T, interest) \in Seq(Int)
<1>1. Ranked(i, T, interest) \in [1 .. Width(interest) -> Int] /\ Width(interest) \in Nat
  BY RankedKeys
<1> QED
  BY <1>1

\* The page after the cursor goes on with the ranking.
LEMMA NextPageRanked ==
    ASSUME NEW F \in Feeds, NEW tab \in Categories, NEW interest \in Interests, NEW items \in Seq(Items), NEW cursor,
           \/ items = <<>> /\ cursor = Nil
           \/ RankedUpTo(F, tab, interest, items, cursor) /\ cursor # Nil,
           NEW after, after = AfterCursor(F, tab, interest, cursor)
    PROVE  /\ RankedUpTo(F, tab, interest, Merge(items, FirstPage(after)), CursorAfter(after, F, tab, interest))
           /\ items = <<>> => Merge(items, FirstPage(after)) = FirstPage(after)
<1> DEFINE T == InTab(F, tab)
           r == Ranking[F][tab][interest]
           m == Len(items)
           l == Len(FirstPage(after))
<1>1. T \in SUBSET Items /\ r \in Seq(T) /\ Distinct(r)
  BY RankingSorts, RankOrderIsOrder, SortedDistinct
<1>2. m \in 0 .. Len(r) /\ items = SubSeq(r, 1, m)
  BY <1>1 DEF RankedUpTo
<1>3. after = SubSeq(r, m + 1, Len(r))
  <2>1. m = 0 => cursor = Nil
    BY DEF RankedUpTo
  <2>2. m > 0 => cursor # Nil /\ cursor.keys = Ranked(r[m], T, interest)
    BY DEF RankedUpTo
  <2> QED
    BY <1>2, <2>1, <2>2, AfterCursorTail
<1> HIDE DEF r, T
<1>4. /\ l \in Nat /\ m + l <= Len(r)
      /\ FirstPage(after) = SubSeq(r, m + 1, m + l)
      /\ Merge(SubSeq(r, 1, m), FirstPage(after)) = SubSeq(r, 1, m + l)
      /\ (Len(after) <= PageSize) <=> (m + l = Len(r))
      /\ Len(after) > PageSize => m + l > 0 /\ after[PageSize] = r[m + l]
  BY <1>1, <1>2, <1>3, NextPageOf
<1> DEFINE shown == SubSeq(r, 1, m + l)
           next == CursorAfter(after, F, tab, interest)
<1>5. Merge(items, FirstPage(after)) = shown
  BY <1>2, <1>4
<1>6. Len(shown) = m + l
  BY <1>1, <1>2, <1>4
<1>7. Len(after) \in Nat /\ PageSize \in Nat
  BY <1>1, <1>2, <1>3, PageAssumption
<1> HIDE DEF m, l, shown, next
<1>8. PICK n : n = m + l
  OBVIOUS
<1>9. /\ n <= Len(r) /\ Len(shown) = n /\ shown = SubSeq(r, 1, n)
      /\ (next = Nil) <=> (n = Len(r))
      /\ next # Nil => n > 0 /\ next = [interest |-> interest, keys |-> Ranked(r[n], T, interest)]
  <2>1. CASE Len(after) <= PageSize
    <3>1. next = Nil
      BY <2>1 DEF CursorAfter, next
    <3> QED
      BY <1>4, <1>6, <1>8, <2>1, <3>1 DEF shown
  <2>2. CASE Len(after) > PageSize
    <3>1. n > 0 /\ after[PageSize] = r[n] /\ n <= Len(r) /\ ~ (n = Len(r))
      BY <1>4, <1>7, <1>8, <2>2
    <3>2. next = [interest |-> interest, keys |-> Ranked(r[n], T, interest)]
      BY <1>7, <2>2, <3>1 DEF CursorAfter, T, next
    <3>3. n \in 1 .. Len(r)
      BY <1>2, <1>4, <1>8, <3>1 DEF l, m
    <3>4. r[n] \in Items
      BY <1>1, <3>3
    <3>5. Ranked(r[n], T, interest) \in Seq(Int)
      BY <3>4, RankedSeq
    <3>6. next # Nil
      BY <3>2, <3>5, PageAssumption
    <3> QED
      BY <1>6, <1>8, <3>1, <3>2, <3>6 DEF shown
  <2> QED
    BY <1>7, <2>1, <2>2
<1>10. RankedUpTo(F, tab, interest, shown, next)
  BY <1>9 DEF RankedUpTo, r, T
<1>11. ASSUME items = <<>> PROVE Merge(items, FirstPage(after)) = FirstPage(after)
  <2>1. m = 0
    BY <1>11 DEF m
  <2>2. FirstPage(after) = SubSeq(r, 1, l)
    BY <1>4, <2>1
  <2>3. shown = SubSeq(r, 1, l)
    BY <1>4, <2>1 DEF shown
  <2> QED
    BY <1>5, <2>2, <2>3
<1> QED
  BY <1>5, <1>10, <1>11 DEF next

\* A cursor is for the interests the list was ranked by.
LEMMA CursorInterest ==
    ASSUME NEW F, NEW tab, NEW interest, NEW items, NEW cursor, RankedUpTo(F, tab, interest, items, cursor), cursor # Nil
    PROVE  cursor.interest = interest
BY DEF RankedUpTo

\* The lists stay sound when none is shown.
LEMMA ListFrameKeeps ==
    ASSUME ListsInv, ListFrame, Distinct(page'.savedItems)
    PROVE  ListsInv'
<1>1. RankingShown'
  BY DEF ListsInv, RankingShown, ListFrame
<1>2. Distinct(page'.items)
  BY DEF ListsInv, NoItemTwice, ListFrame, Distinct
<1>3. ItemsOfTab'
  BY DEF ListsInv, ItemsOfTab, ListFrame, Shown
<1> QED
  BY <1>1, <1>2, <1>3 DEF ListsInv, NoItemTwice

\* The saved items stay distinct when none is shown.
LEMMA SavedFrameKeeps ==
    ASSUME ListsInv, SavedFrame
    PROVE  Distinct(page'.savedItems)
BY DEF ListsInv, NoItemTwice, SavedFrame, Distinct

\* They stay sound when an answer to a list request is shown.
LEMMA ListTakenLists ==
    ASSUME PageShaped, ListsInv, NEW c \in Calls, calls[c] # Nil, ListTaken(calls[c])
    PROVE  ListsInv'
<1>1. PICK call, a : call = calls[c] /\ a = call.answer
  OBVIOUS
<1>2. ListCall(call) /\ Awaited(call) /\ call.current /\ a.ok /\ call.op = "LIST"
  BY <1>1 DEF PageShaped, CallTypes, CallWellFormed, CurrentCalls, ListTaken
<1> DEFINE F == call.basis.feed  interest == call.basis.interest  tab == call.about
           after == AfterCursor(F, tab, interest, call.cursor)
<1>3. /\ F \in Feeds /\ interest \in Interests /\ tab \in Categories /\ call.basis \in ListBasis
      /\ a.items = FirstPage(after) /\ a.cursor = CursorAfter(after, F, tab, interest)
      /\ call.cursor # Nil => call.cursor.interest = interest
      /\ call.more <=> call.cursor # Nil
  BY <1>1, <1>2 DEF ListCall, ListBasis
<1>4. a.items \in Seq(InTab(F, tab)) /\ Distinct(a.items) /\ a.items \in Seq(Items)
  BY <1>1, <1>2, ListAnswerTyped
<1>5. /\ page'.tab = tab /\ page.tab = tab /\ page'.cursor = a.cursor /\ SavedFrame
  BY <1>1, <1>2 DEF ListTaken, Awaited
<1>6. page.items \in Seq(Items) /\ (basis # Nil => basis \in ListBasis)
  BY DEF PageShaped, PageFields, StateTypes
<1>7. Distinct(page'.savedItems)
  BY <1>5, SavedFrameKeeps
<1>8. \A i \in Shown(a.items) : CategoryOf[i] = tab
  BY <1>4 DEF Shown, InTab
<1>9. CASE ~call.more
  <2>1. page'.items = a.items /\ basis' = call.basis
    BY <1>1, <1>9 DEF ListTaken
  <2>2. PICK after0, none, cursor : after0 = after /\ none = <<>> /\ cursor = call.cursor
    OBVIOUS
  <2>3. none \in Seq(Items) /\ cursor = Nil
    BY <1>3, <1>9, <2>2
  <2>4. /\ RankedUpTo(F, tab, interest, Merge(none, FirstPage(after0)), CursorAfter(after0, F, tab, interest))
        /\ Merge(none, FirstPage(after0)) = FirstPage(after0)
    <3>1. after0 = AfterCursor(F, tab, interest, cursor) /\ none = <<>> /\ cursor = Nil
      BY <2>2, <2>3
    <3> QED
      BY ONLY <1>3, <2>3, <3>1, NextPageRanked
  <2>5. RankedUpTo(F, tab, interest, a.items, a.cursor)
    BY <1>3, <2>2, <2>4
  <2>6. RankingShown'
    BY <1>5, <2>1, <2>5 DEF RankingShown
  <2>7. ItemsOfTab'
    BY <1>5, <1>8, <2>1 DEF ItemsOfTab
  <2> QED
    BY <1>4, <1>7, <2>1, <2>6, <2>7 DEF ListsInv, NoItemTwice
<1>10. CASE call.more
  <2>1. /\ page'.items = Merge(page.items, a.items)
        /\ basis' = IF basis # Nil /\ basis.feed # call.basis.feed THEN Nil ELSE basis
    BY <1>1, <1>10 DEF ListTaken
  <2>2. page.status = "ready" /\ call.cursor = page.cursor /\ call.cursor # Nil
    BY <1>2, <1>3, <1>10 DEF Awaited
  <2>3. Shown(page'.items) = Shown(page.items) \cup Shown(a.items) /\ Distinct(page'.items)
    BY <1>4, <1>6, <2>1, MergeShows DEF ListsInv, NoItemTwice
  <2>4. ItemsOfTab'
    BY <1>5, <1>8, <2>3 DEF ListsInv, ItemsOfTab
  <2>5. ASSUME basis' # Nil
        PROVE  RankedUpTo(basis'.feed, page'.tab, basis'.interest, page'.items, page'.cursor)
    <3>1. basis' = basis /\ basis # Nil /\ basis.feed = F
      BY <2>1, <2>5
    <3>2. RankedUpTo(F, tab, basis.interest, page.items, page.cursor)
      BY <1>5, <2>2, <3>1 DEF ListsInv, RankingShown
    <3>3. page.cursor.interest = basis.interest
      BY <2>2, <3>2, CursorInterest
    <3>4. basis.interest = interest
      BY <1>3, <2>2, <3>3
    <3>5. PICK items, cursor, after0 : items = page.items /\ cursor = page.cursor /\ after0 = after
      OBVIOUS
    <3>6. RankedUpTo(F, tab, interest, Merge(items, FirstPage(after0)), CursorAfter(after0, F, tab, interest))
      BY <1>3, <1>6, <2>2, <3>2, <3>4, <3>5, NextPageRanked
    <3> QED
      BY <1>3, <1>5, <2>1, <3>1, <3>4, <3>5, <3>6
  <2>6. RankingShown'
    BY <2>5 DEF RankingShown
  <2> QED
    BY <1>7, <2>3, <2>4, <2>6 DEF ListsInv, NoItemTwice
<1> QED
  BY <1>9, <1>10

\* They stay sound when saved items are shown.
LEMMA SavedTakenLists ==
    ASSUME PageShaped, ListsInv, NEW c \in Calls, calls[c] # Nil, SavedTaken(calls[c])
    PROVE  ListsInv'
<1>1. SavedCall(calls[c]) /\ calls[c].answer.ok
  BY DEF PageShaped, CallTypes, CallWellFormed, SavedTaken
<1>2. AnyRows(calls[c].answer.items) /\ Distinct(calls[c].answer.items)
  BY <1>1 DEF SavedCall
<1>3. AnyRows(page.savedItems) /\ Distinct(page.savedItems)
  BY DEF PageShaped, PageFields, ListsInv, NoItemTwice
<1>4. Distinct(Merge(page.savedItems, calls[c].answer.items))
  BY <1>2, <1>3, MergeShows DEF AnyRows
<1>5. page'.savedItems \in {calls[c].answer.items, Merge(page.savedItems, calls[c].answer.items)} /\ ListFrame
  BY DEF SavedTaken
<1> QED
  BY <1>2, <1>4, <1>5, ListFrameKeeps

\* They stay sound when a toggle is shown.
LEMMA ToggleTakenLists ==
    ASSUME PageShaped, ListsInv, NEW c \in Calls, calls[c] # Nil, ToggleTaken(calls[c])
    PROVE  ListsInv'
<1>1. AnyRows(page.savedItems) /\ Distinct(page.savedItems)
  BY DEF PageShaped, PageFields, ListsInv, NoItemTwice
<1>2. ASSUME NEW id
      PROVE  /\ Without(page.savedItems, id) \in Seq(AnyRow) /\ Distinct(Without(page.savedItems, id))
             /\ Shown(Without(page.savedItems, id)) = {r \in Shown(page.savedItems) : r.id # id}
  BY <1>1, WithoutShows DEF AnyRows
<1>3. ASSUME NEW i, NEW id, NEW row, row = [item |-> i, id |-> id]
      PROVE  Distinct(<<row>> \o Without(page.savedItems, id))
  <2>1. PICK s : s = Without(page.savedItems, id)
    OBVIOUS
  <2>2. s \in Seq(AnyRow) /\ Distinct(s) /\ \A k \in DOMAIN s : s[k].id # id
    BY <1>2, <2>1 DEF Shown
  <2>3. row.id = id
    BY <1>3
  <2>4. Len(<<row>> \o s) = Len(s) + 1 /\ \A k \in 1 .. Len(s) + 1 : (<<row>> \o s)[k] = IF k = 1 THEN row ELSE s[k - 1]
    BY <2>2
  <2> QED
    BY <2>1, <2>2, <2>3, <2>4 DEF Distinct
<1>4. Distinct(page'.savedItems)
  <2>1. CASE calls[c].op = "DELETE"
    BY <1>2, <2>1 DEF ToggleTaken
  <2>2. CASE calls[c].op # "DELETE"
    <3>1. PICK i : i = ItemOf(calls[c])
      OBVIOUS
    <3>2. PICK id \in 1 .. created : page'.savedItems = <<[item |-> i, id |-> id]>> \o Without(page.savedItems, id)
      BY <2>2, <3>1 DEF ToggleTaken
    <3>3. PICK row : row = [item |-> i, id |-> id]
      OBVIOUS
    <3>4. Distinct(<<row>> \o Without(page.savedItems, id))
      BY <1>3, <3>3
    <3> QED
      BY <3>2, <3>3, <3>4
  <2> QED
    BY <2>1, <2>2
<1> QED
  BY <1>4, ListFrameKeeps DEF ToggleTaken

\* Every step leaves the lists sound.
LEMMA ListsStep == PageShaped /\ ListsInv /\ [PageNext]_pageVars => ListsInv'
<1> SUFFICES ASSUME PageShaped, ListsInv, [PageNext]_pageVars PROVE ListsInv'
  OBVIOUS
<1>1. ASSUME PageFrame PROVE ListsInv'
  BY <1>1, ListFrameKeeps, SavedFrameKeeps DEF PageFrame
<1>2. ASSUME UNCHANGED <<page, basis>> PROVE ListsInv'
  <2>1. ListFrame /\ Distinct(page'.savedItems)
    BY <1>2 DEF ListFrame, ListsInv, NoItemTwice
  <2> QED
    BY <2>1, ListFrameKeeps
<1>3. ASSUME NEW c \in Calls, HandleCall(c) PROVE ListsInv'
  BY <1>2, <1>3 DEF HandleCall
<1>4. ASSUME NEW c \in Calls, LoseAnswer(c) PROVE ListsInv'
  BY <1>2, <1>4 DEF LoseAnswer
<1>5. ASSUME NEW c \in Calls, GetAnswer(c) PROVE ListsInv'
  BY <1>1, <1>5, GetAnswerIs, ListTakenLists, SavedTakenLists, ToggleTakenLists
<1>6. ASSUME Elsewhere PROVE ListsInv'
  BY <1>2, <1>6 DEF Elsewhere
<1>7. ASSUME UserStep PROVE ListsInv'
  BY <1>1, <1>7, UserStepFrame
<1> QED
  BY <1>2, <1>3, <1>4, <1>5, <1>6, <1>7 DEF PageNext, pageVars

\* The lists are sound at first.
LEMMA ListsInit == PageInit => ListsInv
<1> SUFFICES ASSUME PageInit PROVE ListsInv
  OBVIOUS
<1>1. PICK p, q : p = NoPage /\ q = Exploring(p)
  OBVIOUS
<1>2. IsPage(p) /\ p.savedItems = <<>>
  BY <1>1 DEF IsPage, NoPage
<1>3. q.items = <<>> /\ SameSaved(p, q)
  BY <1>1, <1>2, ExploringFields
<1>4. page = q /\ basis = Nil
  BY <1>1 DEF PageInit
<1> QED
  BY <1>2, <1>3, <1>4 DEF ListsInv, RankingShown, NoItemTwice, ItemsOfTab, Distinct, Shown, SameSaved

\* What is shown is always the beginning of the ranking it was computed from,
\* up to the cursor, of the tab chosen, and nothing is shown twice (listDiscover,
\* loadMore, mergeItems, mergeSavedItems).
THEOREM PageListsSound == PageSpec => []ListsSound
<1>1. PageInit => PageShaped /\ ListsInv
  BY PageInitShape, ListsInit
<1>2. PageShaped /\ ListsInv /\ [PageNext]_pageVars => (PageShaped /\ ListsInv)'
  BY ShapeStep, ListsStep
<1>3. PageShaped /\ ListsInv => ListsSound
  BY DEF ListsSound, ListsInv, RankingShown, RankedUpTo, PagesArePrefix
<1> QED
  BY <1>1, <1>2, <1>3, PTL DEF PageSpec

-----------------------------------------------------------------------------
(* What a step does to the saved rows                                      *)

\* What may become of the saved rows in one step.
SavedMoves ==
    \/ saved' = saved /\ created' = created
    \/ \E i \in Items : saved' = [saved EXCEPT ![i] = created + 1] /\ created' = created + 1
    \/ \E i \in Items : saved' = [saved EXCEPT ![i] = NoRow] /\ created' = created

\* What a handler makes of a call, and what its answer has to do with the rows.
Served(call, new) ==
    /\ new.op = call.op /\ new.about = call.about /\ new.cursor = call.cursor
    /\ new.answer.ok =>
           /\ new.op = "LIST" => new.step = "LISTED" \/ new.answer.refs = saved
           /\ new.op = "SAVED" => /\ new.answer.items = FirstPage(RowsAfter(call.cursor))
                                  /\ new.answer.cursor = CursorOf(RowsAfter(call.cursor))
                                  /\ new.basis = created /\ saved' = saved /\ created' = created
           /\ new.op = "SAVE" => /\ new.answer.items = <<[item |-> new.about, id |-> saved'[new.about]]>>
                                 /\ saved'[new.about] # NoRow
           /\ new.op = "DELETE" => saved'[new.about.item] # new.about.id

HandlerFrame(c) ==
    /\ calls[c] # Nil /\ \A x \in Calls \ {c} : calls'[x] = calls[x]
    /\ Served(calls[c], calls'[c]) /\ SavedMoves /\ Unserved

\* A step that answers nothing serves its call.
LEMMA UnansweredIs ==
    ASSUME PageShaped, NEW c \in Calls, calls[c] # Nil,
           Answered(c, Refused) \/ (~calls[c].answer.ok /\ \E s \in {"CACHED", "CONFLICT"} : Goes(c, s)),
           UNCHANGED <<saved, created>>, Unserved
    PROVE  HandlerFrame(c)
<1>1. IsAnswer(calls[c].answer)
  BY DEF PageShaped, CallTypes, CallWellFormed, IsCallRow
<1>2. PICK s, b, a : CallsHandled(c, s, b, a) /\ IsAnswer(a) /\ ~a.ok
  <2>1. PICK b, a0 : b = calls[c].basis /\ a0 = calls[c].answer
    OBVIOUS
  <2>2. CASE Answered(c, Refused)
    <3>1. CallsHandled(c, "ANSWERED", b, Refused)
      BY <2>1, <2>2 DEF Answered, CallsHandled
    <3> QED
      BY <3>1, RefusedFields
  <2>3. CASE ~calls[c].answer.ok /\ \E s \in {"CACHED", "CONFLICT"} : Goes(c, s)
    <3>1. PICK s \in {"CACHED", "CONFLICT"} : Goes(c, s)
      BY <2>3
    <3>2. CallsHandled(c, s, b, a0)
      BY <2>1, <3>1 DEF Goes, CallsHandled
    <3> QED
      BY <1>1, <2>1, <2>3, <3>2
  <2> QED
    BY <2>2, <2>3
<1>3. /\ calls'[c].op = calls[c].op /\ calls'[c].about = calls[c].about
      /\ calls'[c].cursor = calls[c].cursor /\ calls'[c].answer = a
      /\ \A x \in Calls \ {c} : calls'[x] = calls[x]
  BY <1>2, CallAfter
<1> QED
  BY <1>2, <1>3 DEF HandlerFrame, Served, SavedMoves

\* What the ranking does to its call and to the rows.
LEMMA ListDiscoverIs ==
    ASSUME PageShaped, NEW c \in Calls, ListDiscover(c), Unserved
    PROVE  HandlerFrame(c)
<1>1. calls[c] # Nil /\ calls[c].op = "LIST" /\ UNCHANGED <<saved, created>>
  BY DEF ListDiscover, IsCall, server
<1>2. CASE CursorFits(calls[c].cursor)
  <2> DEFINE after == AfterCursor(feed, calls[c].about, interests, calls[c].cursor)
             a == [ok |-> TRUE, items |-> FirstPage(after),
                   cursor |-> CursorAfter(after, feed, calls[c].about, interests), refs |-> <<>>]
             b == [feed |-> feed, interest |-> interests]
  <2>1. CallsHandled(c, "LISTED", b, a)
    BY <1>2 DEF ListDiscover, CallsHandled
  <2>2. IsAnswer(a)
    BY DEF IsAnswer
  <2> HIDE DEF a, b
  <2>3. /\ calls'[c].op = calls[c].op /\ calls'[c].about = calls[c].about
        /\ calls'[c].cursor = calls[c].cursor /\ calls'[c].step = "LISTED"
        /\ \A x \in Calls \ {c} : calls'[x] = calls[x]
    BY <1>1, <2>1, <2>2, CallAfter
  <2> QED
    BY <1>1, <2>3 DEF HandlerFrame, Served, SavedMoves
<1>3. CASE ~ CursorFits(calls[c].cursor)
  <2>1. Answered(c, Refused)
    BY <1>3 DEF ListDiscover
  <2> QED
    BY <1>1, <2>1, UnansweredIs
<1> QED
  BY <1>2, <1>3

\* What the reading of the references does.
LEMMA FindReferencesIs ==
    ASSUME PageShaped, NEW c \in Calls, FindSavedItemReferences(c), Unserved
    PROVE  HandlerFrame(c)
<1>1. calls[c] # Nil /\ calls[c].op = "LIST" /\ UNCHANGED <<saved, created>>
  BY DEF FindSavedItemReferences, IsCall, server
<1>2. PICK old, a, b : old = calls[c].answer /\ a = [old EXCEPT !.refs = saved] /\ b = calls[c].basis
  OBVIOUS
<1>3. IsAnswer(old)
  BY <1>1, <1>2 DEF PageShaped, CallTypes, CallWellFormed, IsCallRow
<1>4. a.refs = saved
  BY <1>2, <1>3 DEF IsAnswer
<1>5. a = [ok |-> a.ok, items |-> a.items, cursor |-> a.cursor, refs |-> a.refs]
  BY <1>2, <1>3 DEF IsAnswer
<1>6. IsAnswer(a)
  BY <1>5 DEF IsAnswer
<1>7. CallsHandled(c, "ANSWERED", b, a)
  BY <1>2 DEF FindSavedItemReferences, CallsHandled, Answered
<1>8. /\ calls'[c].op = calls[c].op /\ calls'[c].about = calls[c].about
      /\ calls'[c].cursor = calls[c].cursor /\ calls'[c].answer = a
      /\ \A x \in Calls \ {c} : calls'[x] = calls[x]
  BY <1>1, <1>6, <1>7, CallAfter
<1> QED
  BY <1>1, <1>4, <1>8 DEF HandlerFrame, Served, SavedMoves

\* What listSavedItems does.
LEMMA ListSavedItemsIs ==
    ASSUME PageShaped, NEW c \in Calls, ListSavedItems(c), Unserved
    PROVE  HandlerFrame(c)
<1>1. calls[c] # Nil /\ calls[c].op = "SAVED" /\ UNCHANGED <<saved, created>>
  BY DEF ListSavedItems, IsCall, server
<1>2. PICK rows, b : rows = RowsAfter(calls[c].cursor) /\ b = created
  OBVIOUS
<1>3. PICK a : a = [Refused EXCEPT !.ok = TRUE, !.items = FirstPage(rows), !.cursor = CursorOf(rows)]
  OBVIOUS
<1>4. AnswerMade(Refused, a, FirstPage(rows), CursorOf(rows))
  BY <1>3 DEF AnswerMade
<1>5. IsAnswer(a) /\ a.items = FirstPage(rows) /\ a.cursor = CursorOf(rows)
  BY <1>4, RefusedFields, AnswerRow
<1>6. CallsHandled(c, "ANSWERED", b, a)
  BY <1>2, <1>3 DEF ListSavedItems, CallsHandled
<1>7. /\ calls'[c].op = calls[c].op /\ calls'[c].about = calls[c].about
      /\ calls'[c].cursor = calls[c].cursor /\ calls'[c].basis = b /\ calls'[c].answer = a
      /\ \A x \in Calls \ {c} : calls'[x] = calls[x]
  BY <1>1, <1>5, <1>6, CallAfter
<1> QED
  BY <1>1, <1>2, <1>5, <1>7 DEF HandlerFrame, Served, SavedMoves

\* What answering a save does.
LEMMA SavedIs ==
    ASSUME PageShaped, NEW c \in Calls, calls[c] # Nil, calls[c].op = "SAVE", NEW id, NEW isNew,
           Saved(c, calls[c].about, id, isNew), id = saved'[calls[c].about], id # NoRow, SavedMoves, Unserved
    PROVE  HandlerFrame(c)
<1>1. /\ calls'[c].op = calls[c].op /\ calls'[c].about = calls[c].about
      /\ calls'[c].cursor = calls[c].cursor
      /\ calls'[c].answer.items = <<[item |-> calls[c].about, id |-> id]>>
      /\ \A x \in Calls \ {c} : calls'[x] = calls[x]
  BY SavedAnswer
<1> QED
  BY <1>1 DEF HandlerFrame, Served

\* What the transaction of saveItem does.
LEMMA InsertIs ==
    ASSUME PageShaped, NEW c \in Calls, InsertSavedItem(c), Unserved
    PROVE  HandlerFrame(c)
<1> DEFINE i == calls[c].about
<1>1. calls[c] # Nil /\ calls[c].op = "SAVE"
  BY DEF InsertSavedItem, IsCall
<1>2. SaveCall(calls[c]) /\ created \in Nat /\ i \in Items /\ saved \in [Items -> 0 .. created]
  BY <1>1 DEF PageShaped, CallTypes, CallWellFormed, SaveCall, StateTypes, PageFields
<1>3. CASE /\ saved' = [saved EXCEPT ![i] = created + 1]
           /\ created' = created + 1
           /\ Saved(c, i, created + 1, TRUE)
  <2>1. PICK id, yes : id = created + 1 /\ yes = TRUE
    OBVIOUS
  <2>2. Saved(c, calls[c].about, id, yes) /\ id = saved'[calls[c].about] /\ id # NoRow /\ SavedMoves
    <3>1. id = saved'[calls[c].about] /\ id # NoRow
      BY <1>2, <1>3, <2>1 DEF NoRow
    <3>2. SavedMoves
      BY <1>2, <1>3 DEF SavedMoves
    <3>3. Saved(c, calls[c].about, id, yes)
      BY <1>3, <2>1 DEF Saved, Counted
    <3> QED
      BY <3>1, <3>2, <3>3
  <2> QED
    BY <1>1, <2>2, SavedIs
<1>4. CASE /\ calls[c].step \in {"CACHED", "CONFLICT"} /\ UNCHANGED <<saved, created>>
           /\ Goes(c, "CONFLICT") \/ Answered(c, Refused)
  <2>1. ~calls[c].answer.ok
    BY <1>2, <1>4 DEF SaveCall
  <2> QED
    BY <1>1, <1>4, <2>1, UnansweredIs
<1>5. CASE Found(i) /\ Saved(c, i, saved[i], FALSE) /\ UNCHANGED <<saved, created>>
  <2>1. PICK id, no : id = saved[i] /\ no = FALSE
    OBVIOUS
  <2>2. Saved(c, calls[c].about, id, no)
    BY <1>5, <2>1 DEF Saved, Counted
  <2>3. id = saved'[calls[c].about] /\ id # NoRow /\ SavedMoves
    BY <1>5, <2>1 DEF Found, SavedMoves
  <2> QED
    BY <1>1, <2>2, <2>3, SavedIs
<1> QED
  BY <1>3, <1>4, <1>5 DEF InsertSavedItem

\* What deleteItem does.
LEMMA DeleteIs ==
    ASSUME PageShaped, NEW c \in Calls, DeleteItem(c), Unserved
    PROVE  HandlerFrame(c)
<1>1. calls[c] # Nil /\ calls[c].op = "DELETE"
  BY DEF DeleteItem, IsCall
<1>2. DeleteCall(calls[c]) /\ saved \in [Items -> 0 .. created] /\ created \in Nat
  BY <1>1 DEF PageShaped, CallTypes, CallWellFormed, StateTypes
<1>3. calls[c].about.item \in Items /\ calls[c].about.id \in 1 .. created
  BY <1>2 DEF DeleteCall, AnyRow
<1>4. PICK row : row = calls[c].about
  OBVIOUS
<1>5. /\ saved' = IF saved[row.item] = row.id THEN [saved EXCEPT ![row.item] = NoRow] ELSE saved
      /\ created' = created /\ Answered(c, [Refused EXCEPT !.ok = TRUE])
  BY <1>4 DEF DeleteItem
<1>6. SavedMoves /\ saved'[row.item] # row.id
  <2>1. PICK i, id : i = row.item /\ id = row.id
    OBVIOUS
  <2>2. i \in Items /\ id \in 1 .. created /\ id # NoRow
    BY <1>2, <1>3, <1>4, <2>1 DEF NoRow
  <2>3. saved' = IF saved[i] = id THEN [saved EXCEPT ![i] = NoRow] ELSE saved
    BY <1>5, <2>1
  <2>4. CASE saved[i] = id
    <3>1. saved' = [saved EXCEPT ![i] = NoRow]
      BY <2>3, <2>4
    <3>2. saved'[i] = NoRow
      BY <1>2, <2>2, <3>1
    <3> QED
      BY <1>5, <2>1, <2>2, <3>1, <3>2 DEF SavedMoves
  <2>5. CASE saved[i] # id
    BY <1>5, <2>1, <2>3, <2>5 DEF SavedMoves
  <2> QED
    BY <2>4, <2>5
<1>7. PICK a : a = [Refused EXCEPT !.ok = TRUE]
  OBVIOUS
<1>8. AnswerMade(Refused, a, Refused.items, Refused.cursor)
  BY <1>7 DEF AnswerMade
<1>9. IsAnswer(a)
  BY <1>8, RefusedFields, AnswerRow
<1>10. PICK b : b = calls[c].basis
  OBVIOUS
<1>11. CallsHandled(c, "ANSWERED", b, a)
  BY <1>5, <1>7, <1>10 DEF Answered, CallsHandled
<1>12. /\ calls'[c].op = calls[c].op /\ calls'[c].about = calls[c].about
       /\ calls'[c].cursor = calls[c].cursor
       /\ \A x \in Calls \ {c} : calls'[x] = calls[x]
  BY <1>1, <1>9, <1>11, CallAfter
<1> QED
  BY <1>1, <1>4, <1>6, <1>12 DEF HandlerFrame, Served

\* What the update of the interests does.
LEMMA UpdateInterestsIs ==
    ASSUME PageShaped, NEW c \in Calls, UpdateInterests(c), Unserved
    PROVE  HandlerFrame(c)
<1>1. calls[c] # Nil /\ calls[c].op = "INTERESTS" /\ UNCHANGED <<saved, created>>
  BY DEF UpdateInterests, IsCall
<1>2. PICK a, b : a = [Refused EXCEPT !.ok = TRUE] /\ b = calls[c].basis
  OBVIOUS
<1>3. AnswerMade(Refused, a, Refused.items, Refused.cursor)
  BY <1>2 DEF AnswerMade
<1>4. IsAnswer(a)
  BY <1>3, RefusedFields, AnswerRow
<1>5. CallsHandled(c, "ANSWERED", b, a)
  BY <1>2 DEF UpdateInterests, Answered, CallsHandled
<1>6. /\ calls'[c].op = calls[c].op /\ calls'[c].about = calls[c].about
      /\ calls'[c].cursor = calls[c].cursor
      /\ \A x \in Calls \ {c} : calls'[x] = calls[x]
  BY <1>1, <1>4, <1>5, CallAfter
<1> QED
  BY <1>1, <1>6 DEF HandlerFrame, Served, SavedMoves

\* What a handler's step does to its call and to the rows.
LEMMA HandlerIs ==
    ASSUME PageShaped, NEW c \in Calls, HandleCall(c) \/ LoseAnswer(c)
    PROVE  HandlerFrame(c)
<1>1. Unserved
  BY DEF HandleCall, LoseAnswer, Unserved
<1>2. ASSUME ReadCache(c) PROVE HandlerFrame(c)
  <2>1. calls[c] # Nil /\ ~calls[c].answer.ok /\ UNCHANGED <<saved, created>>
    BY <1>2 DEF ReadCache, IsCall, server, PageShaped, CallTypes, CallWellFormed, SaveCall
  <2>2. Goes(c, "CACHED") \/ Answered(c, Refused)
    BY <1>2 DEF ReadCache
  <2> QED
    BY <1>1, <2>1, <2>2, UnansweredIs
<1>3. ASSUME LoseAnswer(c) PROVE HandlerFrame(c)
  <2>1. calls[c] # Nil /\ Answered(c, Refused) /\ UNCHANGED <<saved, created>>
    BY <1>3 DEF LoseAnswer, server
  <2> QED
    BY <1>1, <2>1, UnansweredIs
<1> QED
  BY <1>1, <1>2, <1>3, ListDiscoverIs, FindReferencesIs, ListSavedItemsIs, InsertIs, DeleteIs, UpdateInterestsIs
     DEF HandleCall

\* What happens elsewhere moves the rows and leaves the page alone.
LEMMA ElsewhereIs ==
    ASSUME PageShaped, Elsewhere
    PROVE  SavedMoves /\ UNCHANGED <<page, basis, known, calls>>
<1>1. feed \subseteq Items
  BY PageAssumption DEF PageShaped, StateTypes
<1> QED
  BY <1>1 DEF Elsewhere, SavedMoves

-----------------------------------------------------------------------------
(* Every row is of one item                                                *)

\* The rows of a list are named by their items if all that it shows are.
LEMMA RowsNamedIs ==
    ASSUME NEW owner, NEW T, NEW rows \in Seq(T)
    PROVE  RowsNamed(owner, rows) <=> \A r \in Shown(rows) : owner[r.id] = r.item
BY DEF RowsNamed, Shown

\* So are the rows of the calls when they are kept or made by the page.
LEMMA CallsFrameOwned ==
    ASSUME NEW owner, Owned(owner), CallsFrame
    PROVE  \A x \in Calls : calls'[x] # Nil => CallNamed(owner, calls'[x])
<1> SUFFICES ASSUME NEW x \in Calls, calls'[x] # Nil PROVE CallNamed(owner, calls'[x])
  OBVIOUS
<1>1. CASE calls[x] # Nil /\ SameCall(calls[x], calls'[x])
  BY <1>1 DEF Owned, SameCall, CallNamed
<1>2. CASE /\ ~calls'[x].answer.ok
           /\ calls'[x].op = "DELETE" =>
                  \E i \in Items : /\ page.refs[i] # NoRow
                                   /\ calls'[x].about.item = i /\ calls'[x].about.id = page.refs[i]
  BY <1>2 DEF Owned, CallNamed, RefsNamed
<1> QED
  BY <1>1, <1>2 DEF CallsFrame

\* The rows stay with their items when the page alone acts.
LEMMA FrameOwned ==
    ASSUME PageShaped, NEW owner, Owned(owner), PageFrame
    PROVE  Owned(owner)'
<1>1. RefsNamed(owner, saved') /\ RefsNamed(owner, page'.refs)
  BY DEF Owned, PageFrame, server
<1>2. RowsNamed(owner, page'.savedItems)
  BY DEF Owned, PageFrame, SavedFrame, RowsNamed
<1>3. \A x \in Calls : calls'[x] # Nil => CallNamed(owner, calls'[x])
  BY CallsFrameOwned DEF PageFrame
<1> QED
  BY <1>1, <1>2, <1>3 DEF Owned

\* References that are replaced by those of rows.
LEMMA RefsOwned ==
    ASSUME NEW owner, NEW refs, NEW rows, refs = NoRefs \/ RefsNamed(owner, refs),
           \A r \in rows : r.item \in Items /\ r.id # NoRow => owner[r.id] = r.item
    PROVE  RefsNamed(owner, WithRefs(refs, rows))
<1> SUFFICES ASSUME NEW i \in Items, WithRefs(refs, rows)[i] # NoRow PROVE owner[WithRefs(refs, rows)[i]] = i
  BY DEF RefsNamed
<1>1. \/ WithRefs(refs, rows)[i] = refs[i]
      \/ \E r \in rows : r.item = i /\ WithRefs(refs, rows)[i] = r.id
  BY WithRefsIs
<1> QED
  BY <1>1 DEF RefsNamed, NoRefs

\* Rows stay with their items when an answer to a list request is shown.
LEMMA ListTakenOwned ==
    ASSUME PageShaped, NEW owner, Owned(owner), NEW c \in Calls, calls[c] # Nil, ListTaken(calls[c])
    PROVE  Owned(owner)'
<1>1. PICK a : a = calls[c].answer
  OBVIOUS
<1>2. ListCall(calls[c]) /\ a.ok /\ calls[c].step = "ANSWERED" /\ calls[c].op = "LIST"
  BY <1>1 DEF PageShaped, CallTypes, CallWellFormed, ListTaken
<1>3. a.items \in Seq(Items)
  BY <1>1, <1>2, ListAnswerTyped
<1>4. RefsNamed(owner, a.refs)
  BY <1>1, <1>2 DEF Owned, CallNamed
<1>5. \A r \in OnlySaved(RefsIn(a)) : r.item \in Items /\ r.id # NoRow => owner[r.id] = r.item
  BY <1>3, <1>4, RefsInIs DEF RefsNamed
<1>6. PICK rows : rows = OnlySaved(RefsIn(a))
  OBVIOUS
<1>7. RefsNamed(owner, page'.refs)
  <2>1. PICK refs : page'.refs = WithRefs(refs, rows) /\ (refs = NoRefs \/ refs = page.refs)
    BY <1>1, <1>6 DEF ListTaken
  <2>2. refs = NoRefs \/ RefsNamed(owner, refs)
    BY <2>1 DEF Owned
  <2>3. RefsNamed(owner, WithRefs(refs, rows))
    BY <1>5, <1>6, <2>2, RefsOwned
  <2> QED
    BY <2>1, <2>3
<1>8. RowsNamed(owner, page'.savedItems)
  BY DEF Owned, ListTaken, SavedFrame, RowsNamed
<1>9. saved' = saved /\ \A x \in Calls : calls'[x] # Nil => CallNamed(owner, calls'[x])
  BY CallsFrameOwned DEF ListTaken, server
<1> QED
  BY <1>7, <1>8, <1>9 DEF Owned

\* Rows stay with their items when saved items are shown.
LEMMA SavedTakenOwned ==
    ASSUME PageShaped, NEW owner, Owned(owner), NEW c \in Calls, calls[c] # Nil, SavedTaken(calls[c])
    PROVE  Owned(owner)'
<1>1. PICK a : a = calls[c].answer
  OBVIOUS
<1>2. SavedCall(calls[c]) /\ a.ok /\ calls[c].op = "SAVED"
  BY <1>1 DEF PageShaped, CallTypes, CallWellFormed, SavedTaken
<1>3. a.items \in Seq(AnyRow) /\ page.savedItems \in Seq(AnyRow)
  BY <1>1, <1>2 DEF SavedCall, AnyRows, PageShaped, PageFields
<1>4. RowsNamed(owner, a.items) /\ RowsNamed(owner, page.savedItems)
  BY <1>1, <1>2 DEF Owned, CallNamed
<1>5. \A r \in Shown(a.items) \cup Shown(page.savedItems) : owner[r.id] = r.item
  BY <1>3, <1>4, RowsNamedIs
<1>6. Rows(a.items) = Shown(a.items)
  BY DEF Rows, Shown
<1>7. RefsNamed(owner, page'.refs)
  <2>1. PICK refs, rows : /\ page'.refs = WithRefs(refs, rows) /\ rows = Rows(a.items)
                          /\ refs = NoRefs \/ refs = page.refs
    BY <1>1 DEF SavedTaken
  <2>2. refs = NoRefs \/ RefsNamed(owner, refs)
    BY <2>1 DEF Owned
  <2>3. \A r \in rows : r.item \in Items /\ r.id # NoRow => owner[r.id] = r.item
    BY <1>5, <1>6, <2>1
  <2>4. RefsNamed(owner, WithRefs(refs, rows))
    BY <2>2, <2>3, RefsOwned
  <2> QED
    BY <2>1, <2>4
<1>8. RowsNamed(owner, page'.savedItems)
  <2>1. PICK m : m = Merge(page.savedItems, a.items)
    OBVIOUS
  <2>2. m \in Seq(AnyRow) /\ Shown(m) = Shown(page.savedItems) \cup Shown(a.items)
    BY <1>3, <2>1, MergeShows
  <2>3. RowsNamed(owner, m)
    BY <1>5, <2>2, RowsNamedIs
  <2> QED
    BY <1>1, <1>4, <2>1, <2>3 DEF SavedTaken
<1>9. saved' = saved /\ \A x \in Calls : calls'[x] # Nil => CallNamed(owner, calls'[x])
  BY CallsFrameOwned DEF SavedTaken, server
<1> QED
  BY <1>7, <1>8, <1>9 DEF Owned

\* Rows stay with their items when a toggle is shown.
LEMMA ToggleTakenOwned ==
    ASSUME PageShaped, NEW owner, Owned(owner), NEW c \in Calls, calls[c] # Nil, ToggleTaken(calls[c])
    PROVE  Owned(owner)'
<1>1. PICK a, i : a = calls[c].answer /\ i = ItemOf(calls[c])
  OBVIOUS
<1>2. i \in Items /\ a.ok /\ page.savedItems \in Seq(AnyRow) /\ page.refs \in [Items -> 0 .. created]
  BY <1>1 DEF ToggleTaken, PageShaped, PageFields, AnyRows
<1>3. \A r \in Shown(page.savedItems) : owner[r.id] = r.item
  BY <1>2, RowsNamedIs DEF Owned
<1>4. ASSUME NEW id
      PROVE  /\ Without(page.savedItems, id) \in Seq(AnyRow)
             /\ RowsNamed(owner, Without(page.savedItems, id))
  <2>1. PICK s : s = Without(page.savedItems, id)
    OBVIOUS
  <2>2. s \in Seq(AnyRow) /\ \A r \in Shown(s) : r \in Shown(page.savedItems)
    BY <1>2, <2>1, WithoutShows
  <2>3. RowsNamed(owner, s)
    BY <1>3, <2>2, RowsNamedIs
  <2> QED
    BY <2>1, <2>2, <2>3
<1>5. saved' = saved /\ \A x \in Calls : calls'[x] # Nil => CallNamed(owner, calls'[x])
  BY CallsFrameOwned DEF ToggleTaken, server
<1>6. CASE calls[c].op = "DELETE"
  <2>1. page'.refs = [page.refs EXCEPT ![i] = NoRow] /\ \E id : page'.savedItems = Without(page.savedItems, id)
    BY <1>1, <1>6 DEF ToggleTaken
  <2>2. RowsNamed(owner, page'.savedItems)
    BY <1>4, <2>1
  <2>3. RefsNamed(owner, page'.refs)
    BY <1>2, <2>1 DEF RefsNamed, Owned
  <2> QED
    BY <1>5, <2>2, <2>3 DEF Owned
<1>7. CASE calls[c].op = "SAVE"
  <2>1. PICK id \in 1 .. created :
            /\ a.items = <<[item |-> i, id |-> id]>> /\ page'.refs = [page.refs EXCEPT ![i] = id]
            /\ page'.savedItems = <<[item |-> i, id |-> id]>> \o Without(page.savedItems, id)
    BY <1>1, <1>7 DEF ToggleTaken
  <2>2. PICK row, s : row = [item |-> i, id |-> id] /\ s = Without(page.savedItems, id)
    OBVIOUS
  <2>3. RowsNamed(owner, a.items)
    BY <1>1, <1>2, <1>7 DEF Owned, CallNamed
  <2>4. owner[id] = i /\ row.id = id /\ row.item = i
    BY <2>1, <2>2, <2>3 DEF RowsNamed
  <2>5. s \in Seq(AnyRow) /\ RowsNamed(owner, s)
    BY <1>4, <2>2
  <2>6. RowsNamed(owner, <<row>> \o s)
    <3>1. Len(<<row>> \o s) = Len(s) + 1 /\ DOMAIN (<<row>> \o s) = 1 .. Len(s) + 1
          /\ \A k \in 1 .. Len(s) + 1 : (<<row>> \o s)[k] = IF k = 1 THEN row ELSE s[k - 1]
      BY <2>5
    <3>2. \A k \in 1 .. Len(s) : owner[s[k].id] = s[k].item
      BY <2>5 DEF RowsNamed
    <3>3. Len(s) \in Nat
      BY <2>5
    <3> QED
      BY <2>4, <3>1, <3>2, <3>3 DEF RowsNamed
  <2>7. RowsNamed(owner, page'.savedItems)
    BY <2>1, <2>2, <2>6
  <2>8. RefsNamed(owner, page'.refs)
    BY <1>2, <2>1, <2>4 DEF RefsNamed, Owned
  <2> QED
    BY <1>5, <2>7, <2>8 DEF Owned
<1> QED
  BY <1>6, <1>7 DEF ToggleTaken

\* A row that is created belongs to the item it is created for.
LEMMA OwnerAfter ==
    ASSUME StateTypes, NEW owner \in [1 .. created -> Items], RefsNamed(owner, saved), SavedMoves
    PROVE  \E new \in [1 .. created' -> Items] :
               RefsNamed(new, saved') /\ \A k \in 1 .. created : new[k] = owner[k]
<1>1. created \in Nat /\ saved \in [Items -> 0 .. created]
  BY DEF StateTypes
<1>2. CASE saved' = saved /\ created' = created
  BY <1>2
<1>3. CASE \E i \in Items : saved' = [saved EXCEPT ![i] = created + 1] /\ created' = created + 1
  <2>1. PICK i \in Items : saved' = [saved EXCEPT ![i] = created + 1] /\ created' = created + 1
    BY <1>3
  <2> DEFINE new == [k \in 1 .. created' |-> IF k = created + 1 THEN i ELSE owner[k]]
  <2>2. new \in [1 .. created' -> Items] /\ \A k \in 1 .. created : new[k] = owner[k]
    BY <1>1, <2>1
  <2>3. new[created + 1] = i
    BY <1>1, <2>1
  <2>4. ASSUME NEW j \in Items, saved'[j] # NoRow PROVE new[saved'[j]] = j
    <3>1. CASE j = i
      BY <1>1, <2>1, <2>3, <3>1
    <3>2. CASE j # i
      <4>1. saved'[j] = saved[j] /\ saved[j] \in 1 .. created
        BY <1>1, <2>1, <2>4, <3>2 DEF NoRow
      <4> QED
        BY <2>2, <2>4, <4>1 DEF RefsNamed
    <3> QED
      BY <3>1, <3>2
  <2>5. RefsNamed(new, saved')
    BY <2>4 DEF RefsNamed
  <2> QED
    BY <2>2, <2>5
<1>4. CASE \E i \in Items : saved' = [saved EXCEPT ![i] = NoRow] /\ created' = created
  <2>1. PICK i \in Items : saved' = [saved EXCEPT ![i] = NoRow] /\ created' = created
    BY <1>4
  <2>2. RefsNamed(owner, saved')
    BY <1>1, <2>1 DEF RefsNamed
  <2> QED
    BY <2>1, <2>2
<1> QED
  BY <1>2, <1>3, <1>4 DEF SavedMoves

\* The rows named so far keep their items.
LEMMA StillNamed ==
    ASSUME created \in Nat, NEW owner, NEW new, \A k \in 1 .. created : new[k] = owner[k]
    PROVE  /\ \A refs \in [Items -> 0 .. created] : RefsNamed(owner, refs) => RefsNamed(new, refs)
           /\ \A rows : AnyRows(rows) /\ RowsNamed(owner, rows) => RowsNamed(new, rows)
           /\ \A call : CallWellFormed(call) /\ CallNamed(owner, call) => CallNamed(new, call)
<1>1. ASSUME NEW refs \in [Items -> 0 .. created], RefsNamed(owner, refs) PROVE RefsNamed(new, refs)
  BY <1>1 DEF RefsNamed, NoRow
<1>2. ASSUME NEW rows, AnyRows(rows), RowsNamed(owner, rows) PROVE RowsNamed(new, rows)
  <2> SUFFICES ASSUME NEW k \in DOMAIN rows PROVE new[rows[k].id] = rows[k].item
    BY DEF RowsNamed
  <2>1. rows[k] \in AnyRow
    BY <1>2 DEF AnyRows
  <2>2. rows[k].id \in 1 .. created
    BY <2>1 DEF AnyRow
  <2> QED
    BY <1>2, <2>2 DEF RowsNamed
<1>3. ASSUME NEW call, CallWellFormed(call), CallNamed(owner, call) PROVE CallNamed(new, call)
  <2>1. call.op = "LIST" /\ call.answer.ok /\ call.step = "ANSWERED" => RefsNamed(new, call.answer.refs)
    BY <1>1, <1>3 DEF CallNamed, CallWellFormed, ListCall
  <2>2. call.op = "SAVED" /\ call.answer.ok => RowsNamed(new, call.answer.items)
    BY <1>2, <1>3 DEF CallNamed, CallWellFormed, SavedCall
  <2>3. call.op = "SAVE" /\ call.answer.ok => RowsNamed(new, call.answer.items)
    <3> SUFFICES ASSUME call.op = "SAVE", call.answer.ok PROVE RowsNamed(new, call.answer.items)
      OBVIOUS
    <3>1. PICK id \in 1 .. created : call.answer.items = <<[item |-> call.about, id |-> id]>>
      BY <1>3 DEF CallWellFormed, SaveCall
    <3>2. RowsNamed(owner, call.answer.items)
      BY <1>3 DEF CallNamed
    <3> QED
      BY <3>1, <3>2 DEF RowsNamed
  <2>4. call.op = "DELETE" => new[call.about.id] = call.about.item
    BY <1>3 DEF CallNamed, CallWellFormed, DeleteCall, AnyRow
  <2> QED
    BY <2>1, <2>2, <2>3, <2>4 DEF CallNamed
<1> QED
  BY <1>1, <1>2, <1>3

\* What a handler answers names the rows by their items.
LEMMA ServedNamed ==
    ASSUME StateTypes, NEW owner, NEW call, NEW new, RefsNamed(owner, saved), RefsNamed(owner, saved'),
           CallNamed(owner, call), CallWellFormed(call), call.op = "SAVE" => call.about \in Items, Served(call, new)
    PROVE  CallNamed(owner, new)
<1>1. new.op = call.op /\ new.about = call.about
  BY DEF Served
<1>2. new.op = "LIST" /\ new.answer.ok /\ new.step = "ANSWERED" => RefsNamed(owner, new.answer.refs)
  BY DEF Served
<1>3. new.op = "SAVED" /\ new.answer.ok => RowsNamed(owner, new.answer.items)
  <2> SUFFICES ASSUME new.op = "SAVED", new.answer.ok PROVE RowsNamed(owner, new.answer.items)
    OBVIOUS
  <2>1. PICK cursor, rows : cursor = call.cursor /\ rows = RowsAfter(cursor)
    OBVIOUS
  <2>2. \A k \in DOMAIN FirstPage(rows) : \E i \in Items : Older(i, cursor) /\ FirstPage(rows)[k] = Row(i)
    BY <2>1, SavedPage
  <2>3. new.answer.items = FirstPage(rows)
    BY <2>1 DEF Served
  <2> QED
    BY <2>2, <2>3 DEF RowsNamed, RefsNamed, Older, Row
<1>4. new.op = "SAVE" /\ new.answer.ok => RowsNamed(owner, new.answer.items)
  <2> SUFFICES ASSUME new.op = "SAVE", new.answer.ok PROVE RowsNamed(owner, new.answer.items)
    OBVIOUS
  <2>1. PICK i, id : i = new.about /\ id = saved'[i]
    OBVIOUS
  <2>2. new.answer.items = <<[item |-> i, id |-> id]>> /\ id # NoRow /\ i \in Items
    BY <1>1, <2>1 DEF Served
  <2>3. owner[id] = i
    BY <2>1, <2>2 DEF RefsNamed
  <2> QED
    BY <2>2, <2>3 DEF RowsNamed
<1>5. new.op = "DELETE" => owner[new.about.id] = new.about.item
  BY <1>1 DEF CallNamed
<1> QED
  BY <1>2, <1>3, <1>4, <1>5 DEF CallNamed

\* A row belongs to one item after every step.
LEMMA OwnedStep == PageShaped /\ RowsOwned /\ [PageNext]_pageVars => RowsOwned'
<1> SUFFICES ASSUME PageShaped, RowsOwned, [PageNext]_pageVars PROVE RowsOwned'
  OBVIOUS
<1>1. PICK owner \in [1 .. created -> Items] : Owned(owner)
  BY DEF RowsOwned
<1>2. StateTypes /\ CallTypes /\ PageFields /\ created \in Nat
  BY DEF PageShaped, StateTypes
<1>3. ASSUME Owned(owner)', created' = created PROVE RowsOwned'
  BY <1>1, <1>3 DEF RowsOwned
<1>4. ASSUME PageFrame PROVE RowsOwned'
  BY <1>1, <1>3, <1>4, FrameOwned DEF PageFrame, server
<1>5. ASSUME NEW c \in Calls, GetAnswer(c) PROVE RowsOwned'
  <2>1. CASE ListTaken(calls[c])
    BY <1>1, <1>3, <1>5, <2>1, GetAnswerIs, ListTakenOwned DEF ListTaken, server
  <2>2. CASE SavedTaken(calls[c])
    BY <1>1, <1>3, <1>5, <2>2, GetAnswerIs, SavedTakenOwned DEF SavedTaken, server
  <2>3. CASE ToggleTaken(calls[c])
    BY <1>1, <1>3, <1>5, <2>3, GetAnswerIs, ToggleTakenOwned DEF ToggleTaken, server
  <2> QED
    BY <1>4, <1>5, <2>1, <2>2, <2>3, GetAnswerIs
<1>6. ASSUME SavedMoves, page' = page,
             \A x \in Calls : calls'[x] # Nil =>
                 calls'[x] = calls[x] \/ (calls[x] # Nil /\ Served(calls[x], calls'[x]))
      PROVE  RowsOwned'
  <2>1. RefsNamed(owner, saved)
    BY <1>1 DEF Owned
  <2>2. PICK new \in [1 .. created' -> Items] :
            RefsNamed(new, saved') /\ \A k \in 1 .. created : new[k] = owner[k]
    BY <1>1, <1>2, <1>6, <2>1, OwnerAfter
  <2>3. /\ \A refs \in [Items -> 0 .. created] : RefsNamed(owner, refs) => RefsNamed(new, refs)
        /\ \A rows : AnyRows(rows) /\ RowsNamed(owner, rows) => RowsNamed(new, rows)
        /\ \A call : CallWellFormed(call) /\ CallNamed(owner, call) => CallNamed(new, call)
    BY <1>2, <2>2, StillNamed
  <2>4. RefsNamed(new, saved) /\ RefsNamed(new, page'.refs) /\ RowsNamed(new, page'.savedItems)
    BY <1>1, <1>2, <1>6, <2>3 DEF Owned, StateTypes, PageFields
  <2>5. ASSUME NEW x \in Calls, calls'[x] # Nil PROVE CallNamed(new, calls'[x])
    <3>1. PICK call, next : call = calls[x] /\ next = calls'[x]
      OBVIOUS
    <3>2. call # Nil /\ (next = call \/ Served(call, next))
      BY <1>6, <2>5, <3>1
    <3>3. CallWellFormed(call) /\ CallNamed(owner, call)
      BY <1>1, <1>2, <3>1, <3>2 DEF CallTypes, Owned
    <3>4. CallNamed(new, call)
      BY <2>3, <3>3
    <3>5. call.op = "SAVE" => call.about \in Items
      BY <1>2, <3>3 DEF CallWellFormed, SaveCall, PageFields
    <3>6. CallNamed(new, next)
      BY <1>2, <2>2, <2>4, <3>2, <3>3, <3>4, <3>5, ServedNamed
    <3> QED
      BY <3>1, <3>6
  <2> QED
    BY <2>2, <2>4, <2>5 DEF RowsOwned, Owned
<1>7. ASSUME NEW c \in Calls, HandleCall(c) \/ LoseAnswer(c) PROVE RowsOwned'
  <2>1. HandlerFrame(c)
    BY <1>7, HandlerIs
  <2> QED
    BY <1>6, <2>1 DEF HandlerFrame, Unserved
<1>8. ASSUME Elsewhere PROVE RowsOwned'
  BY <1>6, <1>8, ElsewhereIs
<1>9. ASSUME UNCHANGED pageVars PROVE RowsOwned'
  BY <1>6, <1>9 DEF pageVars, SavedMoves
<1> QED
  BY <1>4, <1>5, <1>7, <1>8, <1>9, UserStepFrame DEF PageNext

\* No row belongs to an item at first.
LEMMA OwnedInit == PageInit => RowsOwned
<1> SUFFICES ASSUME PageInit PROVE RowsOwned
  OBVIOUS
<1>1. PICK p, q : p = NoPage /\ q = Exploring(p)
  OBVIOUS
<1>2. IsPage(p) /\ p.savedItems = <<>> /\ p.refs = [i \in Items |-> NoRow]
  BY <1>1 DEF IsPage, NoPage
<1>3. q.refs = p.refs /\ SameSaved(p, q)
  BY <1>1, <1>2, ExploringFields
<1>4. page = q /\ created = 0 /\ saved = [i \in Items |-> NoRow]
  BY <1>1 DEF PageInit
<1>5. PICK none : none = [k \in 1 .. 0 |-> 0]
  OBVIOUS
<1>6. none \in [1 .. created -> Items]
  BY <1>4, <1>5
<1>7. RefsNamed(none, saved) /\ RefsNamed(none, page.refs) /\ RowsNamed(none, page.savedItems)
  BY <1>2, <1>3, <1>4 DEF RefsNamed, RowsNamed, SameSaved
<1>8. ASSUME NEW x \in Calls, calls[x] # Nil PROVE CallNamed(none, calls[x])
  <2>1. PICK c \in Calls : calls = [y \in Calls |-> IF y = c THEN Call("LIST", NoPage.tab, Nil, FALSE) ELSE Nil]
    BY DEF PageInit
  <2>2. PICK new, tab : new = calls[x] /\ tab = NoPage.tab
    OBVIOUS
  <2>3. Made(new, "LIST", tab, Nil)
    BY <1>8, <2>1, <2>2 DEF Made
  <2>4. new.op = "LIST" /\ ~new.answer.ok
    BY <2>3, NewCallFields
  <2> QED
    BY <2>2, <2>4 DEF CallNamed
<1> QED
  BY <1>6, <1>7, <1>8 DEF RowsOwned, Owned

-----------------------------------------------------------------------------
(* The list of saved items is complete                                     *)

\* A row that was there in the next state, and was not created by the step,
\* is there now.
LEMMA RowsStay ==
    ASSUME StateTypes, SavedMoves, NEW i \in Items, saved'[i] \in 1 .. created
    PROVE  saved'[i] = saved[i]
<1>1. created \in Nat /\ saved \in [Items -> 0 .. created]
  BY DEF StateTypes
<1>2. CASE \E j \in Items : saved' = [saved EXCEPT ![j] = created + 1]
  BY <1>1, <1>2
<1>3. CASE \E j \in Items : saved' = [saved EXCEPT ![j] = NoRow]
  BY <1>1, <1>3 DEF NoRow
<1> QED
  BY <1>2, <1>3 DEF SavedMoves

\* A row that is the first of its millisecond was so before others came.
LEMMA FirstStays ==
    ASSUME StateTypes, SavedMoves, NEW n, FirstOfItsMillisecond(n, created')
    PROVE  FirstOfItsMillisecond(n, created)
<1>1. created \in Nat /\ (created' = created \/ created' = created + 1)
  BY DEF StateTypes, SavedMoves
<1>2. 1 .. created \subseteq 1 .. created'
  BY <1>1
<1> QED
  BY <1>2 DEF FirstOfItsMillisecond

\* What is true of an answered call stays true while rows come and go.
LEMMA MovesServed ==
    ASSUME StateTypes, SavedMoves, NEW call, CallWellFormed(call), CallServed(saved, created, call)
    PROVE  CallServed(saved', created', call)
<1>1. created \in Nat
  BY DEF StateTypes
<1>2. ASSUME call.op = "SAVED", call.answer.ok PROVE AnswerComplete(saved', created', call)
  <2>1. call.basis \in 0 .. created /\ AnswerComplete(saved, created, call)
    BY <1>2 DEF CallWellFormed, SavedCall, CallServed
  <2>2. ASSUME NEW i \in Items, saved'[i] \in 1 .. call.basis PROVE saved'[i] = saved[i]
    BY <1>1, <2>1, <2>2, RowsStay
  <2>3. \A i \in Items : FirstOfItsMillisecond(saved'[i], created') => FirstOfItsMillisecond(saved'[i], created)
    BY FirstStays
  <2> QED
    BY <2>1, <2>2, <2>3 DEF AnswerComplete
<1>3. ASSUME call.op = "DELETE", call.answer.ok PROVE saved'[call.about.item] # call.about.id
  <2>1. call.about.item \in Items /\ call.about.id \in 1 .. created
    BY <1>3 DEF CallWellFormed, DeleteCall, AnyRow
  <2>2. saved[call.about.item] # call.about.id
    BY <1>3 DEF CallServed
  <2> QED
    BY <2>1, <2>2, RowsStay
<1> QED
  BY <1>2, <1>3 DEF CallServed

\* A handler's answer is complete when it is given.
LEMMA HandledServed ==
    ASSUME StateTypes, NEW call, NEW new, Served(call, new)
    PROVE  CallServed(saved', created', new)
<1>1. ASSUME new.op = "SAVED", new.answer.ok PROVE AnswerComplete(saved', created', new)
  <2>1. PICK cursor, rows : cursor = call.cursor /\ rows = RowsAfter(cursor)
    OBVIOUS
  <2>2. \A i \in Items : /\ Older(i, cursor) /\ FirstOfItsMillisecond(saved[i], created)
                         /\ UpTo(saved[i], CursorOf(rows))
                  => Row(i) \in Shown(FirstPage(rows))
    BY <2>1, SavedPage
  <2>3. /\ new.cursor = cursor /\ new.answer.items = FirstPage(rows) /\ new.answer.cursor = CursorOf(rows)
        /\ saved' = saved /\ created' = created
    BY <1>1, <2>1 DEF Served
  <2>4. \A i \in Items : saved[i] \in 1 .. new.basis /\ PastCursor(saved[i], cursor) => Older(i, cursor)
    BY DEF Older, NoRow, StateTypes, PastCursor
  <2> QED
    BY <2>2, <2>3, <2>4 DEF AnswerComplete, Row
<1>2. ASSUME new.op = "DELETE", new.answer.ok PROVE saved'[new.about.item] # new.about.id
  BY <1>2 DEF Served
<1> QED
  BY <1>1, <1>2 DEF CallServed

\* The page does not change what the calls were answered.
LEMMA FrameServed ==
    ASSUME SavedInv, CallsFrame, NEW x \in Calls, calls'[x] # Nil
    PROVE  CallServed(saved, created, calls'[x])
<1>1. PICK call, new : call = calls[x] /\ new = calls'[x]
  OBVIOUS
<1>2. CASE call # Nil /\ SameCall(call, new)
  <2>1. CallServed(saved, created, call)
    BY <1>1, <1>2 DEF SavedInv
  <2> QED
    BY <1>1, <1>2, <2>1 DEF SameCall, CallServed, AnswerComplete
<1>3. CASE ~new.answer.ok
  BY <1>1, <1>3 DEF CallServed
<1> QED
  BY <1>1, <1>2, <1>3 DEF CallsFrame

\* Neither do they change what is in the next page that is waited for.
LEMMA FrameCovers ==
    ASSUME SavedInv, CallsFrame, known' = known, NEW x \in Calls, calls'[x] # Nil
    PROVE  MoreCovers(calls[x])'
<1>1. PICK call, new : call = calls[x] /\ new = calls'[x]
  OBVIOUS
<1>2. CASE call # Nil /\ SameCall(call, new)
  <2>1. MoreCovers(call)
    BY <1>1, <1>2 DEF SavedInv
  <2> QED
    BY <1>1, <1>2, <2>1 DEF SameCall, MoreCovers
<1>3. CASE ~new.answer.ok
  BY <1>1, <1>3 DEF MoreCovers
<1> QED
  BY <1>1, <1>2, <1>3 DEF CallsFrame

\* When a list is begun, no other answer to it is waited for.
LEMMA TakenCovers ==
    ASSUME PageShaped, SavedInv, NEW c \in Calls, calls[c] # Nil, GetAnswer(c), SavedTaken(calls[c]),
           NEW x \in Calls, calls'[x] # Nil
    PROVE  MoreCovers(calls[x])'
<1>1. PICK call, new, mine : call = calls[x] /\ new = calls'[x] /\ mine = calls[c]
  OBVIOUS
<1>2. mine.op = "SAVED" /\ mine.current /\ CallsFrame
  BY <1>1 DEF SavedTaken
<1>3. calls' = [calls EXCEPT ![c] = Nil]
  BY <1>1, <1>2 DEF GetAnswer, ListAnswered, SavedAnswered, ToggleAnswered, InterestsAnswered, IsCall
<1>4. x # c /\ new = call
  BY <1>1, <1>3 DEF PageShaped, StateTypes
<1>5. ~Clash(mine, call)
  BY <1>1, <1>4 DEF PageShaped, CurrentCalls
<1> QED
  BY <1>1, <1>2, <1>4, <1>5 DEF Clash, MoreCovers

\* The rows that the list of saved items must hold, up to its cursor.
Due(rows, made, known0, cursor) ==
    {i \in Items : /\ rows[i] \in 1 .. known0 /\ FirstOfItsMillisecond(rows[i], made)
                   /\ UpTo(rows[i], cursor)}

ShowsDue(rows, made, known0, cursor, list) ==
    \A i \in Due(rows, made, known0, cursor) : [item |-> i, id |-> rows[i]] \in Shown(list)

\* The list shown is complete when it shows all that is due.
LEMMA ShownCompleteIs ==
    /\ ShownComplete <=>
           (page.savedStatus = "ready" => ShowsDue(saved, created, known, page.savedCursor, page.savedItems))
    /\ ShownComplete' <=>
           (page'.savedStatus = "ready" => ShowsDue(saved', created', known', page'.savedCursor, page'.savedItems))
BY DEF ShownComplete, ShowsDue, Due, Row

\* It stays complete when the page shows nothing new.
LEMMA SavedFrameShows ==
    ASSUME ShownComplete, SavedFrame, UNCHANGED <<saved, created, known>>
    PROVE  ShownComplete'
<1>1. CASE page'.savedStatus # "ready"
  BY <1>1, ShownCompleteIs
<1>2. CASE page'.savedStatus = "ready"
  <2>1. page.savedStatus = "ready" /\ page'.savedItems = page.savedItems /\ page'.savedCursor = page.savedCursor
    BY <1>2 DEF SavedFrame
  <2> QED
    BY <2>1, ShownCompleteIs
<1> QED
  BY <1>1, <1>2

\* It stays complete while rows come and go.
LEMMA MovesShow ==
    ASSUME StateTypes, ShownComplete, SavedMoves, UNCHANGED <<page, known>>
    PROVE  ShownComplete'
<1>1. created \in Nat /\ known \in 0 .. created
  BY DEF StateTypes
<1>2. ASSUME NEW i \in Items, saved'[i] \in 1 .. known PROVE saved'[i] = saved[i]
  BY <1>1, <1>2, RowsStay
<1>3. PICK rows, made, n, cursor, list :
          /\ rows = saved /\ made = created /\ n = known /\ cursor = page.savedCursor /\ list = page.savedItems
  OBVIOUS
<1>4. \A i \in Items : FirstOfItsMillisecond(saved'[i], created') => FirstOfItsMillisecond(saved'[i], made)
  BY <1>3, FirstStays
<1>5. ShowsDue(rows, made, n, cursor, list) => ShowsDue(saved', created', n, cursor, list)
  BY <1>2, <1>3, <1>4 DEF ShowsDue, Due
<1> QED
  BY <1>3, <1>5, ShownCompleteIs

\* It is complete when an answer is shown: what is after the cursor is in the answer.
LEMMA SavedTakenShows ==
    ASSUME PageShaped, SavedInv, NEW c \in Calls, calls[c] # Nil, SavedTaken(calls[c])
    PROVE  ShownComplete'
<1>1. PICK call, a : call = calls[c] /\ a = call.answer
  OBVIOUS
<1>2. /\ SavedCall(call) /\ Awaited(call) /\ AnswerComplete(saved, created, call) /\ MoreCovers(call)
      /\ call.op = "SAVED" /\ call.current /\ a.ok /\ saved' = saved /\ created' = created
      /\ page'.savedCursor = a.cursor /\ page'.savedStatus = "ready"
  BY <1>1 DEF PageShaped, CallTypes, CallWellFormed, CurrentCalls, SavedInv, CallServed, SavedTaken, server
<1>3. created \in Nat /\ saved \in [Items -> 0 .. created]
  BY DEF PageShaped, StateTypes
<1>4. CASE ~call.more
  <2>1. page'.savedItems = a.items /\ known' = call.basis /\ call.cursor = Nil
    BY <1>1, <1>2, <1>4 DEF SavedTaken, SavedCall
  <2>2. ShowsDue(saved, created, call.basis, a.cursor, a.items)
    BY <1>1, <1>2, <2>1 DEF ShowsDue, Due, AnswerComplete, PastCursor
  <2> QED
    BY <1>2, <2>1, <2>2, ShownCompleteIs
<1>5. CASE call.more
  <2>1. /\ page'.savedItems = Merge(page.savedItems, a.items) /\ known' = known
        /\ page.savedStatus = "ready" /\ call.cursor = page.savedCursor
        /\ call.cursor # Nil /\ call.basis \in 0 .. created /\ known <= call.basis
    BY <1>1, <1>2, <1>5 DEF SavedTaken, SavedCall, Awaited, MoreCovers
  <2>2. PICK rows, made, n, list, m :
            /\ rows = saved /\ made = created /\ n = known /\ list = page.savedItems /\ m = Merge(list, a.items)
    OBVIOUS
  <2>3. ShowsDue(rows, made, n, call.cursor, list)
    BY <2>1, <2>2, ShownCompleteIs DEF SavedInv
  <2>4. list \in Seq(AnyRow) /\ a.items \in Seq(AnyRow)
    BY <1>1, <1>2, <2>2 DEF PageShaped, PageFields, AnyRows, SavedCall
  <2>5. Shown(m) = Shown(list) \cup Shown(a.items)
    BY <2>2, <2>4, MergeShows
  <2>6. ASSUME NEW i \in Due(rows, made, n, a.cursor) PROVE [item |-> i, id |-> rows[i]] \in Shown(m)
    <3>1. /\ i \in Items /\ rows[i] \in 1 .. n /\ UpTo(rows[i], a.cursor)
          /\ FirstOfItsMillisecond(rows[i], made) /\ n \in Nat
      BY <1>3, <2>2 DEF Due, PageShaped, StateTypes
    <3>2. CASE UpTo(rows[i], call.cursor)
      BY <2>3, <2>5, <3>1, <3>2 DEF ShowsDue, Due
    <3>3. CASE ~UpTo(rows[i], call.cursor)
      <4>1. rows[i] \in 1 .. call.basis
        BY <1>3, <2>1, <2>2, <3>1
      <4>3. PastCursor(rows[i], call.cursor)
        BY <3>3 DEF UpTo, PastCursor
      <4>2. [item |-> i, id |-> rows[i]] \in Shown(a.items)
        BY <1>1, <1>2, <2>2, <3>1, <4>1, <4>3 DEF AnswerComplete
      <4> QED
        BY <2>5, <4>2
    <3> QED
      BY <3>2, <3>3
  <2>7. ShowsDue(rows, made, n, a.cursor, m)
    BY <2>6 DEF ShowsDue
  <2> QED
    BY <1>2, <2>1, <2>2, <2>7, ShownCompleteIs
<1> QED
  BY <1>4, <1>5

\* It stays complete when a toggle is shown: the row that goes is of that item.
LEMMA ToggleTakenShows ==
    ASSUME PageShaped, RowsOwned, SavedInv, NEW c \in Calls, calls[c] # Nil, ToggleTaken(calls[c])
    PROVE  ShownComplete'
<1>1. PICK call, a, i, rows, made, list, cursor, n :
          /\ made = created
          /\ call = calls[c] /\ a = call.answer /\ i = ItemOf(call)
          /\ rows = saved /\ list = page.savedItems /\ cursor = page.savedCursor /\ n = known
  OBVIOUS
<1>2. /\ a.ok /\ saved' = rows /\ created' = made /\ known' = n /\ page'.savedStatus = page.savedStatus /\ page'.savedCursor = cursor
      /\ IsToggle(call) /\ i \in Items
  BY <1>1 DEF ToggleTaken, server
<1>3. CASE page.savedStatus # "ready"
  BY <1>2, <1>3, ShownCompleteIs
<1>4. CASE page.savedStatus = "ready"
  <2>1. ShowsDue(rows, made, n, cursor, list) /\ list \in Seq(AnyRow) /\ n \in Nat
    BY <1>1, <1>4, ShownCompleteIs DEF SavedInv, PageShaped, PageFields, AnyRows, StateTypes
  <2>2. PICK owner \in [1 .. created -> Items] : Owned(owner)
    BY DEF RowsOwned
  <2>3. \A j \in Items : rows[j] # NoRow => owner[rows[j]] = j
    BY <1>1, <2>2 DEF Owned, RefsNamed
  <2>4. CallNamed(owner, call) /\ CallServed(rows, made, call)
    BY <1>1, <2>2 DEF Owned, SavedInv
  <2>5. ASSUME NEW id, NEW j \in Due(rows, made, n, cursor), rows[j] # id
        PROVE  [item |-> j, id |-> rows[j]] \in Shown(Without(list, id))
    <3>1. PICK row : row = [item |-> j, id |-> rows[j]]
      OBVIOUS
    <3>2. row \in Shown(list) /\ row.id # id
      BY <2>1, <2>5, <3>1 DEF ShowsDue
    <3>3. Shown(Without(list, id)) = {r \in Shown(list) : r.id # id}
      BY <2>1, WithoutShows
    <3> QED
      BY <3>1, <3>2, <3>3
  <2>6. \A j \in Due(rows, made, n, cursor) : j \in Items /\ rows[j] # NoRow
    BY <2>1 DEF Due, NoRow
  <2>7. CASE call.op = "DELETE"
    <3>1. PICK id : id = call.about.id
      OBVIOUS
    <3>2. page'.savedItems = Without(list, id)
      BY <1>1, <2>7, <3>1 DEF ToggleTaken
    <3>3. owner[id] = i /\ rows[i] # id
      BY <1>1, <1>2, <2>4, <2>7, <3>1 DEF CallNamed, CallServed, ItemOf
    <3>4. \A j \in Due(rows, made, n, cursor) : rows[j] # id
      BY <2>3, <2>6, <3>3
    <3>5. ShowsDue(rows, made, n, cursor, Without(list, id))
      BY <2>5, <3>4 DEF ShowsDue
    <3> QED
      BY <1>2, <3>2, <3>5, ShownCompleteIs
  <2>8. CASE call.op = "SAVE"
    <3>1. PICK id \in 1 .. created :
              /\ a.items = <<[item |-> i, id |-> id]>>
              /\ page'.savedItems = <<[item |-> i, id |-> id]>> \o Without(list, id)
      BY <1>1, <2>8 DEF ToggleTaken
    <3>2. PICK row, s : row = [item |-> i, id |-> id] /\ s = Without(list, id)
      OBVIOUS
    <3>3. row.item = i /\ row.id = id /\ s \in Seq(AnyRow)
      BY <2>1, <3>2, WithoutShows
    <3>4. owner[id] = i
      <4>1. RowsNamed(owner, a.items)
        BY <1>1, <1>2, <2>4, <2>8 DEF CallNamed
      <4> QED
        BY <3>1, <3>2, <3>3, <4>1 DEF RowsNamed
    <3>5. row \in Shown(<<row>> \o s) /\ \A r \in Shown(s) : r \in Shown(<<row>> \o s)
      <4>1. /\ Len(s) \in Nat /\ DOMAIN s = 1 .. Len(s) /\ DOMAIN (<<row>> \o s) = 1 .. Len(s) + 1
            /\ \A k \in 1 .. Len(s) + 1 : (<<row>> \o s)[k] = IF k = 1 THEN row ELSE s[k - 1]
        BY <3>3
      <4>2. \A k \in 1 .. Len(s) : k + 1 \in 1 .. Len(s) + 1 /\ (<<row>> \o s)[k + 1] = s[k]
        BY <4>1
      <4>3. 1 \in 1 .. Len(s) + 1 /\ (<<row>> \o s)[1] = row
        BY <4>1
      <4> DEFINE t == <<row>> \o s
      <4> HIDE DEF t
      <4>4. row \in Shown(t)
        BY <4>1, <4>3 DEF Shown, t
      <4>5. ASSUME NEW r \in Shown(s) PROVE r \in Shown(t)
        <5>1. PICK k \in DOMAIN s : r = s[k]
          BY <4>5 DEF Shown
        <5>2. k + 1 \in DOMAIN t /\ r = t[k + 1]
          BY <4>1, <4>2, <5>1 DEF t
        <5> QED
          BY <5>2 DEF Shown
      <4> QED
        BY <4>4, <4>5 DEF t
    <3>6. ASSUME NEW j \in Due(rows, made, n, cursor) PROVE [item |-> j, id |-> rows[j]] \in Shown(<<row>> \o s)
      <4>1. CASE rows[j] = id
        <5>1. j = i
          BY <2>3, <2>6, <3>4, <4>1
        <5> QED
          BY <3>2, <3>5, <4>1, <5>1
      <4>2. CASE rows[j] # id
        BY <2>5, <3>2, <3>5, <4>2
      <4> QED
        BY <4>1, <4>2
    <3>7. ShowsDue(rows, made, n, cursor, page'.savedItems)
      BY <3>1, <3>2, <3>6 DEF ShowsDue
    <3> QED
      BY <1>2, <3>7, ShownCompleteIs
  <2> QED
    BY <1>2, <2>7, <2>8 DEF IsToggle
<1> QED
  BY <1>3, <1>4

\* Every step leaves the list of saved items complete.
LEMMA SavedStep == PageShaped /\ RowsOwned /\ SavedInv /\ [PageNext]_pageVars => SavedInv'
<1> SUFFICES ASSUME PageShaped, RowsOwned, SavedInv, [PageNext]_pageVars PROVE SavedInv'
  OBVIOUS
<1>1. StateTypes /\ CallTypes /\ ShownComplete
  BY DEF PageShaped, SavedInv
<1>2. ASSUME ShownComplete', CallsFrame, UNCHANGED <<saved, created, known>> PROVE SavedInv'
  BY <1>2, FrameServed, FrameCovers DEF SavedInv
<1>3. ASSUME PageFrame PROVE SavedInv'
  BY <1>1, <1>2, <1>3, SavedFrameShows DEF PageFrame, server
<1>4. ASSUME NEW c \in Calls, GetAnswer(c) PROVE SavedInv'
  <2>1. CASE ListTaken(calls[c])
    BY <1>1, <1>2, <2>1, SavedFrameShows DEF ListTaken, server
  <2>2. CASE SavedTaken(calls[c])
    <3>1. ShownComplete' /\ CallsFrame /\ UNCHANGED <<saved, created>> /\ calls[c] # Nil
      BY <1>4, <2>2, GetAnswerIs, SavedTakenShows DEF SavedTaken, server
    <3> QED
      BY <1>4, <2>2, <3>1, FrameServed, TakenCovers DEF SavedInv
  <2>3. CASE ToggleTaken(calls[c])
    BY <1>2, <1>4, <2>3, GetAnswerIs, ToggleTakenShows DEF ToggleTaken, server
  <2> QED
    BY <1>3, <1>4, <2>1, <2>2, <2>3, GetAnswerIs
<1>5. ASSUME SavedMoves, UNCHANGED <<page, known>>,
             \A x \in Calls : calls'[x] # Nil =>
                 calls[x] # Nil /\ (calls'[x] = calls[x] \/ Served(calls[x], calls'[x]))
      PROVE  SavedInv'
  <2>1. ShownComplete'
    BY <1>1, <1>5, MovesShow
  <2>2. ASSUME NEW x \in Calls, calls'[x] # Nil
        PROVE  CallServed(saved', created', calls'[x]) /\ MoreCovers(calls[x])'
    <3>1. PICK call, new : call = calls[x] /\ new = calls'[x]
      OBVIOUS
    <3>2. call # Nil /\ (new = call \/ Served(call, new))
      BY <1>5, <2>2, <3>1
    <3>3. CallWellFormed(call) /\ CallServed(saved, created, call) /\ MoreCovers(call)
      BY <1>1, <3>1, <3>2 DEF CallTypes, SavedInv
    <3>4. CallServed(saved', created', new)
      BY <1>1, <1>5, <3>2, <3>3, MovesServed, HandledServed
    <3>5. MoreCovers(new)'
      BY <1>1, <1>5, <3>2, <3>3 DEF MoreCovers, Served, StateTypes
    <3> QED
      BY <3>1, <3>4, <3>5
  <2> QED
    BY <2>1, <2>2 DEF SavedInv
<1>6. ASSUME NEW c \in Calls, HandleCall(c) \/ LoseAnswer(c) PROVE SavedInv'
  <2>1. HandlerFrame(c)
    BY <1>6, HandlerIs
  <2> QED
    BY <1>5, <2>1 DEF HandlerFrame, Unserved
<1>7. ASSUME Elsewhere PROVE SavedInv'
  BY <1>5, <1>7, ElsewhereIs
<1>8. ASSUME UNCHANGED pageVars PROVE SavedInv'
  BY <1>5, <1>8 DEF pageVars, SavedMoves
<1> QED
  BY <1>3, <1>4, <1>6, <1>7, <1>8, UserStepFrame DEF PageNext

\* Nothing is due at first.
LEMMA SavedInit == PageInit => SavedInv
<1> SUFFICES ASSUME PageInit PROVE SavedInv
  OBVIOUS
<1>1. PICK p, q : p = NoPage /\ q = Exploring(p)
  OBVIOUS
<1>2. IsPage(p) /\ p.savedStatus = "idle"
  BY <1>1 DEF IsPage, NoPage
<1>3. SameSaved(p, q)
  BY <1>1, <1>2, ExploringFields
<1>4. page.savedStatus = "idle"
  BY <1>1, <1>2, <1>3 DEF PageInit, SameSaved
<1>5. ASSUME NEW x \in Calls, calls[x] # Nil PROVE CallServed(saved, created, calls[x]) /\ MoreCovers(calls[x])
  <2>1. PICK c \in Calls : calls = [y \in Calls |-> IF y = c THEN Call("LIST", NoPage.tab, Nil, FALSE) ELSE Nil]
    BY DEF PageInit
  <2>2. PICK new, tab : new = calls[x] /\ tab = NoPage.tab
    OBVIOUS
  <2>3. Made(new, "LIST", tab, Nil)
    BY <1>5, <2>1, <2>2 DEF Made
  <2>4. new.op = "LIST"
    BY <2>3, NewCallFields
  <2> QED
    BY <2>2, <2>4 DEF CallServed, MoreCovers
<1> QED
  BY <1>4, <1>5 DEF SavedInv, ShownComplete

\* When the list of saved items is shown to its end, every row that was there
\* when it was begun and still is, is in it, unless another row of its
\* millisecond is listed before it (listSavedItems, loadMoreSaved).
THEOREM SavedListComplete == PageSpec => []SavedComplete
<1>1. PageInit => PageShaped /\ RowsOwned /\ SavedInv
  BY PageInitShape, OwnedInit, SavedInit
<1>2. PageShaped /\ RowsOwned /\ SavedInv /\ [PageNext]_pageVars => (PageShaped /\ RowsOwned /\ SavedInv)'
  BY ShapeStep, OwnedStep, SavedStep
<1>3. PageShaped /\ RowsOwned /\ SavedInv => SavedComplete
  BY DEF SavedInv, ShownComplete, SavedComplete, UpTo
<1> QED
  BY <1>1, <1>2, <1>3, PTL DEF PageSpec
\* The four parts of the inductive invariant hold together in every state.
THEOREM PageInvariant == PageSpec => []PageInv
<1>1. PageInit => PageInv
  BY PageInitShape, ListsInit, OwnedInit, SavedInit DEF PageInv
<1>2. PageInv /\ [PageNext]_pageVars => PageInv'
  BY ShapeStep, ListsStep, OwnedStep, SavedStep DEF PageInv
<1> QED
  BY <1>1, <1>2, PTL DEF PageSpec
=============================================================================
