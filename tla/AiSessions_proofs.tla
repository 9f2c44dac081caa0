-------------------------- MODULE AiSessions_proofs --------------------------
(* Theorems about AiSessions, for every set of rows, devices, messages and  *)
(* keys and every timeout: what the rows are and that they implement the    *)
(* lifecycle of one session; then what the ledger of plugin events and the  *)
(* stored responses of the manual API say of the rows, and when an          *)
(* abandoned session ended.                                                 *)
EXTENDS AiSessionsProps, TLAPS, FiniteSetTheorems, WellFoundedInduction

-----------------------------------------------------------------------------
(* Induction on natural numbers in the form used below: a nonempty set of   *)
(* them has a least element.                                                *)

LEMMA LeastElement ==
    ASSUME NEW S \in SUBSET Nat, S # {}
    PROVE  \E m \in S : \A k \in S : m <= k
<1>1. PICK m \in S : \A k \in S : ~ (<<k, m>> \in OpToRel(<, Nat))
  BY NatLessThanWellFounded, WFMin
<1>2. \A k \in S : ~ (k < m)
  BY <1>1 DEF OpToRel
<1> QED
  BY <1>2

(* The recursive definition in Replay has a solution, so that its equation  *)
(* may be used.                                                             *)
LEMMA ReplayUnfolds ==
    ASSUME NEW s, NEW row, NEW q, NEW size \in Nat, NEW startAt
    PROVE  Replay(s, row, q, size, startAt) =
               [i \in 0..size |->
                   IF i = 0 THEN row
                   ELSE AfterDeferred(s, q[i], Replay(s, row, q, size, startAt)[i - 1],
                                      startAt)]
<1> DEFINE Next1(i, r) == AfterDeferred(s, q[i], r, startAt)
           Solves(f, k) == f = [i \in 0..k |-> IF i = 0 THEN row ELSE Next1(i, f[i - 1])]
           Unsolved == {k \in Nat : ~ \E f : Solves(f, k)}
<1> HIDE DEF Next1
<1>1. ASSUME NEW k \in Unsolved, \A j \in Unsolved : k <= j
      PROVE  FALSE
  <2>1. CASE k = 0
    <3>1. Solves([i \in 0..0 |-> row], 0)
      OBVIOUS
    <3> QED
      BY <2>1, <3>1
  <2>2. CASE k # 0
    <3>1. k \in Nat /\ k - 1 \in Nat
      BY <2>2
    <3>0. k - 1 \notin Unsolved
      BY <1>1, <3>1
    <3>2. PICK f : Solves(f, k - 1)
      BY <3>0, <3>1
    <3> DEFINE g == [i \in 0..k |-> IF i = k THEN Next1(k, f[k - 1]) ELSE f[i]]
    <3>3. \A i \in 0..k : g[i] = IF i = 0 THEN row ELSE Next1(i, g[i - 1])
      <4> TAKE i \in 0..k
      <4>1. CASE i = k
        <5>1. g[k - 1] = f[k - 1]
          BY <3>1
        <5> QED
          BY <4>1, <5>1, <2>2
      <4>2. CASE i # k
        <5>1. i \in 0..(k - 1) /\ g[i] = f[i]
          BY <4>2
        <5>2. f[i] = IF i = 0 THEN row ELSE Next1(i, f[i - 1])
          BY <3>2, <5>1
        <5>3. i # 0 => g[i - 1] = f[i - 1]
          BY <5>1
        <5> QED
          BY <5>1, <5>2, <5>3
      <4> QED
        BY <4>1, <4>2
    <3>4. Solves(g, k)
      BY <3>3
    <3> QED
      BY <3>4
  <2> QED
    BY <2>1, <2>2
<1>2. Unsolved = {}
  BY <1>1, LeastElement
<1>3. \E f : Solves(f, size)
  BY <1>2
<1>4. Solves(CHOOSE f : Solves(f, size), size)
  BY <1>3
<1>5. Replay(s, row, q, size, startAt) = CHOOSE f : Solves(f, size)
  BY DEF Replay, Next1
<1> QED
  BY <1>4, <1>5 DEF Next1
-----------------------------------------------------------------------------
(* What the operations on one row keep.                                     *)

RowOK(row) == row \in Row /\ RowConstraints(row)

\* The row keeps its identity and start, and is not opened again.
SameSession(a, b) ==
    /\ b.origin = a.origin /\ b.key = a.key /\ b.turn = a.turn
    /\ b.startedAt = a.startedAt
    /\ b.status = "NONE" <=> a.status = "NONE"
    /\ IsActive(b) => IsActive(a)

\* The phases and ends a row may go through under events.
Advances(a, b) ==
    \/ PhaseOf(b) = PhaseOf(a) /\ b.endedAt = a.endedAt
    \/ PhaseOf(a) = "open" /\ PhaseOf(b) = "closed" /\ b.endedAt >= a.startedAt
    \/ PhaseOf(a) = "lapsed" /\ PhaseOf(b) = "closed" /\ b.endedAt = a.endedAt

Evolves(a, b) == RowOK(b) /\ SameSession(a, b) /\ Advances(a, b)

LEMMA LaterType ==
    ASSUME NEW a \in Nat, NEW b \in Nat
    PROVE  Later(a, b) \in Nat /\ Later(a, b) >= a /\ Later(a, b) >= b
  BY DEF Later

\* Every status has its reasons, and they tell the statuses apart.
LEMMA RowIsInPhase ==
    ASSUME NEW row, RowOK(row)
    PROVE  /\ row.endedAt = Null <=> PhaseOf(row) \in {"absent", "open"}
           /\ row.status = "NONE" <=> PhaseOf(row) = "absent"
           /\ IsActive(row) <=> PhaseOf(row) = "open"
           /\ PhaseOf(row) \in {"absent", "open", "lapsed", "closed"}
           /\ row.reason = "HEARTBEAT_TIMEOUT" => row.status = "ABANDONED"
           /\ IsActive(row) => row.reason = Null /\ row.reason # "HEARTBEAT_TIMEOUT"
           /\ row.endedAt # Null => row.endedAt \in Nat
<1>1. /\ row.status \in {"NONE", "RUNNING", "WAITING_FOR_USER",
                         "COMPLETED", "FAILED", "ABANDONED"}
      /\ row.endedAt \in Nat \cup {Null}
      /\ row.reason \in ReasonOf(row.status)
      /\ row.endedAt = Null <=> row.status \notin EndStatuses
  BY DEF RowOK, Row, RowConstraints, ActiveStatuses, EndStatuses
<1>2. /\ row.status = "COMPLETED" => row.reason # "HEARTBEAT_TIMEOUT"
      /\ row.status = "FAILED" => row.reason # "HEARTBEAT_TIMEOUT"
  BY <1>1 DEF ReasonOf
<1>3. row.status \in {"NONE", "RUNNING", "WAITING_FOR_USER"} => row.reason = Null
  BY <1>1 DEF ReasonOf
<1>4. Null # "HEARTBEAT_TIMEOUT"
  BY NullAssumption DEF TerminalReasons
<1> QED
  BY <1>1, <1>2, <1>3, <1>4 DEF PhaseOf, IsActive, ActiveStatuses, EndStatuses

LEMMA EvolvesIsReflexive ==
    ASSUME NEW row, RowOK(row)
    PROVE  Evolves(row, row)
  BY DEF Evolves, SameSession, Advances

LEMMA EvolvesIsTransitive ==
    ASSUME NEW a, NEW b, NEW c, RowOK(a), Evolves(a, b), Evolves(b, c)
    PROVE  Evolves(a, c)
<1>1. RowOK(c) /\ SameSession(a, c)
  BY DEF Evolves, SameSession
<1>2. Advances(a, c)
  BY DEF Evolves, SameSession, Advances
<1> QED
  BY <1>1, <1>2 DEF Evolves

LEMMA RowUpdated ==
    ASSUME NEW row \in Row, NEW status \in ActiveStatuses \cup EndStatuses,
           NEW endedAt \in Nat \cup {Null}, NEW reason, NEW lastActivityAt \in Nat,
           NEW timing \in {"EXACT", "DEGRADED"},
           reason = Null \/ \E r \in EndStatuses : reason \in ReasonOf(r)
    PROVE  [row EXCEPT !.status = status, !.endedAt = endedAt, !.reason = reason,
                       !.lastActivityAt = lastActivityAt, !.timing = timing] \in Row
<1>1. reason \in TerminalReasons \cup {Null}
  BY DEF ReasonOf, EndStatuses, TerminalReasons
<1> QED
  BY <1>1 DEF Row

\* An event applied to an active row.
LEMMA TouchedEvolves ==
    ASSUME NEW row, RowOK(row), IsActive(row), NEW event, NEW at \in Nat
    PROVE  Evolves(row, Touched(row, event, at))
<1> DEFINE new == Touched(row, event, at)
           effectiveAt == Later(at, row.startedAt)
<1>1. /\ row \in Row /\ row.startedAt \in Nat /\ row.lastActivityAt \in Nat
      /\ row.lastActivityAt >= row.startedAt
  BY DEF RowOK, Row, RowConstraints
<1>2. /\ effectiveAt \in Nat /\ effectiveAt >= row.startedAt
      /\ Later(row.lastActivityAt, effectiveAt) \in Nat
      /\ Later(row.lastActivityAt, effectiveAt) >= row.startedAt
  BY <1>1 DEF Later
<1>3. /\ StatusAfter(row.status, event) \in ActiveStatuses \cup {"COMPLETED"}
      /\ event # "Stop" => StatusAfter(row.status, event) \in ActiveStatuses
      /\ event = "Stop" => StatusAfter(row.status, event) = "COMPLETED"
  BY DEF StatusAfter, IsActive, ActiveStatuses
<1>4. /\ new.status = StatusAfter(row.status, event)
      /\ new.endedAt = IF event = "Stop" THEN effectiveAt ELSE Null
      /\ new.reason = IF event = "Stop" THEN "HOOK_STOP" ELSE Null
      /\ new.lastActivityAt = Later(row.lastActivityAt, effectiveAt)
      /\ new.origin = row.origin /\ new.key = row.key /\ new.turn = row.turn
      /\ new.startedAt = row.startedAt
  BY <1>1 DEF Touched, Row
<1>5. new \in Row
  <2> DEFINE endedAt == IF event = "Stop" THEN effectiveAt ELSE Null
             reason == IF event = "Stop" THEN "HOOK_STOP" ELSE Null
             timing == IF at < row.startedAt THEN "DEGRADED" ELSE row.timing
  <2>1. /\ StatusAfter(row.status, event) \in ActiveStatuses \cup EndStatuses
        /\ endedAt \in Nat \cup {Null}
        /\ reason = Null \/ \E r \in EndStatuses : reason \in ReasonOf(r)
        /\ Later(row.lastActivityAt, effectiveAt) \in Nat
    BY <1>2, <1>3 DEF EndStatuses, ReasonOf
  <2>2. timing \in {"EXACT", "DEGRADED"}
    BY <1>1 DEF Row
  <2>3. new = [row EXCEPT
            !.status = StatusAfter(row.status, event), !.endedAt = endedAt,
            !.reason = reason, !.timing = timing,
            !.lastActivityAt = Later(row.lastActivityAt, effectiveAt)]
    BY <1>1 DEF Touched, Row
  <2>4. new = [row EXCEPT
            !.status = StatusAfter(row.status, event), !.endedAt = endedAt,
            !.reason = reason,
            !.lastActivityAt = Later(row.lastActivityAt, effectiveAt),
            !.timing = timing]
    BY <2>3, <1>1 DEF Row
  <2> HIDE DEF new, endedAt, reason, timing, effectiveAt
  <2> QED
    BY <1>1, <2>1, <2>2, <2>4, RowUpdated
<1> HIDE DEF new, effectiveAt
<1>6. RowConstraints(new)
  BY <1>1, <1>2, <1>3, <1>4, NullAssumption
  DEF RowConstraints, ReasonOf, ActiveStatuses, EndStatuses
<1>7. SameSession(row, new)
  BY <1>3, <1>4 DEF SameSession, IsActive, ActiveStatuses
<1>8. Advances(row, new)
  <2>1. PhaseOf(row) = "open" /\ row.endedAt = Null
    BY RowIsInPhase DEF PhaseOf
  <2>2. CASE event = "Stop"
    BY <1>2, <1>3, <1>4, <2>1, <2>2 DEF Advances, PhaseOf, IsActive, ActiveStatuses
  <2>3. CASE event # "Stop"
    BY <1>3, <1>4, <2>1, <2>3 DEF Advances, PhaseOf, IsActive, ActiveStatuses
  <2> QED
    BY <2>2, <2>3
<1> QED
  BY <1>5, <1>6, <1>7, <1>8 DEF new, Evolves, RowOK

\* Any event, applied to any row: the handler's three outcomes.
LEMMA AfterEventEvolves ==
    ASSUME NEW row, RowOK(row), NEW event, NEW at \in Nat, NEW known
    PROVE  Evolves(row, AfterEvent(row, event, at, known))
<1>1. CASE IsActive(row)
  BY <1>1, TouchedEvolves DEF AfterEvent
<1>2. CASE ~IsActive(row) /\ Recoverable(row, event, at, known)
  <2> DEFINE new == [row EXCEPT !.status = "COMPLETED", !.reason = "RECOVERED_LATE_STOP",
                                !.timing = "DEGRADED"]
  <2>1. AfterEvent(row, event, at, known) = new
    BY <1>2 DEF AfterEvent
  <2>2. new \in Row
    BY DEF RowOK, Row, TerminalReasons, EndStatuses
  <2>3. /\ new.status = "COMPLETED" /\ new.reason = "RECOVERED_LATE_STOP"
        /\ new.endedAt = row.endedAt /\ new.startedAt = row.startedAt
        /\ new.lastActivityAt = row.lastActivityAt
        /\ new.origin = row.origin /\ new.key = row.key /\ new.turn = row.turn
    BY DEF RowOK, Row
  <2> HIDE DEF new
  <2>4. row.status = "ABANDONED" /\ row.reason = "HEARTBEAT_TIMEOUT"
    BY <1>2 DEF Recoverable
  <2>5. RowConstraints(new)
    BY <2>3, <2>4 DEF RowOK, RowConstraints, ReasonOf, EndStatuses
  <2>6. SameSession(row, new) /\ Advances(row, new)
    BY <2>3, <2>4 DEF SameSession, Advances, PhaseOf, IsActive, ActiveStatuses
  <2> QED
    BY <2>1, <2>2, <2>5, <2>6 DEF Evolves, RowOK
<1>3. CASE ~IsActive(row) /\ ~Recoverable(row, event, at, known)
  BY <1>3, EvolvesIsReflexive DEF AfterEvent
<1> QED
  BY <1>1, <1>2, <1>3

\* The row at every point of a replay of deferred events.
LEMMA ReplayEvolves ==
    ASSUME NEW s, NEW row, RowOK(row), NEW size \in Nat, NEW q, NEW startAt,
           \A i \in 1..size : events[q[i]].receivedAt \in Nat
    PROVE  \A i \in 0..size : Evolves(row, Replay(s, row, q, size, startAt)[i])
<1> DEFINE after == Replay(s, row, q, size, startAt)
           Bad == {i \in 0..size : ~ Evolves(row, after[i])}
<1>0. after = [i \in 0..size |->
                  IF i = 0 THEN row ELSE AfterDeferred(s, q[i], after[i - 1], startAt)]
  BY ReplayUnfolds
<1> HIDE DEF after
<1>1. /\ after[0] = row
      /\ \A i \in 1..size : after[i] = AfterDeferred(s, q[i], after[i - 1], startAt)
  BY <1>0
<1>2. ASSUME NEW i \in Bad, \A j \in Bad : i <= j
      PROVE  FALSE
  <2>1. i # 0
    BY <1>1, EvolvesIsReflexive
  <2>2. i \in 1..size /\ i - 1 \in 0..size /\ i - 1 \notin Bad
    BY <1>2, <2>1
  <2>3. Evolves(row, after[i - 1])
    BY <2>2
  <2>4. Evolves(after[i - 1], after[i])
    <3>1. RowOK(after[i - 1])
      BY <2>3 DEF Evolves
    <3>2. events[q[i]].receivedAt \in Nat
      BY <2>2
    <3> QED
      BY <1>1, <2>2, <3>1, <3>2, AfterEventEvolves, EvolvesIsReflexive DEF AfterDeferred
  <2> QED
    BY <2>3, <2>4, EvolvesIsTransitive
<1>3. Bad \in SUBSET Nat
  OBVIOUS
<1>4. Bad = {}
  BY <1>2, <1>3, LeastElement
<1> QED
  BY <1>4 DEF after

\* A row that a user, a new turn or nobody ends.
LEMMA EndedRow ==
    ASSUME NEW row, RowOK(row), IsActive(row), NEW status \in EndStatuses,
           NEW reason \in ReasonOf(status), NEW at \in Nat,
           reason # "HEARTBEAT_TIMEOUT"
    PROVE  /\ Evolves(row, Ended(row, status, reason, at))
           /\ ~IsActive(Ended(row, status, reason, at))
<1> DEFINE new == Ended(row, status, reason, at)
<1>1. /\ row.startedAt \in Nat /\ row.lastActivityAt \in Nat
      /\ row.lastActivityAt >= row.startedAt /\ row \in Row
  BY DEF RowOK, Row, RowConstraints
<1>2. /\ Later(at, row.startedAt) \in Nat /\ Later(at, row.startedAt) >= row.startedAt
      /\ Later(row.lastActivityAt, at) \in Nat
      /\ Later(row.lastActivityAt, at) >= row.startedAt
  BY <1>1 DEF Later
<1>3. /\ new.status = status /\ new.reason = reason
      /\ new.endedAt = Later(at, row.startedAt)
      /\ new.lastActivityAt = Later(row.lastActivityAt, at)
      /\ new.origin = row.origin /\ new.key = row.key /\ new.turn = row.turn
      /\ new.startedAt = row.startedAt
  BY <1>1 DEF Ended, Row
<1>4. new \in Row
  <2>1. row.timing \in {"EXACT", "DEGRADED"}
    BY <1>1 DEF Row
  <2>2. new = [row EXCEPT !.status = status, !.endedAt = Later(at, row.startedAt),
                   !.reason = reason, !.lastActivityAt = Later(row.lastActivityAt, at),
                   !.timing = row.timing]
    BY <1>1 DEF Ended, Row
  <2> HIDE DEF new
  <2> QED
    BY <1>1, <1>2, <2>1, <2>2, RowUpdated
<1> HIDE DEF new
<1>5. RowConstraints(new)
  BY <1>2, <1>3, NullAssumption DEF RowConstraints
<1>6. SameSession(row, new) /\ ~IsActive(new)
  BY <1>3 DEF SameSession, IsActive, ActiveStatuses, EndStatuses
<1>7. PhaseOf(row) = "open" /\ PhaseOf(new) = "closed"
  BY <1>3, <1>6 DEF PhaseOf, EndStatuses, IsActive, ActiveStatuses
<1> QED
  BY <1>2, <1>3, <1>4, <1>5, <1>6, <1>7 DEF new, Evolves, RowOK, Advances

\* A row under one run of the recovery job.
LEMMA AbandonedRow ==
    ASSUME NEW row, RowOK(row), clock \in Nat
    PROVE  /\ RowOK(Abandoned(row))
           /\ SameSession(row, Abandoned(row))
           /\ \/ Abandoned(row) = row
              \/ /\ PhaseOf(row) = "open"
                 /\ PhaseOf(Abandoned(row)) \in {"lapsed", "closed"}
                 /\ Abandoned(row).endedAt >= row.startedAt
<1> DEFINE new == Abandoned(row)
<1>0. /\ HeartbeatTimeout \in Nat /\ ManualTimeout \in Nat
      /\ HeartbeatTimeout >= 0 /\ ManualTimeout >= 0
  BY TimeAssumption
<1>1. /\ row.startedAt \in Nat /\ row.lastActivityAt \in Nat
      /\ row.lastActivityAt >= row.startedAt /\ row \in Row
  BY DEF RowOK, Row, RowConstraints
<1>2. CASE Silent(row)
  <2> DEFINE end == row.lastActivityAt + HeartbeatTimeout
  <2>1. end \in Nat /\ end >= row.startedAt
    BY <1>0, <1>1
  <2> HIDE DEF end
  <2>2. new = [row EXCEPT !.status = "ABANDONED", !.reason = "HEARTBEAT_TIMEOUT",
                          !.timing = "DEGRADED", !.endedAt = end]
    BY <1>2 DEF Abandoned, end
  <2>3. /\ new.status = "ABANDONED" /\ new.reason = "HEARTBEAT_TIMEOUT"
        /\ new.endedAt = end /\ new.startedAt = row.startedAt
        /\ new.lastActivityAt = row.lastActivityAt
        /\ new.origin = row.origin /\ new.key = row.key /\ new.turn = row.turn
    BY <2>2, <1>1 DEF Row
  <2>4. new \in Row
    BY <2>1, <2>2, <1>1 DEF Row, EndStatuses, TerminalReasons
  <2> HIDE DEF new
  <2>5. RowConstraints(new)
    BY <1>1, <2>1, <2>3, NullAssumption DEF RowConstraints, ReasonOf, EndStatuses
  <2>6. SameSession(row, new) /\ IsActive(row) /\ PhaseOf(new) = "lapsed"
    BY <1>2, <2>3 DEF SameSession, IsActive, ActiveStatuses, Silent, PhaseOf
  <2> QED
    BY <2>1, <2>3, <2>4, <2>5, <2>6 DEF RowOK, PhaseOf, IsActive, ActiveStatuses, new
<1>3. CASE ~Silent(row) /\ Overlong(row)
  <2> DEFINE end == row.startedAt + ManualTimeout
  <2>1. /\ end \in Nat /\ end >= row.startedAt
        /\ Later(row.lastActivityAt, end) \in Nat
        /\ Later(row.lastActivityAt, end) >= row.startedAt
    BY <1>0, <1>1 DEF Later
  <2> HIDE DEF end
  <2>2. new = [row EXCEPT !.status = "ABANDONED", !.reason = "MANUAL_TIMEOUT",
                          !.timing = "DEGRADED", !.endedAt = end,
                          !.lastActivityAt = Later(row.lastActivityAt, end)]
    BY <1>3, <1>1 DEF Abandoned, end, Row
  <2>3. /\ new.status = "ABANDONED" /\ new.reason = "MANUAL_TIMEOUT"
        /\ new.endedAt = end /\ new.startedAt = row.startedAt
        /\ new.lastActivityAt = Later(row.lastActivityAt, end)
        /\ new.origin = row.origin /\ new.key = row.key /\ new.turn = row.turn
    BY <2>2, <1>1 DEF Row
  <2>4. new \in Row
    BY <2>1, <2>2, <1>1 DEF Row, EndStatuses, TerminalReasons
  <2> HIDE DEF new
  <2>5. RowConstraints(new)
    BY <1>1, <2>1, <2>3, NullAssumption DEF RowConstraints, ReasonOf, EndStatuses
  <2>6. SameSession(row, new) /\ IsActive(row) /\ PhaseOf(new) = "closed"
    BY <1>3, <2>3 DEF SameSession, IsActive, ActiveStatuses, Overlong, PhaseOf
  <2> QED
    BY <2>1, <2>3, <2>4, <2>5, <2>6 DEF RowOK, PhaseOf, IsActive, ActiveStatuses, new
<1>4. CASE ~Silent(row) /\ ~Overlong(row)
  BY <1>4 DEF Abandoned, SameSession
<1> QED
  BY <1>2, <1>3, <1>4

LEMMA NewRowOK ==
    ASSUME NEW origin \in {"HOOK", "MANUAL"}, NEW key \in SessionKeys \cup {Null},
           NEW turn \in TurnKeys \cup {Null}, NEW at \in Nat
    PROVE  LET row == NewRow(origin, key, turn, at)
           IN  /\ RowOK(row) /\ IsActive(row) /\ row.endedAt = Null
               /\ row.origin = origin /\ row.key = key /\ row.turn = turn
               /\ row.startedAt = at
<1> DEFINE row == NewRow(origin, key, turn, at)
<1> DEFINE blank == NoRow
<1>0. blank \in Row /\ blank.endedAt = Null /\ blank.reason = Null
  BY DEF NoRow, Row
<1> HIDE DEF blank
<1>1. /\ row.status = "RUNNING" /\ row.origin = origin /\ row.key = key
      /\ row.turn = turn /\ row.startedAt = at /\ row.endedAt = Null
      /\ row.lastActivityAt = at /\ row.reason = Null
  BY <1>0 DEF NewRow, Row, blank
<1>2. row \in Row
  BY <1>0 DEF NewRow, Row, blank, ActiveStatuses
<1> HIDE DEF row
<1>3. RowConstraints(row)
  BY <1>1 DEF RowConstraints, ReasonOf, EndStatuses
<1> QED
  BY <1>1, <1>2, <1>3 DEF row, RowOK, IsActive, ActiveStatuses

-----------------------------------------------------------------------------
(* The inductive invariant.  SchemaHolds is not inductive: that a turn has  *)
(* one row needs free rows to have no turn, and that a start leaves nothing *)
(* deferred needs every deferred event to name a turn.                      *)

TableOK(tab) ==
    /\ tab \in [Sessions -> Row]
    /\ \A r \in Sessions : RowConstraints(tab[r])
    /\ \A r \in Sessions : tab[r].status = "NONE" => tab[r].turn = Null
    /\ \A r, s \in Sessions :
           /\ IsActive(tab[r]) /\ IsActive(tab[s])
           /\ tab[r].origin = "MANUAL" /\ tab[s].origin = "MANUAL"
           => r = s
    /\ \A r, s \in Sessions :
           /\ IsActive(tab[r]) /\ IsActive(tab[s])
           /\ tab[r].key # Null /\ tab[r].key = tab[s].key
           => r = s
    /\ \A r, s \in Sessions :
           tab[r].turn # Null /\ tab[r].turn = tab[s].turn => r = s

\* A deferred event names a turn, and that turn has no row.
DeferredWait ==
    \A n \in Messages : events[n].result = "DEFERRED" =>
        n.turn # Null /\ \A s \in Sessions : sessions[s].turn # n.turn

IInv == TypeOK /\ TableOK(sessions) /\ DeferredWait

LEMMA IInvImplies == IInv => SchemaHolds /\ NothingDeferredAfterStart
<1> SUFFICES ASSUME IInv PROVE SchemaHolds /\ NothingDeferredAfterStart
  OBVIOUS
<1>1. SchemaHolds
  BY DEF IInv, TableOK, SchemaHolds, OneActiveManual, OneActivePerKey,
         OneSessionPerTurn, ActiveManual
<1>2. NothingDeferredAfterStart
  BY DEF IInv, DeferredWait, NothingDeferredAfterStart, OfTurn
<1> QED
  BY <1>1, <1>2

LEMMA TableEvolves ==
    ASSUME NEW tab, TableOK(tab), NEW new \in [Sessions -> Row],
           \A r \in Sessions : RowConstraints(new[r]) /\ SameSession(tab[r], new[r])
    PROVE  TableOK(new)
  BY DEF TableOK, SameSession

\* One row of a table evolves; the others stay.
LEMMA RowEvolves ==
    ASSUME NEW tab, TableOK(tab), NEW s \in Sessions, NEW row, Evolves(tab[s], row),
           NEW new \in [Sessions -> Row],
           \A r \in Sessions : new[r] = IF r = s THEN row ELSE tab[r]
    PROVE  TableOK(new) /\ \A r \in Sessions : new[r].turn = tab[r].turn
<1>1. \A r \in Sessions : RowOK(tab[r])
  BY DEF TableOK, RowOK
<1>2. RowOK(row) /\ SameSession(tab[s], row)
  BY DEF Evolves
<1>5. \A r \in Sessions : RowConstraints(new[r]) /\ SameSession(tab[r], new[r])
  <2> TAKE r \in Sessions
  <2>1. RowOK(tab[r]) /\ SameSession(tab[r], tab[r])
    BY <1>1 DEF SameSession
  <2> QED
    BY <1>2, <2>1 DEF RowOK
<1>6. TableOK(new)
  BY <1>5, TableEvolves
<1> QED
  BY <1>5, <1>6 DEF SameSession

\* What the end of a turn's start writes, whatever the order of the deferred
\* events: the row evolves from its place in table, and none of the turn's
\* events is left deferred.
LEMMA FinishEffect ==
    ASSUME TypeOK, NEW m \in Messages, NEW s \in Sessions,
           NEW table, TableOK(table),
           NEW result \in Results \ {"DEFERRED"},
           FinishTurnStart(m, s, table, result)
    PROVE  /\ \E row : Evolves(table[s], row) /\ sessions' = [table EXCEPT ![s] = row]
           /\ events' \in [Messages -> EventRow]
           /\ \A n \in Messages : events'[n].result = "DEFERRED" =>
                  events[n].result = "DEFERRED" /\ n.turn # m.turn
           /\ replies' = replies /\ clock' = clock /\ tx' = Unlocked
<1> DEFINE D == DeferredOf(m.turn)
           size == Cardinality(D)
<1>1. size \in Nat
  <2>1. IsFiniteSet(D)
    BY MessagesAssumption, FS_Subset DEF DeferredOf
  <2> QED
    BY <2>1, FS_CardinalityType
<1>2. PICK q \in Orders(D) :
        LET after == Replay(s, table[s], q, size, tx.at)
            position(n) == CHOOSE i \in 1..size : q[i] = n
        IN  /\ sessions' = [table EXCEPT ![s] = after[size]]
            /\ events' = [n \in Messages |->
                   IF n = m THEN Ledger(result, s)
                   ELSE IF n \in D
                   THEN ReplayedEvent(s, n, after[position(n) - 1], tx.at)
                   ELSE events[n]]
            /\ Commit
  BY DEF FinishTurnStart
<1> DEFINE after == Replay(s, table[s], q, size, tx.at)
           before(n) == after[(CHOOSE i \in 1..size : q[i] = n) - 1]
<1>3. \A i \in 1..size : q[i] \in Messages
  BY <1>2 DEF Orders, DeferredOf
<1>4. \A n \in Messages : events[n] \in EventRow /\ events[n].receivedAt \in Nat
  BY DEF TypeOK, EventRow
<1>5. Evolves(table[s], after[size])
  <2>1. RowOK(table[s])
    BY DEF TableOK, RowOK
  <2>2. \A i \in 1..size : events[q[i]].receivedAt \in Nat
    BY <1>3, <1>4
  <2>3. \A i \in 0..size : Evolves(table[s], after[i])
    BY <1>1, <2>1, <2>2, ReplayEvolves
  <2> QED
    BY <1>1, <2>3
<1>6. \A n \in Messages :
        /\ ReplayedEvent(s, n, before(n), tx.at) \in EventRow
        /\ ReplayedEvent(s, n, before(n), tx.at).result # "DEFERRED"
  BY <1>4 DEF ReplayedEvent, EventResult, EventRow, Results
<1>7. /\ Ledger(result, s) \in EventRow
      /\ Ledger(result, s).result # "DEFERRED"
  BY DEF Ledger, EventRow, TypeOK
<1> HIDE DEF after, size, D
<1>8. \A n \in Messages :
        events'[n] = IF n = m THEN Ledger(result, s)
                     ELSE IF n \in D THEN ReplayedEvent(s, n, before(n), tx.at)
                     ELSE events[n]
  BY <1>2 DEF after, size, D
<1>9. events' \in [Messages -> EventRow]
  <2>1. events' = [n \in Messages |->
                     IF n = m THEN Ledger(result, s)
                     ELSE IF n \in D THEN ReplayedEvent(s, n, before(n), tx.at)
                     ELSE events[n]]
    BY <1>2 DEF after, size, D
  <2> HIDE DEF before
  <2> QED
    BY <1>4, <1>6, <1>7, <2>1
<1>10. \A n \in Messages : events'[n].result = "DEFERRED" =>
           events[n].result = "DEFERRED" /\ n.turn # m.turn
  <2> HIDE DEF before
  <2> QED
    BY <1>6, <1>7, <1>8 DEF D, DeferredOf
<1>11. /\ sessions' = [table EXCEPT ![s] = after[size]]
       /\ replies' = replies /\ clock' = clock /\ tx' = Unlocked
  BY <1>2 DEF after, size, D, Commit
<1> QED
  BY <1>5, <1>9, <1>10, <1>11

LEMMA UnlockedType == Unlocked \in [holder : Messages \cup ApiKeys \cup {Null}, at : Nat]
  BY DEF Unlocked

\* Every way a turn starts keeps the invariant.
LEMMA FinishKeepsIInv ==
    ASSUME IInv, NEW m \in Messages, NEW s \in Sessions,
           NEW table, TableOK(table),
           \A r \in Sessions : table[r].turn \in {sessions[r].turn, m.turn},
           NEW result \in Results \ {"DEFERRED"},
           FinishTurnStart(m, s, table, result)
    PROVE  IInv'
<1>1. PICK row : Evolves(table[s], row) /\ sessions' = [table EXCEPT ![s] = row]
  BY FinishEffect DEF IInv
<1>2. /\ events' \in [Messages -> EventRow]
      /\ \A n \in Messages : events'[n].result = "DEFERRED" =>
             events[n].result = "DEFERRED" /\ n.turn # m.turn
      /\ replies' = replies /\ clock' = clock /\ tx' = Unlocked
  BY FinishEffect DEF IInv
<1>3. /\ TableOK(sessions')
      /\ \A r \in Sessions : sessions'[r].turn = table[r].turn
  <2>1. row \in Row /\ table \in [Sessions -> Row]
    BY <1>1 DEF Evolves, RowOK, TableOK
  <2>2. /\ sessions' \in [Sessions -> Row]
        /\ \A r \in Sessions : sessions'[r] = IF r = s THEN row ELSE table[r]
    BY <1>1, <2>1
  <2>3. Evolves(table[s], row)
    BY <1>1
  <2>4. TableOK(sessions')
    BY ONLY TableOK(table), <2>2, <2>3, RowEvolves
  <2>5. \A r \in Sessions : sessions'[r].turn = table[r].turn
    BY <2>2, <2>3 DEF Evolves, SameSession
  <2> QED
    BY <2>4, <2>5
<1>4. TypeOK'
  BY <1>2, <1>3, UnlockedType DEF IInv, TypeOK, TableOK
<1>5. DeferredWait'
  <2> SUFFICES ASSUME NEW n \in Messages, events'[n].result = "DEFERRED"
               PROVE  n.turn # Null /\ \A r \in Sessions : sessions'[r].turn # n.turn
    BY DEF DeferredWait
  <2>1. events[n].result = "DEFERRED" /\ n.turn # m.turn
    BY <1>2
  <2> QED
    BY <1>3, <2>1 DEF IInv, DeferredWait
<1> QED
  BY <1>3, <1>4, <1>5 DEF IInv

LEMMA RepeatTurnStartKeepsIInv ==
    ASSUME IInv, NEW m \in Messages, RepeatTurnStart(m)
    PROVE  IInv'
<1>1. PICK s \in OfTurn(m.turn) :
        FinishTurnStart(m, s, sessions,
            IF IsActive(sessions[s]) THEN "DUPLICATE" ELSE "IGNORED_TERMINAL")
  BY DEF RepeatTurnStart
<1>2. s \in Sessions
  BY DEF OfTurn
<1>3. (IF IsActive(sessions[s]) THEN "DUPLICATE" ELSE "IGNORED_TERMINAL")
          \in Results \ {"DEFERRED"}
  BY DEF Results
<1>4. TableOK(sessions) /\ \A r \in Sessions : sessions[r].turn \in {sessions[r].turn, m.turn}
  BY DEF IInv
<1> QED
  BY <1>1, <1>2, <1>3, <1>4, FinishKeepsIInv

LEMMA LinkedTable ==
    ASSUME IInv, NEW m \in Messages, m.event = "UserPromptSubmit",
           OfTurn(m.turn) = {}, ActiveWithKey(m.session) = {},
           NEW s \in ActiveManual
    PROVE  LET row == Linked(sessions[s], m)
               table == [sessions EXCEPT ![s] = row]
           IN  /\ TableOK(table)
               /\ IsActive(row) /\ row.turn = m.turn
               /\ row.startedAt = sessions[s].startedAt
               /\ row.endedAt = sessions[s].endedAt
               /\ PhaseOf(row) = "open"
<1> DEFINE old == sessions[s]
           row == Linked(old, m)
           table == [sessions EXCEPT ![s] = row]
<1>1. /\ s \in Sessions /\ IsActive(old) /\ old.origin = "MANUAL"
      /\ sessions \in [Sessions -> Row] /\ RowConstraints(old) /\ tx.at \in Nat
      /\ m.session \in SessionKeys /\ m.turn \in TurnKeys
  BY MessagesAssumption DEF ActiveManual, IInv, TypeOK, TableOK, WellFormed
<1>2. /\ Later(old.lastActivityAt, tx.at) \in Nat
      /\ Later(old.lastActivityAt, tx.at) >= old.startedAt
  BY <1>1 DEF Later, Row, RowConstraints
<1>3. /\ row \in Row
      /\ row.status = old.status /\ row.origin = old.origin /\ row.key = m.session
      /\ row.turn = m.turn /\ row.startedAt = old.startedAt /\ row.endedAt = old.endedAt
      /\ row.reason = old.reason
      /\ row.lastActivityAt = Later(old.lastActivityAt, tx.at)
  BY <1>1, <1>2 DEF Linked, Row
<1> HIDE DEF row, old
<1>4. \A r \in Sessions : table[r] = IF r = s THEN row ELSE sessions[r]
  BY <1>1
<1>5. table \in [Sessions -> Row]
  BY <1>1, <1>3
<1> HIDE DEF table
<1>6. RowConstraints(row) /\ IsActive(row)
  BY <1>1, <1>2, <1>3 DEF RowConstraints, IsActive
<1>7. \A r \in Sessions : IsActive(sessions[r]) => sessions[r].key # m.session
  BY DEF ActiveWithKey
<1>8. \A r \in Sessions : sessions[r].turn # m.turn
  BY <1>1, NullAssumption DEF OfTurn, Free, IInv, TableOK
<1>9. row.status # "NONE"
  BY <1>6 DEF IsActive, ActiveStatuses
<1>10. TableOK(table)
  <2>1. \A r \in Sessions : RowConstraints(table[r])
    BY <1>4, <1>6 DEF IInv, TableOK
  <2>2. \A r \in Sessions : table[r].status = "NONE" => table[r].turn = Null
    BY <1>4, <1>9 DEF IInv, TableOK
  <2>3. \A q, r \in Sessions :
            /\ IsActive(table[q]) /\ IsActive(table[r])
            /\ table[q].origin = "MANUAL" /\ table[r].origin = "MANUAL"
            => q = r
    BY <1>1, <1>3, <1>4 DEF IInv, TableOK, old
  <2>4. \A q, r \in Sessions :
            /\ IsActive(table[q]) /\ IsActive(table[r])
            /\ table[q].key # Null /\ table[q].key = table[r].key
            => q = r
    BY <1>3, <1>4, <1>7 DEF IInv, TableOK
  <2>5. \A q, r \in Sessions :
            table[q].turn # Null /\ table[q].turn = table[r].turn => q = r
    BY <1>3, <1>4, <1>8 DEF IInv, TableOK
  <2> QED
    BY <1>5, <2>1, <2>2, <2>3, <2>4, <2>5 DEF TableOK
<1>11. PhaseOf(row) = "open"
  BY <1>6, <1>9 DEF PhaseOf
<1> QED
  BY <1>3, <1>6, <1>10, <1>11 DEF row, table, old

LEMMA LinkManualSessionKeepsIInv ==
    ASSUME IInv, NEW m \in Messages, LinkManualSession(m)
    PROVE  IInv'
<1>1. PICK s \in ActiveManual :
        FinishTurnStart(m, s, [sessions EXCEPT ![s] = Linked(sessions[s], m)], "APPLIED")
  BY DEF LinkManualSession
<1> DEFINE table == [sessions EXCEPT ![s] = Linked(sessions[s], m)]
<1>2. /\ m.event = "UserPromptSubmit" /\ OfTurn(m.turn) = {}
      /\ ActiveWithKey(m.session) = {}
  BY DEF LinkManualSession
<1>3. s \in Sessions /\ sessions \in [Sessions -> Row]
  BY DEF ActiveManual, IInv, TableOK
<1>4. TableOK(table) /\ Linked(sessions[s], m).turn = m.turn
  BY <1>2, LinkedTable
<1>5. \A r \in Sessions : table[r].turn \in {sessions[r].turn, m.turn}
  BY <1>3, <1>4
<1>6. "APPLIED" \in Results \ {"DEFERRED"}
  BY DEF Results
<1> HIDE DEF table
<1> QED
  BY <1>1, <1>3, <1>4, <1>5, <1>6, FinishKeepsIInv DEF table

LEMMA NewTurnTableOK ==
    ASSUME IInv, NEW m \in Messages, m.event = "UserPromptSubmit",
           OfTurn(m.turn) = {}, NEW s \in Sessions, Free(s)
    PROVE  LET table == NewTurnTable(m, s)
           IN  /\ TableOK(table)
               /\ IsActive(table[s]) /\ table[s].turn = m.turn
               /\ table[s].endedAt = Null /\ table[s].startedAt = tx.at
               /\ \A r \in Sessions \ {s} :
                      /\ Evolves(sessions[r], table[r])
                      /\ table[r] = sessions[r] \/ IsActive(sessions[r])
<1> DEFINE table == NewTurnTable(m, s)
           row == NewRow("HOOK", m.session, m.turn, tx.at)
<1>1. /\ sessions \in [Sessions -> Row] /\ tx.at \in Nat
      /\ m.session \in SessionKeys /\ m.turn \in TurnKeys
      /\ \A r \in Sessions : RowOK(sessions[r])
  BY MessagesAssumption DEF IInv, TypeOK, TableOK, WellFormed, RowOK
<1>2. /\ RowOK(row) /\ IsActive(row) /\ row.endedAt = Null /\ row.origin = "HOOK"
      /\ row.key = m.session /\ row.turn = m.turn /\ row.startedAt = tx.at
  BY <1>1, NewRowOK
<1> HIDE DEF row
<1>3. table[s] = row
  BY DEF NewTurnTable, row
<1>4. \A r \in Sessions \ {s} :
        table[r] = IF r \in ActiveWithKey(m.session)
                   THEN Ended(sessions[r], "ABANDONED", "SUPERSEDED_BY_NEW_TURN", tx.at)
                   ELSE sessions[r]
  BY DEF NewTurnTable
<1>5. ASSUME NEW r \in Sessions \ {s}
      PROVE  /\ Evolves(sessions[r], table[r])
             /\ IsActive(table[r]) => table[r].key # m.session
             /\ table[r] = sessions[r] \/ IsActive(sessions[r])
  <2>1. CASE r \in ActiveWithKey(m.session)
    <3>1. /\ "ABANDONED" \in EndStatuses
          /\ "SUPERSEDED_BY_NEW_TURN" \in ReasonOf("ABANDONED")
          /\ IsActive(sessions[r]) /\ RowOK(sessions[r])
      BY <1>1, <2>1 DEF EndStatuses, ReasonOf, ActiveWithKey
    <3>2. /\ Evolves(sessions[r], Ended(sessions[r], "ABANDONED",
                                        "SUPERSEDED_BY_NEW_TURN", tx.at))
          /\ ~IsActive(Ended(sessions[r], "ABANDONED", "SUPERSEDED_BY_NEW_TURN", tx.at))
      BY <1>1, <3>1, EndedRow
    <3>3. table[r] = Ended(sessions[r], "ABANDONED", "SUPERSEDED_BY_NEW_TURN", tx.at)
      BY <1>4, <2>1
    <3> HIDE DEF table
    <3> QED
      BY <3>1, <3>2, <3>3
  <2>2. CASE r \notin ActiveWithKey(m.session)
    BY <1>1, <1>4, <2>2, EvolvesIsReflexive DEF ActiveWithKey
  <2> QED
    BY <2>1, <2>2
<1> HIDE DEF table
<1>6. /\ \A r \in Sessions \ {s} :
            /\ table[r] \in Row /\ RowConstraints(table[r])
            /\ SameSession(sessions[r], table[r])
      /\ row \in Row /\ RowConstraints(row)
  BY <1>2, <1>5 DEF Evolves, RowOK
<1>7. table \in [Sessions -> Row]
  <2>1. \A r \in Sessions : table[r] \in Row
    BY <1>3, <1>6
  <2>2. table = [r \in Sessions |-> table[r]]
    BY DEF table, NewTurnTable
  <2> QED
    BY <2>1, <2>2
<1>8. \A r \in Sessions : sessions[r].turn # m.turn
  BY <1>1, NullAssumption DEF OfTurn, Free, IInv, TableOK
<1>9. row.status # "NONE"
  BY <1>2 DEF IsActive, ActiveStatuses
<1>10. TableOK(table)
  <2>1. \A r \in Sessions : RowConstraints(table[r])
    BY <1>3, <1>6
  <2>2. \A r \in Sessions : table[r].status = "NONE" => table[r].turn = Null
    BY <1>3, <1>6, <1>9 DEF IInv, TableOK, SameSession
  <2>3. \A q, r \in Sessions :
            /\ IsActive(table[q]) /\ IsActive(table[r])
            /\ table[q].origin = "MANUAL" /\ table[r].origin = "MANUAL"
            => q = r
    BY <1>2, <1>3, <1>6 DEF IInv, TableOK, SameSession
  <2>4. \A q, r \in Sessions :
            /\ IsActive(table[q]) /\ IsActive(table[r])
            /\ table[q].key # Null /\ table[q].key = table[r].key
            => q = r
    BY <1>2, <1>3, <1>5, <1>6 DEF IInv, TableOK, SameSession
  <2>5. \A q, r \in Sessions :
            table[q].turn # Null /\ table[q].turn = table[r].turn => q = r
    BY <1>2, <1>3, <1>6, <1>8 DEF IInv, TableOK, SameSession
  <2> QED
    BY <1>7, <2>1, <2>2, <2>3, <2>4, <2>5 DEF TableOK
<1> QED
  BY <1>2, <1>3, <1>5, <1>10 DEF table

LEMMA CreateTurnSessionKeepsIInv ==
    ASSUME IInv, NEW m \in Messages, CreateTurnSession(m)
    PROVE  IInv'
<1>1. PICK s \in Sessions : Free(s) /\ FinishTurnStart(m, s, NewTurnTable(m, s), "APPLIED")
  BY DEF CreateTurnSession
<1> DEFINE table == NewTurnTable(m, s)
<1>2. m.event = "UserPromptSubmit" /\ OfTurn(m.turn) = {}
  BY DEF CreateTurnSession
<1>3. /\ TableOK(table) /\ table[s].turn = m.turn
      /\ \A r \in Sessions \ {s} : Evolves(sessions[r], table[r])
  BY <1>1, <1>2, NewTurnTableOK
<1>4. \A r \in Sessions : table[r].turn \in {sessions[r].turn, m.turn}
  BY <1>3 DEF Evolves, SameSession
<1>5. "APPLIED" \in Results \ {"DEFERRED"}
  BY DEF Results
<1> HIDE DEF table
<1> QED
  BY <1>1, <1>3, <1>4, <1>5, FinishKeepsIInv DEF table

LEMMA SessionEventKeepsIInv ==
    ASSUME IInv, NEW m \in Messages,
           StartSessionEvent(m) \/ DeferEvent(m) \/ ApplyEvent(m)
    PROVE  IInv'
<1>1. /\ TypeOK /\ TableOK(sessions) /\ DeferredWait /\ tx.at \in Nat
      /\ sessions \in [Sessions -> Row] /\ events \in [Messages -> EventRow]
  BY DEF IInv, TypeOK
<1>2. CASE StartSessionEvent(m) \/ DeferEvent(m)
  <2>1. PICK result \in {"APPLIED", "DEFERRED"} :
            /\ events' = [events EXCEPT ![m] = Ledger(result, Null)]
            /\ result = "DEFERRED" => DeferEvent(m)
    BY <1>2 DEF StartSessionEvent, DeferEvent
  <2>2. /\ sessions' = sessions /\ tx' = Unlocked
        /\ replies' = replies /\ clock' = clock
    BY <1>2 DEF StartSessionEvent, DeferEvent, Commit
  <2>3. Ledger(result, Null) \in EventRow /\ Ledger(result, Null).result = result
    BY <1>1 DEF Ledger, EventRow, Results
  <2>4. events' \in [Messages -> EventRow]
    BY <1>1, <2>1, <2>3
  <2>5. TypeOK'
    BY <1>1, <2>2, <2>4, UnlockedType DEF TypeOK
  <2>6. DeferEvent(m) => m.turn # Null /\ \A s \in Sessions : sessions[s].turn # m.turn
    <3> SUFFICES ASSUME DeferEvent(m)
                 PROVE  m.turn # Null /\ \A s \in Sessions : sessions[s].turn # m.turn
      OBVIOUS
    <3>1. m.turn # Null /\ OfTurn(m.turn) = {}
      BY MessagesAssumption DEF DeferEvent, TurnEvents, WellFormed
    <3> QED
      BY <1>1, <3>1 DEF OfTurn, Free, TableOK
  <2>7. DeferredWait'
    BY <1>1, <2>1, <2>2, <2>3, <2>6 DEF DeferredWait
  <2> QED
    BY <1>1, <2>2, <2>5, <2>7 DEF IInv
<1>3. CASE ApplyEvent(m)
  <2>1. PICK s \in OfTurn(m.turn) :
            /\ sessions' = [sessions EXCEPT ![s] =
                   AfterEvent(sessions[s], m.event, tx.at, KnownDevice(s, m.device))]
            /\ events' = [events EXCEPT ![m] =
                   Ledger(EventResult(sessions[s], m.event, tx.at,
                                      KnownDevice(s, m.device)), s)]
    BY <1>3 DEF ApplyEvent
  <2>2. s \in Sessions
    BY DEF OfTurn
  <2> DEFINE row == AfterEvent(sessions[s], m.event, tx.at, KnownDevice(s, m.device))
             result == EventResult(sessions[s], m.event, tx.at, KnownDevice(s, m.device))
  <2>3. Evolves(sessions[s], row)
    BY <1>1, <2>2, AfterEventEvolves DEF TableOK, RowOK
  <2>4. Ledger(result, s) \in EventRow /\ Ledger(result, s).result # "DEFERRED"
    BY <1>1, <2>2 DEF Ledger, EventResult, EventRow, Results
  <2>5. row \in Row
    BY <2>3 DEF Evolves, RowOK
  <2> HIDE DEF row, result
  <2>6. /\ sessions' \in [Sessions -> Row]
        /\ \A r \in Sessions : sessions'[r] = IF r = s THEN row ELSE sessions[r]
    BY <1>1, <2>1, <2>5 DEF row
  <2>7. TableOK(sessions') /\ \A r \in Sessions : sessions'[r].turn = sessions[r].turn
    <3>1. TableOK(sessions')
      BY ONLY <1>1, <2>2, <2>3, <2>6, RowEvolves
    <3>2. \A r \in Sessions : sessions'[r].turn = sessions[r].turn
      BY <2>3, <2>6 DEF Evolves, SameSession
    <3> QED
      BY <3>1, <3>2
  <2>8. events' \in [Messages -> EventRow]
    BY <1>1, <2>1, <2>4 DEF result
  <2>9. tx' = Unlocked /\ replies' = replies /\ clock' = clock
    BY <1>3 DEF ApplyEvent, Commit
  <2>10. TypeOK'
    BY <1>1, <2>6, <2>8, <2>9, UnlockedType DEF TypeOK
  <2>11. DeferredWait'
    BY <1>1, <2>1, <2>4, <2>7 DEF DeferredWait, result
  <2> QED
    BY <2>7, <2>10, <2>11 DEF IInv
<1> QED
  BY <1>2, <1>3

LEMMA ManualCallKeepsIInv ==
    ASSUME IInv, NEW k \in ApiKeys,
           \/ StartManualSession(k)
           \/ \E s \in Sessions, o \in Outcomes : EndSession(k, s, o)
    PROVE  IInv'
<1>1. /\ TypeOK /\ TableOK(sessions) /\ DeferredWait /\ tx.at \in Nat /\ clock \in Nat
      /\ sessions \in [Sessions -> Row] /\ replies \in [ApiKeys -> Reply]
      /\ \A r \in Sessions : RowOK(sessions[r])
  BY DEF IInv, TypeOK, TableOK, RowOK
<1>2. events' = events /\ clock' = clock /\ (tx' = Unlocked \/ tx' = tx)
  BY DEF StartManualSession, EndSession
<1>3. replies' \in [ApiKeys -> Reply]
  <2>1. PICK op \in {"START", "END"}, s \in Sessions, created \in BOOLEAN :
            replies' = [replies EXCEPT ![k] = [op |-> op, session |-> s, created |-> created]]
    BY DEF StartManualSession, EndSession, ActiveManual
  <2>2. [op |-> op, session |-> s, created |-> created] \in Reply
    BY DEF Reply
  <2> QED
    BY <1>1, <2>1, <2>2
<1>4. /\ TableOK(sessions')
      /\ \A r \in Sessions : sessions'[r].turn \in {sessions[r].turn, Null}
  <2>1. CASE sessions' = sessions
    BY <1>1, <2>1
  <2>2. ASSUME NEW s \in Sessions, ActiveManual = {}, Free(s),
               sessions' = [sessions EXCEPT ![s] = NewRow("MANUAL", Null, Null, tx.at)]
        PROVE  /\ TableOK(sessions')
               /\ \A r \in Sessions : sessions'[r].turn \in {sessions[r].turn, Null}
    <3> DEFINE row == NewRow("MANUAL", Null, Null, tx.at)
    <3>1. RowOK(row) /\ IsActive(row) /\ row.key = Null /\ row.turn = Null
      BY <1>1, NewRowOK
    <3>2. row \in Row /\ RowConstraints(row) /\ row.status # "NONE"
      BY <3>1 DEF RowOK, IsActive, ActiveStatuses
    <3> HIDE DEF row
    <3>3. /\ sessions' \in [Sessions -> Row]
          /\ \A r \in Sessions : sessions'[r] = IF r = s THEN row ELSE sessions[r]
      BY <1>1, <2>2, <3>2 DEF row
    <3>4. \A r \in Sessions : ~ (IsActive(sessions[r]) /\ sessions[r].origin = "MANUAL")
      BY <2>2 DEF ActiveManual
    <3>5. TableOK(sessions')
      BY <1>1, <3>1, <3>2, <3>3, <3>4 DEF TableOK
    <3> QED
      BY <3>1, <3>3, <3>5
  <2>3. ASSUME NEW s \in Sessions, NEW o \in Outcomes, IsActive(sessions[s]),
               sessions' = [sessions EXCEPT ![s] =
                                Ended(sessions[s], o, ManualReason[o], clock)]
        PROVE  /\ TableOK(sessions')
               /\ \A r \in Sessions : sessions'[r].turn \in {sessions[r].turn, Null}
    <3> DEFINE row == Ended(sessions[s], o, ManualReason[o], clock)
    <3>1. /\ o \in EndStatuses /\ ManualReason[o] \in ReasonOf(o)
          /\ ManualReason[o] # "HEARTBEAT_TIMEOUT"
      BY OutcomesAssumption DEF EndStatuses, ManualReason, ReasonOf
    <3>2. Evolves(sessions[s], row)
      BY <1>1, <2>3, <3>1, EndedRow
    <3>3. row \in Row
      BY <3>2 DEF Evolves, RowOK
    <3> HIDE DEF row
    <3>4. /\ sessions' \in [Sessions -> Row]
          /\ \A r \in Sessions : sessions'[r] = IF r = s THEN row ELSE sessions[r]
      BY <1>1, <2>3, <3>3 DEF row
    <3>5. TableOK(sessions')
      BY ONLY <1>1, <3>2, <3>4, RowEvolves
    <3>6. \A r \in Sessions : sessions'[r].turn = sessions[r].turn
      BY <3>2, <3>4 DEF Evolves, SameSession
    <3> QED
      BY <3>5, <3>6
  <2>4. CASE StartManualSession(k)
    BY <2>1, <2>2, <2>4 DEF StartManualSession
  <2>5. CASE \E s \in Sessions, o \in Outcomes : EndSession(k, s, o)
    <3>1. PICK s \in Sessions, o \in Outcomes :
            sessions' = [sessions EXCEPT ![s] =
                IF IsActive(sessions[s])
                THEN Ended(sessions[s], o, ManualReason[o], clock) ELSE sessions[s]]
      BY <2>5 DEF EndSession
    <3>2. CASE IsActive(sessions[s])
      BY <2>3, <3>1, <3>2
    <3>3. CASE ~IsActive(sessions[s])
      <4>1. sessions' = sessions
        BY <1>1, <3>1, <3>3
      <4> QED
        BY <2>1, <4>1
    <3> QED
      BY <3>2, <3>3
  <2> QED
    BY <2>4, <2>5
<1>5. TypeOK'
  BY <1>1, <1>2, <1>3, <1>4, UnlockedType DEF TypeOK, TableOK
<1>6. DeferredWait'
  BY <1>1, <1>2, <1>4 DEF DeferredWait
<1> QED
  BY <1>4, <1>5, <1>6 DEF IInv

LEMMA RunCleanupKeepsIInv ==
    ASSUME IInv, RunCleanup
    PROVE  IInv'
<1>1. /\ TypeOK /\ TableOK(sessions) /\ DeferredWait /\ clock \in Nat
      /\ sessions \in [Sessions -> Row] /\ events \in [Messages -> EventRow]
      /\ \A r \in Sessions : RowOK(sessions[r])
  BY DEF IInv, TypeOK, TableOK, RowOK
<1>2. /\ sessions' = [s \in Sessions |-> Abandoned(sessions[s])]
      /\ replies' = replies /\ tx' = tx /\ clock' = clock
  BY DEF RunCleanup
<1>3. /\ events' \in [Messages -> EventRow]
      /\ \A n \in Messages : events'[n].result = "DEFERRED" => events[n].result = "DEFERRED"
  BY <1>1 DEF RunCleanup, EventRow, Results
<1>4. \A r \in Sessions :
          RowOK(Abandoned(sessions[r])) /\ SameSession(sessions[r], Abandoned(sessions[r]))
  BY <1>1, AbandonedRow
<1>5. \A r \in Sessions :
        /\ sessions'[r] \in Row /\ RowConstraints(sessions'[r])
        /\ SameSession(sessions[r], sessions'[r])
  BY <1>2, <1>4 DEF RowOK
<1>6. sessions' \in [Sessions -> Row]
  BY <1>2, <1>4 DEF RowOK
<1>7. TableOK(sessions')
  BY ONLY <1>1, <1>5, <1>6, TableEvolves
<1>8. TypeOK'
  BY <1>1, <1>2, <1>3, <1>6 DEF TypeOK
<1>9. DeferredWait'
  BY <1>1, <1>3, <1>5 DEF DeferredWait, SameSession
<1> QED
  BY <1>7, <1>8, <1>9 DEF IInv

-----------------------------------------------------------------------------
LEMMA InitIInv == Init => IInv
<1> SUFFICES ASSUME Init PROVE IInv
  OBVIOUS
<1>1. NoRow \in Row /\ RowConstraints(NoRow) /\ NoRow.turn = Null /\ ~IsActive(NoRow)
  BY DEF NoRow, Row, RowConstraints, ReasonOf, EndStatuses, IsActive, ActiveStatuses
<1> DEFINE blank == NoRow
<1> HIDE DEF blank
<1>2. \A s \in Sessions : sessions[s] = blank
  BY DEF Init, blank
<1>3. sessions \in [Sessions -> Row]
  BY <1>1 DEF Init
<1>4. TableOK(sessions)
  BY <1>1, <1>2, <1>3 DEF TableOK, blank
<1>5. NoEvent \in EventRow /\ NoEvent.result = "NEW"
  BY DEF NoEvent, EventRow
<1>6. events \in [Messages -> EventRow] /\ \A n \in Messages : events[n].result = "NEW"
  BY <1>5 DEF Init
<1>7. replies \in [ApiKeys -> Reply]
  <2>1. NoReply \in Reply
    BY DEF NoReply, Reply
  <2> QED
    BY <2>1 DEF Init
<1>8. TypeOK
  BY <1>3, <1>6, <1>7, UnlockedType DEF TypeOK, Init
<1>9. DeferredWait
  BY <1>6 DEF DeferredWait
<1> QED
  BY <1>4, <1>8, <1>9 DEF IInv

LEMMA NextIInv == IInv /\ [Next]_vars => IInv'
<1> SUFFICES ASSUME IInv, [Next]_vars PROVE IInv'
  OBVIOUS
<1>1. CASE UNCHANGED vars
  BY <1>1 DEF vars, IInv, TypeOK, TableOK, DeferredWait
<1>2. ASSUME UNCHANGED <<sessions, events, replies>>, clock' \in Nat,
             tx' \in [holder : Messages \cup ApiKeys \cup {Null}, at : Nat]
      PROVE  IInv'
  BY <1>2 DEF IInv, TypeOK, TableOK, DeferredWait
<1>3. CASE Rollback \/ Tick
  BY <1>2, <1>3, UnlockedType DEF Rollback, Tick, IInv, TypeOK
<1>4. ASSUME NEW m \in Messages, BeginEvent(m)
      PROVE  IInv'
  BY <1>2, <1>4 DEF BeginEvent, IInv, TypeOK
<1>5. ASSUME NEW k \in ApiKeys, BeginManualStart(k)
      PROVE  IInv'
  BY <1>2, <1>5 DEF BeginManualStart, IInv, TypeOK
<1>6. ASSUME NEW m \in Messages, ProcessEvent(m)
      PROVE  IInv'
  BY <1>6, SessionEventKeepsIInv, RepeatTurnStartKeepsIInv, LinkManualSessionKeepsIInv,
     CreateTurnSessionKeepsIInv DEF ProcessEvent
<1>7. CASE RunCleanup
  BY <1>7, RunCleanupKeepsIInv
<1>8. ASSUME NEW k \in ApiKeys,
             \/ StartManualSession(k)
             \/ \E s \in Sessions, o \in Outcomes : EndSession(k, s, o)
      PROVE  IInv'
  BY <1>8, ManualCallKeepsIInv
<1> QED
  BY <1>1, <1>3, <1>4, <1>5, <1>6, <1>7, <1>8 DEF Next

LEMMA InductiveInvariant == Spec => []IInv
  BY InitIInv, NextIInv, PTL DEF Spec

\* Every variable keeps its type, for every set of rows, messages and keys.
THEOREM TypeCorrectness == Spec => []TypeOK
<1>1. IInv => TypeOK
  BY DEF IInv
<1> QED
  BY <1>1, InductiveInvariant, PTL

\* No handler, in any interleaving with the recovery job and with retries,
\* writes rows that a constraint of ai_sessions refuses.
THEOREM SchemaSafety == Spec => []SchemaHolds
  BY IInvImplies, InductiveInvariant, PTL

\* No event stays deferred once its turn has a session.
THEOREM DeferredSettled == Spec => []NothingDeferredAfterStart
  BY IInvImplies, InductiveInvariant, PTL

-----------------------------------------------------------------------------
(* AiSessions implements SessionLifecycle.                                  *)

StaysOrEnds(a, b) ==
    \/ PhaseOf(b) = PhaseOf(a) /\ b.startedAt = a.startedAt /\ b.endedAt = a.endedAt
    \/ /\ PhaseOf(a) = "open" /\ PhaseOf(b) \in {"lapsed", "closed"}
       /\ b.startedAt = a.startedAt /\ b.endedAt >= a.startedAt

OpensOrRevises(a, b) ==
    \/ /\ PhaseOf(a) = "absent"
       /\ \/ PhaseOf(b) = "open" /\ b.endedAt = Null
          \/ PhaseOf(b) = "closed" /\ b.endedAt >= b.startedAt
    \/ /\ PhaseOf(a) = "lapsed" /\ PhaseOf(b) = "closed"
       /\ b.startedAt = a.startedAt /\ b.endedAt = a.endedAt

\* A step in which every row but one stays or ends is a step of the lifecycle.
LEMMA LifecycleStep ==
    ASSUME NEW s,
           \A r \in Sessions :
               \/ StaysOrEnds(sessions[r], sessions'[r])
               \/ r = s /\ OpensOrRevises(sessions[r], sessions'[r])
    PROVE  Lifecycle!Next
<1>1. \A r \in Sessions : StaysOrEnds(sessions[r], sessions'[r]) =>
          /\ Lifecycle!Kept(r) \/ Lifecycle!Ended(r)
          /\ ~ (Lifecycle!Opened(r) \/ Lifecycle!Revised(r))
  BY DEF StaysOrEnds, Lifecycle!Kept, Lifecycle!Ended, Lifecycle!Opened, Lifecycle!Revised
<1>2. \A r \in Sessions : OpensOrRevises(sessions[r], sessions'[r]) =>
          Lifecycle!Opened(r) \/ Lifecycle!Revised(r)
  BY DEF OpensOrRevises, Lifecycle!Opened, Lifecycle!Revised
<1> QED
  BY <1>1, <1>2 DEF Lifecycle!Next

LEMMA EvolvesInLifecycle ==
    ASSUME NEW a, NEW b, Evolves(a, b)
    PROVE  StaysOrEnds(a, b) \/ OpensOrRevises(a, b)
  BY DEF Evolves, SameSession, Advances, StaysOrEnds, OpensOrRevises

LEMMA OneRowStep ==
    ASSUME IInv, NEW s \in Sessions, NEW row, sessions' = [sessions EXCEPT ![s] = row],
           Evolves(sessions[s], row)
    PROVE  Lifecycle!Next
<1>1. \A r \in Sessions : sessions'[r] = IF r = s THEN row ELSE sessions[r]
  BY DEF IInv, TableOK
<1>2. StaysOrEnds(sessions[s], row) \/ OpensOrRevises(sessions[s], row)
  BY EvolvesInLifecycle
<1>3. \A r \in Sessions :
          \/ StaysOrEnds(sessions[r], sessions'[r])
          \/ r = s /\ OpensOrRevises(sessions[r], sessions'[r])
  BY <1>1, <1>2 DEF StaysOrEnds
<1> QED
  BY <1>3, LifecycleStep

\* A session that just opened may be ended by an earlier event in the same step.
LEMMA OpenedRow ==
    ASSUME NEW old, PhaseOf(old) = "absent", NEW mid, RowOK(mid), IsActive(mid),
           mid.endedAt = Null, NEW row, Evolves(mid, row)
    PROVE  OpensOrRevises(old, row)
<1>1. PhaseOf(mid) = "open"
  BY RowIsInPhase
<1>2. row.startedAt = mid.startedAt /\ Advances(mid, row)
  BY DEF Evolves, SameSession
<1> QED
  BY <1>1, <1>2 DEF Advances, OpensOrRevises

LEMMA TurnStartInLifecycle ==
    ASSUME IInv, NEW m \in Messages,
           RepeatTurnStart(m) \/ LinkManualSession(m) \/ CreateTurnSession(m)
    PROVE  Lifecycle!Next
<1>0. /\ TypeOK /\ TableOK(sessions) /\ sessions \in [Sessions -> Row]
      /\ \A r \in Sessions : RowOK(sessions[r])
  BY DEF IInv, TableOK, RowOK
<1>1. CASE RepeatTurnStart(m)
  <2>1. PICK s \in OfTurn(m.turn) :
          FinishTurnStart(m, s, sessions,
              IF IsActive(sessions[s]) THEN "DUPLICATE" ELSE "IGNORED_TERMINAL")
    BY <1>1 DEF RepeatTurnStart
  <2>2. /\ s \in Sessions
        /\ (IF IsActive(sessions[s]) THEN "DUPLICATE" ELSE "IGNORED_TERMINAL")
               \in Results \ {"DEFERRED"}
    BY DEF OfTurn, Results
  <2>3. PICK row : Evolves(sessions[s], row) /\ sessions' = [sessions EXCEPT ![s] = row]
    BY <1>0, <2>1, <2>2, FinishEffect
  <2> QED
    BY <2>2, <2>3, OneRowStep
<1>2. CASE LinkManualSession(m)
  <2>1. PICK s \in ActiveManual :
          FinishTurnStart(m, s, [sessions EXCEPT ![s] = Linked(sessions[s], m)], "APPLIED")
    BY <1>2 DEF LinkManualSession
  <2> DEFINE mid == Linked(sessions[s], m)
             table == [sessions EXCEPT ![s] = mid]
  <2>2. s \in Sessions /\ IsActive(sessions[s]) /\ "APPLIED" \in Results \ {"DEFERRED"}
    BY DEF ActiveManual, Results
  <2>3. /\ TableOK(table) /\ IsActive(mid) /\ PhaseOf(mid) = "open"
        /\ mid.startedAt = sessions[s].startedAt /\ mid.endedAt = sessions[s].endedAt
    BY <1>2, LinkedTable DEF LinkManualSession
  <2>4. table[s] = mid /\ \A r \in Sessions \ {s} : table[r] = sessions[r]
    BY <1>0, <2>2
  <2>5. table \in [Sessions -> Row]
    BY <2>3 DEF TableOK
  <2> HIDE DEF table, mid
  <2>6. FinishTurnStart(m, s, table, "APPLIED")
    BY <2>1 DEF table, mid
  <2>7. PICK row : Evolves(table[s], row) /\ sessions' = [table EXCEPT ![s] = row]
    BY <1>0, <2>2, <2>3, <2>6, FinishEffect
  <2>8. \A r \in Sessions : sessions'[r] = IF r = s THEN row ELSE sessions[r]
    BY <2>2, <2>4, <2>5, <2>7
  <2>9. PhaseOf(sessions[s]) = "open"
    BY <1>0, <2>2, RowIsInPhase
  <2>10. StaysOrEnds(sessions[s], row)
    BY <2>3, <2>4, <2>7, <2>9 DEF Evolves, SameSession, Advances, StaysOrEnds
  <2>11. \A r \in Sessions : StaysOrEnds(sessions[r], sessions'[r])
    BY <2>8, <2>10 DEF StaysOrEnds
  <2> QED
    BY <2>11, LifecycleStep
<1>3. CASE CreateTurnSession(m)
  <2>1. PICK s \in Sessions :
            Free(s) /\ FinishTurnStart(m, s, NewTurnTable(m, s), "APPLIED")
    BY <1>3 DEF CreateTurnSession
  <2> DEFINE table == NewTurnTable(m, s)
  <2>2. /\ TableOK(table) /\ IsActive(table[s]) /\ table[s].endedAt = Null
        /\ \A r \in Sessions \ {s} :
               /\ Evolves(sessions[r], table[r])
               /\ table[r] = sessions[r] \/ IsActive(sessions[r])
    BY <1>3, <2>1, NewTurnTableOK DEF CreateTurnSession
  <2> HIDE DEF table
  <2>3. "APPLIED" \in Results \ {"DEFERRED"} /\ FinishTurnStart(m, s, table, "APPLIED")
    BY <2>1 DEF table, Results
  <2>4. PICK row : Evolves(table[s], row) /\ sessions' = [table EXCEPT ![s] = row]
    BY <1>0, <2>2, <2>3, FinishEffect
  <2>5. table \in [Sessions -> Row] /\ RowOK(table[s])
    BY <2>2 DEF TableOK, RowOK
  <2>6. \A r \in Sessions : sessions'[r] = IF r = s THEN row ELSE table[r]
    BY <2>4, <2>5
  <2>7. PhaseOf(sessions[s]) = "absent"
    BY <2>1 DEF Free, PhaseOf
  <2>8. OpensOrRevises(sessions[s], row)
    BY <2>2, <2>4, <2>5, <2>7, OpenedRow
  <2>9. ASSUME NEW r \in Sessions \ {s}
        PROVE  StaysOrEnds(sessions[r], table[r])
    <3>1. CASE table[r] = sessions[r]
      BY <3>1 DEF StaysOrEnds
    <3>2. CASE IsActive(sessions[r])
      <4>1. PhaseOf(sessions[r]) = "open"
        BY <1>0, <3>2, RowIsInPhase
      <4> QED
        BY <2>2, <4>1 DEF Evolves, SameSession, Advances, StaysOrEnds
    <3> QED
      BY <2>2, <3>1, <3>2
  <2>10. \A r \in Sessions :
          \/ StaysOrEnds(sessions[r], sessions'[r])
          \/ r = s /\ OpensOrRevises(sessions[r], sessions'[r])
    BY <2>6, <2>8, <2>9
  <2> QED
    BY <2>10, LifecycleStep
<1> QED
  BY <1>1, <1>2, <1>3

LEMMA ManualCallInLifecycle ==
    ASSUME IInv, NEW k \in ApiKeys,
           \/ StartManualSession(k)
           \/ \E s \in Sessions, o \in Outcomes : EndSession(k, s, o)
    PROVE  Lifecycle!Next \/ sessions' = sessions
<1>0. /\ sessions \in [Sessions -> Row] /\ tx.at \in Nat /\ clock \in Nat
      /\ \A r \in Sessions : RowOK(sessions[r])
  BY DEF IInv, TypeOK, TableOK, RowOK
<1>1. ASSUME NEW s \in Sessions, Free(s),
             sessions' = [sessions EXCEPT ![s] = NewRow("MANUAL", Null, Null, tx.at)]
      PROVE  Lifecycle!Next
  <2> DEFINE row == NewRow("MANUAL", Null, Null, tx.at)
  <2>1. RowOK(row) /\ IsActive(row) /\ row.endedAt = Null
    BY <1>0, NewRowOK
  <2> HIDE DEF row
  <2>2. \A r \in Sessions : sessions'[r] = IF r = s THEN row ELSE sessions[r]
    BY <1>0, <1>1 DEF row
  <2>3. PhaseOf(sessions[s]) = "absent"
    BY <1>1 DEF Free, PhaseOf
  <2>4. OpensOrRevises(sessions[s], row)
    BY <2>1, <2>3, OpenedRow, EvolvesIsReflexive
  <2>5. \A r \in Sessions :
          \/ StaysOrEnds(sessions[r], sessions'[r])
          \/ r = s /\ OpensOrRevises(sessions[r], sessions'[r])
    BY <2>2, <2>4 DEF StaysOrEnds
  <2> QED
    BY <2>5, LifecycleStep
<1>2. CASE StartManualSession(k)
  BY <1>1, <1>2 DEF StartManualSession
<1>3. CASE \E s \in Sessions, o \in Outcomes : EndSession(k, s, o)
  <2>1. PICK s \in Sessions, o \in Outcomes :
          sessions' = [sessions EXCEPT ![s] =
              IF IsActive(sessions[s])
              THEN Ended(sessions[s], o, ManualReason[o], clock) ELSE sessions[s]]
    BY <1>3 DEF EndSession
  <2>2. CASE ~IsActive(sessions[s])
    BY <1>0, <2>1, <2>2
  <2>3. CASE IsActive(sessions[s])
    <3> DEFINE row == Ended(sessions[s], o, ManualReason[o], clock)
    <3>1. /\ o \in EndStatuses /\ ManualReason[o] \in ReasonOf(o)
          /\ ManualReason[o] # "HEARTBEAT_TIMEOUT"
      BY OutcomesAssumption DEF EndStatuses, ManualReason, ReasonOf
    <3>2. Evolves(sessions[s], row)
      BY <1>0, <2>3, <3>1, EndedRow
    <3>3. sessions' = [sessions EXCEPT ![s] = row]
      BY <2>1, <2>3
    <3> HIDE DEF row
    <3> QED
      BY <3>2, <3>3, OneRowStep
  <2> QED
    BY <2>2, <2>3
<1> QED
  BY <1>2, <1>3

LEMMA NextInLifecycle == IInv /\ [Next]_vars => [Lifecycle!Next]_(Lifecycle!lvars)
<1> SUFFICES ASSUME IInv, [Next]_vars PROVE Lifecycle!Next \/ sessions' = sessions
  BY DEF Lifecycle!lvars
<1>0. \A r \in Sessions : RowOK(sessions[r])
  BY DEF IInv, TableOK, RowOK
<1>1. CASE UNCHANGED vars
  BY <1>1 DEF vars
<1>2. CASE Rollback \/ Tick
  BY <1>2 DEF Rollback, Tick
<1>3. ASSUME NEW m \in Messages, BeginEvent(m) \/ StartSessionEvent(m) \/ DeferEvent(m)
      PROVE  sessions' = sessions
  BY <1>3 DEF BeginEvent, StartSessionEvent, DeferEvent
<1>4. ASSUME NEW m \in Messages, ApplyEvent(m)
      PROVE  Lifecycle!Next
  <2>1. PICK s \in OfTurn(m.turn) :
          sessions' = [sessions EXCEPT ![s] =
              AfterEvent(sessions[s], m.event, tx.at, KnownDevice(s, m.device))]
    BY <1>4 DEF ApplyEvent
  <2>2. s \in Sessions /\ tx.at \in Nat
    BY DEF OfTurn, IInv, TypeOK
  <2>3. Evolves(sessions[s],
                AfterEvent(sessions[s], m.event, tx.at, KnownDevice(s, m.device)))
    BY <1>0, <2>2, AfterEventEvolves
  <2> QED
    BY <2>1, <2>2, <2>3, OneRowStep
<1>5. ASSUME NEW m \in Messages,
             RepeatTurnStart(m) \/ LinkManualSession(m) \/ CreateTurnSession(m)
      PROVE  Lifecycle!Next
  BY <1>5, TurnStartInLifecycle
<1>6. ASSUME NEW k \in ApiKeys, BeginManualStart(k)
      PROVE  sessions' = sessions
  BY <1>6 DEF BeginManualStart
<1>7. ASSUME NEW k \in ApiKeys,
             \/ StartManualSession(k)
             \/ \E s \in Sessions, o \in Outcomes : EndSession(k, s, o)
      PROVE  Lifecycle!Next \/ sessions' = sessions
  BY <1>7, ManualCallInLifecycle
<1>8. CASE RunCleanup
  <2>1. \A r \in Sessions : StaysOrEnds(sessions[r], Abandoned(sessions[r]))
    BY <1>0, AbandonedRow DEF StaysOrEnds, SameSession, IInv, TypeOK
  <2>2. \A r \in Sessions : sessions'[r] = Abandoned(sessions[r])
    BY <1>8 DEF RunCleanup
  <2>3. \A r \in Sessions : StaysOrEnds(sessions[r], sessions'[r])
    BY <2>1, <2>2
  <2> QED
    BY <2>3, LifecycleStep
<1> QED
  BY <1>1, <1>2, <1>3, <1>4, <1>5, <1>6, <1>7, <1>8 DEF Next, ProcessEvent

\* The sessions of the server implement the lifecycle its readers rely on.
THEOREM Refinement == Spec => LifecycleSpec
<1>1. Init => Lifecycle!Init
  BY DEF Init, Lifecycle!Init, NoRow, PhaseOf
<1>2. IInv /\ [Next]_vars => [Lifecycle!Next]_(Lifecycle!lvars)
  BY NextInLifecycle
<1> QED
  BY <1>1, <1>2, InductiveInvariant, PTL DEF Spec, LifecycleSpec, Lifecycle!Spec

-----------------------------------------------------------------------------
(* The ledger and the stored responses.  Their inductive invariant has IInv *)
(* as its first part.  That one stop completes a session needs a            *)
(* handler to write a ledger row it has not written before, and that one    *)
(* key creates a manual row needs the same of its stored response and a     *)
(* free row not to count as a manual one.                                   *)

StopReasons == {"HOOK_STOP", "RECOVERED_LATE_STOP"}

\* What AbandonedAtDeadline says of one row.
DeadlineOK(row) ==
    /\ row.reason \in {"HEARTBEAT_TIMEOUT", "RECOVERED_LATE_STOP"} =>
           /\ row.endedAt = row.lastActivityAt + HeartbeatTimeout
           /\ row.timing = "DEGRADED"
    /\ row.reason = "MANUAL_TIMEOUT" =>
           /\ row.endedAt = row.startedAt + ManualTimeout
           /\ row.timing = "DEGRADED"
           /\ row.turn = Null

Deadlines == \A s \in Sessions : DeadlineOK(sessions[s])

FreeRowsBlank ==
    \A s \in Sessions : sessions[s].status = "NONE" => sessions[s].origin # "MANUAL"

\* The transaction in progress answers an event or a key that has no answer.
HolderFresh ==
    /\ \A m \in Messages : tx.holder = m => events[m].result = "NEW"
    /\ \A k \in ApiKeys : tx.holder = k => replies[k] = NoReply

LInv == /\ IInv
        /\ Deadlines
        /\ LedgerMatchesSession
        /\ OneStopCompletes
        /\ ManualRowPerKey
        /\ FreeRowsBlank
        /\ HolderFresh

-----------------------------------------------------------------------------
(* What the operations on one row do to its end.                            *)

\* A stop takes a row from one that no stop ended to one that a stop ended;
\* everything else leaves it where it was.
StopStep(a, b, stops) ==
    /\ stops => a.reason \notin StopReasons /\ b.reason \in StopReasons
    /\ ~stops => (b.reason \in StopReasons <=> a.reason \in StopReasons)

\* The two reasons that keep a row of one turn out of the other properties.
LEMMA ReasonsApart ==
    /\ Null \notin StopReasons
    /\ Null \notin {"HEARTBEAT_TIMEOUT", "RECOVERED_LATE_STOP", "MANUAL_TIMEOUT"}
    /\ "HEARTBEAT_TIMEOUT" \notin StopReasons
  BY NullAssumption DEF StopReasons, TerminalReasons

LEMMA ActiveRowEnds ==
    ASSUME NEW row, RowOK(row), IsActive(row)
    PROVE  DeadlineOK(row) /\ row.reason = Null /\ row.reason \notin StopReasons
  BY RowIsInPhase, ReasonsApart DEF DeadlineOK

LEMMA AfterEventEnds ==
    ASSUME NEW row, RowOK(row), DeadlineOK(row), NEW event, NEW at \in Nat, NEW known
    PROVE  LET new == AfterEvent(row, event, at, known)
               stops == /\ event = "Stop"
                        /\ EventResult(row, event, at, known) = "APPLIED"
           IN  DeadlineOK(new) /\ StopStep(row, new, stops)
<1> DEFINE new == AfterEvent(row, event, at, known)
           stops == event = "Stop" /\ EventResult(row, event, at, known) = "APPLIED"
<1>0. row \in Row
  BY DEF RowOK
<1>1. CASE IsActive(row)
  <2>1. new.reason = IF event = "Stop" THEN "HOOK_STOP" ELSE Null
    BY <1>0, <1>1 DEF AfterEvent, Touched, Row
  <2>2. stops <=> event = "Stop"
    BY <1>1 DEF EventResult
  <2>3. row.reason \notin StopReasons
    BY <1>1, ActiveRowEnds
  <2> HIDE DEF new, stops
  <2>4. DeadlineOK(new)
    BY <2>1, ReasonsApart DEF DeadlineOK
  <2>5. StopStep(row, new, stops)
    BY <2>1, <2>2, <2>3, ReasonsApart DEF StopStep, StopReasons
  <2> QED
    BY <2>4, <2>5 DEF new, stops
<1>2. CASE ~IsActive(row) /\ Recoverable(row, event, at, known)
  <2>1. new = [row EXCEPT !.status = "COMPLETED", !.reason = "RECOVERED_LATE_STOP",
                          !.timing = "DEGRADED"]
    BY <1>2 DEF AfterEvent
  <2>2. /\ new.reason = "RECOVERED_LATE_STOP" /\ new.timing = "DEGRADED"
        /\ new.endedAt = row.endedAt /\ new.lastActivityAt = row.lastActivityAt
    BY <1>0, <2>1 DEF Row
  <2>3. row.reason = "HEARTBEAT_TIMEOUT" /\ stops
    BY <1>2 DEF Recoverable, EventResult
  <2> HIDE DEF new, stops
  <2>4. DeadlineOK(new)
    BY <2>2, <2>3 DEF DeadlineOK
  <2>5. StopStep(row, new, stops)
    BY <2>2, <2>3, ReasonsApart DEF StopStep, StopReasons
  <2> QED
    BY <2>4, <2>5 DEF new, stops
<1>3. CASE ~IsActive(row) /\ ~Recoverable(row, event, at, known)
  <2>1. new = row /\ ~stops
    BY <1>3 DEF AfterEvent, EventResult
  <2> HIDE DEF new, stops
  <2>2. StopStep(row, new, stops)
    BY <2>1 DEF StopStep
  <2> QED
    BY <2>1, <2>2 DEF new, stops
<1> QED
  BY <1>1, <1>2, <1>3

\* A row that is replaced in its place, without a stop: what the rest of the
\* state says of it stays true.
RowKept(a, b) ==
    /\ DeadlineOK(b)
    /\ a.turn # Null => b.turn = a.turn
    /\ b.origin = "MANUAL" <=> a.origin = "MANUAL"
    /\ b.status = "NONE" => a.status = "NONE"
    /\ b.reason \in StopReasons <=> a.reason \in StopReasons

LEMMA EndedRowKept ==
    ASSUME NEW row, RowOK(row), IsActive(row), NEW status \in EndStatuses, NEW at,
           NEW reason \in {"MANUAL_COMPLETED", "MANUAL_FAILED", "MANUAL_CANCELLED",
                           "SUPERSEDED_BY_NEW_TURN"}
    PROVE  RowKept(row, Ended(row, status, reason, at))
<1> DEFINE new == Ended(row, status, reason, at)
<1>1. /\ new.status = status /\ new.reason = reason
      /\ new.turn = row.turn /\ new.origin = row.origin
  BY DEF Ended, RowOK, Row
<1> HIDE DEF new
<1>2. DeadlineOK(new)
  BY <1>1 DEF DeadlineOK
<1>3. new.reason \notin StopReasons /\ row.reason \notin StopReasons
  BY <1>1, ActiveRowEnds DEF StopReasons
<1>4. new.status # "NONE"
  BY <1>1 DEF EndStatuses
<1> QED
  BY <1>1, <1>2, <1>3, <1>4 DEF RowKept, new

LEMMA AbandonedRowKept ==
    ASSUME NEW row, RowOK(row), DeadlineOK(row)
    PROVE  RowKept(row, Abandoned(row))
<1> DEFINE new == Abandoned(row)
<1>0. row \in Row
  BY DEF RowOK
<1>1. CASE Silent(row)
  <2>1. new = [row EXCEPT !.status = "ABANDONED", !.reason = "HEARTBEAT_TIMEOUT",
                          !.timing = "DEGRADED",
                          !.endedAt = row.lastActivityAt + HeartbeatTimeout]
    BY <1>1 DEF Abandoned
  <2>2. /\ new.status = "ABANDONED" /\ new.reason = "HEARTBEAT_TIMEOUT"
        /\ new.timing = "DEGRADED" /\ new.lastActivityAt = row.lastActivityAt
        /\ new.endedAt = row.lastActivityAt + HeartbeatTimeout
        /\ new.turn = row.turn /\ new.origin = row.origin
    BY <1>0, <2>1 DEF Row
  <2>3. row.reason \notin StopReasons
    BY <1>1, ActiveRowEnds DEF Silent
  <2> HIDE DEF new
  <2>4. DeadlineOK(new)
    BY <2>2 DEF DeadlineOK
  <2> QED
    BY <2>2, <2>3, <2>4, ReasonsApart DEF RowKept, new
<1>2. CASE ~Silent(row) /\ Overlong(row)
  <2>1. new = [row EXCEPT !.status = "ABANDONED", !.reason = "MANUAL_TIMEOUT",
                          !.timing = "DEGRADED",
                          !.endedAt = row.startedAt + ManualTimeout,
                          !.lastActivityAt = Later(@, row.startedAt + ManualTimeout)]
    BY <1>2 DEF Abandoned
  <2>2. /\ new.status = "ABANDONED" /\ new.reason = "MANUAL_TIMEOUT"
        /\ new.timing = "DEGRADED" /\ new.startedAt = row.startedAt
        /\ new.endedAt = row.startedAt + ManualTimeout
        /\ new.turn = row.turn /\ new.origin = row.origin
    BY <1>0, <2>1 DEF Row
  <2>3. row.turn = Null /\ row.reason \notin StopReasons
    BY <1>2, ActiveRowEnds DEF Overlong
  <2> HIDE DEF new
  <2>4. DeadlineOK(new)
    BY <2>2, <2>3 DEF DeadlineOK
  <2>5. new.reason \notin StopReasons
    BY <2>2 DEF StopReasons
  <2> QED
    BY <2>2, <2>3, <2>4, <2>5 DEF RowKept, new
<1>3. CASE ~Silent(row) /\ ~Overlong(row)
  BY <1>3 DEF Abandoned, RowKept
<1> QED
  BY <1>1, <1>2, <1>3

-----------------------------------------------------------------------------
(* A replay of deferred events.                                             *)

\* stopped holds the positions at which a stop has ended the row, and hits the
\* steps that do so: at most one does.
LEMMA OneHit ==
    ASSUME NEW size \in Nat, NEW stopped \in SUBSET (0..size), NEW hits \in SUBSET (1..size),
           \A i \in hits : i - 1 \notin stopped /\ i \in stopped,
           \A i \in (1..size) \ hits : i \in stopped <=> i - 1 \in stopped
    PROVE  /\ \A i, j \in hits : i = j
           /\ size \in stopped <=> (0 \in stopped \/ hits # {})
           /\ hits # {} => 0 \notin stopped
<1>1. ASSUME NEW i \in stopped, NEW j \in i..size
      PROVE  j \in stopped
  <2> DEFINE Bad == {k \in i..size : k \notin stopped}
  <2>0. i \in 0..size
    OBVIOUS
  <2>1. Bad \in SUBSET Nat
    BY <2>0
  <2>2. ASSUME NEW k \in Bad, \A l \in Bad : k <= l
        PROVE  FALSE
    <3>1. k \in i..size /\ k \notin stopped /\ k # i
      BY <1>1, <2>2
    <3>2. k \in 1..size /\ k - 1 \in i..size
      BY <2>0, <3>1
    <3>3. k - 1 \in stopped
      BY <2>2, <3>2
    <3> QED
      BY <3>1, <3>2, <3>3
  <2> HIDE DEF Bad
  <2>3. Bad = {}
    BY <2>1, <2>2, LeastElement
  <2> QED
    BY <2>3 DEF Bad
<1>2. ASSUME NEW i \in hits, NEW j \in hits, i < j
      PROVE  FALSE
  <2>1. i \in stopped /\ j - 1 \in i..size
    BY <1>2
  <2> QED
    BY <1>1, <2>1
<1>3. \A i, j \in hits : i = j
  <2> SUFFICES ASSUME NEW i \in hits, NEW j \in hits PROVE i = j
    OBVIOUS
  <2>1. i \in Nat /\ j \in Nat
    OBVIOUS
  <2> QED
    BY <1>2, <2>1
<1>4. hits # {} => 0 \notin stopped /\ size \in stopped
  <2> SUFFICES ASSUME NEW i \in hits PROVE 0 \notin stopped /\ size \in stopped
    OBVIOUS
  <2>1. i \in 1..size /\ i \in stopped /\ i - 1 \notin stopped /\ i - 1 \in 0..size
    OBVIOUS
  <2> QED
    BY <1>1, <2>1
<1>5. 0 \in stopped => size \in stopped
  BY <1>1
<1>6. ASSUME size \in stopped, hits = {}
      PROVE  0 \in stopped
  <2>1. stopped \in SUBSET Nat /\ stopped # {}
    BY <1>6
  <2>2. PICK i \in stopped : \A j \in stopped : i <= j
    BY <2>1, LeastElement
  <2>3. ASSUME i # 0
        PROVE  FALSE
    <3>1. i \in 1..size /\ i - 1 \in Nat /\ ~ (i <= i - 1)
      BY <2>3
    <3>2. i - 1 \in stopped
      BY <1>6, <3>1
    <3> QED
      BY <2>2, <3>1, <3>2
  <2> QED
    BY <2>3
<1> QED
  BY <1>3, <1>4, <1>5, <1>6

\* Deferred event n, replayed on the row before, is a stop that is applied.
Stops(s, n, before, startAt) ==
    /\ ~IsOrphan(n, startAt)
    /\ n.event = "Stop"
    /\ EventResult(before, n.event, events[n].receivedAt, KnownDevice(s, n.device)) = "APPLIED"

LEMMA AfterDeferredEnds ==
    ASSUME NEW s, NEW row, RowOK(row), DeadlineOK(row), NEW n, NEW startAt,
           events[n].receivedAt \in Nat
    PROVE  /\ DeadlineOK(AfterDeferred(s, n, row, startAt))
           /\ StopStep(row, AfterDeferred(s, n, row, startAt), Stops(s, n, row, startAt))
<1>1. CASE IsOrphan(n, startAt)
  BY <1>1 DEF AfterDeferred, Stops, StopStep
<1>2. CASE ~IsOrphan(n, startAt)
  <2> DEFINE at == events[n].receivedAt
             known == KnownDevice(s, n.device)
             stops == n.event = "Stop" /\ EventResult(row, n.event, at, known) = "APPLIED"
  <2>1. AfterDeferred(s, n, row, startAt) = AfterEvent(row, n.event, at, known)
    BY <1>2 DEF AfterDeferred
  <2>2. Stops(s, n, row, startAt) <=> stops
    BY <1>2 DEF Stops
  <2>3. /\ DeadlineOK(AfterEvent(row, n.event, at, known))
        /\ StopStep(row, AfterEvent(row, n.event, at, known), stops)
    BY AfterEventEnds
  <2> HIDE DEF at, known, stops
  <2> QED
    BY <2>1, <2>2, <2>3 DEF StopStep
<1> QED
  BY <1>1, <1>2

LEMMA ReplayEnds ==
    ASSUME NEW s, NEW row, RowOK(row), DeadlineOK(row), NEW size \in Nat, NEW q, NEW startAt,
           \A i \in 1..size : events[q[i]].receivedAt \in Nat
    PROVE  LET after == Replay(s, row, q, size, startAt)
           IN  /\ after[0] = row
               /\ \A i \in 0..size : DeadlineOK(after[i])
               /\ \A i \in 1..size :
                      StopStep(after[i - 1], after[i], Stops(s, q[i], after[i - 1], startAt))
<1> DEFINE after == Replay(s, row, q, size, startAt)
           Bad == {i \in 0..size : ~ DeadlineOK(after[i])}
<1>0. after = [i \in 0..size |->
                  IF i = 0 THEN row ELSE AfterDeferred(s, q[i], after[i - 1], startAt)]
  BY ONLY size \in Nat, ReplayUnfolds
<1>1. \A i \in 0..size : RowOK(after[i])
  BY ReplayEvolves DEF Evolves
<1> HIDE DEF after
<1>2. /\ after[0] = row
      /\ \A i \in 1..size : after[i] = AfterDeferred(s, q[i], after[i - 1], startAt)
  BY <1>0
<1>3. ASSUME NEW i \in 1..size, DeadlineOK(after[i - 1])
      PROVE  /\ DeadlineOK(after[i])
             /\ StopStep(after[i - 1], after[i], Stops(s, q[i], after[i - 1], startAt))
  <2>1. RowOK(after[i - 1]) /\ events[q[i]].receivedAt \in Nat
    BY <1>1
  <2>2. after[i] = AfterDeferred(s, q[i], after[i - 1], startAt)
    BY <1>2
  <2> QED
    BY <1>3, <2>1, <2>2, AfterDeferredEnds
<1>4. ASSUME NEW i \in Bad, \A j \in Bad : i <= j
      PROVE  FALSE
  <2>1. i \in 0..size /\ ~DeadlineOK(after[i]) /\ i # 0
    BY <1>2
  <2>2. i \in 1..size /\ i - 1 \in 0..size /\ ~ (i <= i - 1)
    BY <2>1
  <2>3. DeadlineOK(after[i - 1])
    BY <1>4, <2>2
  <2> QED
    BY <1>3, <2>1, <2>2, <2>3
<1>5. Bad \in SUBSET Nat
  OBVIOUS
<1> HIDE DEF Bad
<1>6. Bad = {}
  BY <1>4, <1>5, LeastElement
<1>7. \A i \in 0..size : DeadlineOK(after[i])
  BY <1>6 DEF Bad
<1>8. \A i \in 1..size : i - 1 \in 0..size
  OBVIOUS
<1> QED
  BY <1>2, <1>3, <1>7, <1>8 DEF after

-----------------------------------------------------------------------------
(* The start of a turn: its row, its own ledger row and the ledger rows of  *)
(* the deferred events that are replayed.                                   *)

NewStops(m) == {n \in DeferredOf(m.turn) : n.event = "Stop" /\ events'[n].result = "APPLIED"}

\* The row goes from a to b with the deferred stop that ended it, if any.
OneNewStop(m, a, b) ==
    /\ \A n, o \in NewStops(m) : n = o
    /\ b.reason \in StopReasons <=> (a.reason \in StopReasons \/ NewStops(m) # {})
    /\ NewStops(m) # {} => a.reason \notin StopReasons

\* What becomes of the ledger row of n when m starts the turn of session s.
SettledWith(n, m, s, result) ==
    \/ n = m /\ events'[n] = Ledger(result, s)
    \/ n \in DeferredOf(m.turn) /\ events'[n].session = s
    \/ /\ n \in DeferredOf(m.turn)
       /\ events'[n].result = "IGNORED_ORPHAN" /\ events'[n].session = events[n].session
    \/ n \notin DeferredOf(m.turn) /\ n # m /\ events'[n] = events[n]

\* Every order of the deferred events holds each of them once.
LEMMA OrdersAreBijections ==
    ASSUME NEW t, NEW q \in Orders(DeferredOf(t))
    PROVE  LET D == DeferredOf(t)
               size == Cardinality(D)
           IN  /\ size \in Nat
               /\ \A i \in 1..size : q[i] \in D
               /\ \A n \in D : \E i \in 1..size : q[i] = n
               /\ \A i, j \in 1..size : q[i] = q[j] => i = j
<1> DEFINE D == DeferredOf(t)
           size == Cardinality(D)
<1>1. IsFiniteSet(D)
  BY MessagesAssumption, FS_Subset DEF DeferredOf
<1>2. size \in Nat
  BY <1>1, FS_CardinalityType
<1>3. /\ q \in [1..size -> D]
      /\ \A n \in D : \E i \in 1..size : q[i] = n
  BY DEF Orders
<1> HIDE DEF D
<1>4. q \in Surjection(1..size, D)
  BY <1>3 DEF Surjection
<1> HIDE DEF size
<1>5. IsFiniteSet(1..size) /\ Cardinality(1..size) = size
  <2>1. 1 \in Int /\ size \in Int
    BY <1>2
  <2>2. /\ IsFiniteSet(1..size)
        /\ Cardinality(1..size) = IF 1 > size THEN 0 ELSE size - 1 + 1
    BY <2>1, FS_Interval
  <2> QED
    BY <1>2, <2>2
<1>6. q \in Injection(1..size, D)
  BY <1>4, <1>5, FS_SurjSameCardinalityImpliesInj DEF size
<1>7. \A i, j \in 1..size : q[i] = q[j] => i = j
  BY <1>6 DEF Injection, IsInjective
<1> QED
  BY <1>2, <1>3, <1>7 DEF size, D

LEMMA FinishLedger ==
    ASSUME TypeOK, NEW m \in Messages, events[m].result = "NEW", NEW s \in Sessions,
           NEW table, TableOK(table), DeadlineOK(table[s]), NEW result,
           FinishTurnStart(m, s, table, result)
    PROVE  /\ \E row : /\ Evolves(table[s], row) /\ DeadlineOK(row)
                       /\ sessions' = [table EXCEPT ![s] = row]
                       /\ OneNewStop(m, table[s], row)
           /\ \A n \in Messages : SettledWith(n, m, s, result)
           /\ replies' = replies /\ tx' = Unlocked
<1> DEFINE D == DeferredOf(m.turn)
           size == Cardinality(D)
<1>1. PICK q \in Orders(D) :
        LET after == Replay(s, table[s], q, size, tx.at)
            position(n) == CHOOSE i \in 1..size : q[i] = n
        IN  /\ sessions' = [table EXCEPT ![s] = after[size]]
            /\ events' = [n \in Messages |->
                   IF n = m THEN Ledger(result, s)
                   ELSE IF n \in D
                   THEN ReplayedEvent(s, n, after[position(n) - 1], tx.at)
                   ELSE events[n]]
            /\ Commit
  BY DEF FinishTurnStart
<1> DEFINE after == Replay(s, table[s], q, size, tx.at)
           position(n) == CHOOSE i \in 1..size : q[i] = n
           before(n) == after[position(n) - 1]
<1>2. /\ size \in Nat
      /\ \A i \in 1..size : q[i] \in D
      /\ \A n \in D : \E i \in 1..size : q[i] = n
      /\ \A i, j \in 1..size : q[i] = q[j] => i = j
  BY OrdersAreBijections
<1>3. /\ m \notin D /\ D \subseteq Messages
      /\ \A n \in Messages : events[n] \in EventRow /\ events[n].receivedAt \in Nat
      /\ \A i \in 1..size : events[q[i]].receivedAt \in Nat
  BY <1>2 DEF DeferredOf, TypeOK, EventRow
<1>4. RowOK(table[s]) /\ table \in [Sessions -> Row]
  BY DEF TableOK, RowOK
<1>5. /\ after[0] = table[s]
      /\ \A i \in 0..size : DeadlineOK(after[i])
      /\ \A i \in 1..size :
             StopStep(after[i - 1], after[i], Stops(s, q[i], after[i - 1], tx.at))
  BY <1>2, <1>3, <1>4, ReplayEnds
<1>6. Evolves(table[s], after[size])
  BY <1>2, <1>3, <1>4, ReplayEvolves
<1>7. /\ sessions' = [table EXCEPT ![s] = after[size]]
      /\ \A n \in Messages :
             events'[n] = IF n = m THEN Ledger(result, s)
                          ELSE IF n \in D THEN ReplayedEvent(s, n, before(n), tx.at)
                          ELSE events[n]
      /\ replies' = replies /\ tx' = Unlocked
  BY <1>1 DEF Commit
<1> HIDE DEF after, size, D, position
<1>8. /\ \A n \in D : position(n) \in 1..size /\ q[position(n)] = n
      /\ \A i \in 1..size : position(q[i]) = i
  BY <1>2 DEF position
<1>9. \A n \in D :
        /\ events'[n].result = "APPLIED" /\ n.event = "Stop"
               <=> Stops(s, n, before(n), tx.at)
        /\ \/ events'[n].session = s
           \/ /\ events'[n].result = "IGNORED_ORPHAN"
              /\ events'[n].session = events[n].session
  <2> SUFFICES ASSUME NEW n \in D
               PROVE  /\ events'[n].result = "APPLIED" /\ n.event = "Stop"
                             <=> Stops(s, n, before(n), tx.at)
                      /\ \/ events'[n].session = s
                         \/ /\ events'[n].result = "IGNORED_ORPHAN"
                            /\ events'[n].session = events[n].session
    OBVIOUS
  <2>1. events[n] \in EventRow /\ events'[n] = ReplayedEvent(s, n, before(n), tx.at)
    BY <1>3, <1>7
  <2> HIDE DEF before
  <2>2. CASE IsOrphan(n, tx.at)
    <3>1. /\ events'[n].result = "IGNORED_ORPHAN"
          /\ events'[n].session = events[n].session
      BY <2>1, <2>2 DEF ReplayedEvent, EventRow
    <3> QED
      BY <2>2, <3>1 DEF Stops
  <2>3. CASE ~IsOrphan(n, tx.at)
    <3>1. /\ events'[n].session = s
          /\ events'[n].result = EventResult(before(n), n.event, events[n].receivedAt,
                                             KnownDevice(s, n.device))
      BY <2>1, <2>3 DEF ReplayedEvent, EventRow
    <3> QED
      BY <2>3, <3>1 DEF Stops
  <2> QED
    BY <2>2, <2>3
<1>10. \A n \in Messages : SettledWith(n, m, s, result)
  BY <1>3, <1>7, <1>9 DEF SettledWith, D
<1>11. OneNewStop(m, table[s], after[size])
  <2> DEFINE hits == {i \in 1..size : Stops(s, q[i], after[i - 1], tx.at)}
             stopped == {i \in 0..size : after[i].reason \in StopReasons}
  <2>1. \A i \in 1..size : i - 1 \in 0..size /\ i \in 0..size
    BY <1>2
  <2>2. /\ \A i \in hits : i - 1 \notin stopped /\ i \in stopped
        /\ \A i \in (1..size) \ hits : i \in stopped <=> i - 1 \in stopped
    BY <1>5, <2>1 DEF StopStep
  <2>3. hits \in SUBSET (1..size) /\ stopped \in SUBSET (0..size)
    OBVIOUS
  <2>4. /\ 0 \in stopped <=> table[s].reason \in StopReasons
        /\ size \in stopped <=> after[size].reason \in StopReasons
    BY <1>2, <1>5
  <2>5. NewStops(m) = {n \in D : Stops(s, n, before(n), tx.at)}
    BY <1>9 DEF NewStops, D
  <2>6. \A n \in D : n \in NewStops(m) <=> position(n) \in hits
    BY <1>8, <2>5
  <2>7. \A i \in 1..size : i \in hits <=> q[i] \in NewStops(m)
    BY <1>2, <1>8, <2>6
  <2> HIDE DEF hits, stopped, before
  <2>8. /\ \A i, j \in hits : i = j
        /\ size \in stopped <=> (0 \in stopped \/ hits # {})
        /\ hits # {} => 0 \notin stopped
    BY <1>2, <2>2, <2>3, OneHit
  <2>9. NewStops(m) \subseteq D
    BY <2>5
  <2>10. \A n, o \in NewStops(m) : n = o
    BY <1>8, <2>6, <2>8, <2>9
  <2>11. NewStops(m) # {} <=> hits # {}
    BY <1>8, <2>3, <2>6, <2>7, <2>9
  <2> QED
    BY <2>4, <2>8, <2>10, <2>11 DEF OneNewStop
<1>12. DeadlineOK(after[size])
  BY <1>2, <1>5
<1> QED
  BY <1>6, <1>7, <1>10, <1>11, <1>12

-----------------------------------------------------------------------------
(* The invariant, from what a step does to the rows and to the ledger.      *)

\* AppliedStops(s) after the step.
StopsAfter(s) == {n \in Messages : /\ n.event = "Stop"
                                   /\ events'[n].result = "APPLIED"
                                   /\ events'[n].session = s}

LEMMA UnlockedIsFresh ==
    ASSUME tx' = Unlocked
    PROVE  HolderFresh'
  BY NullAssumption DEF Unlocked, HolderFresh

LEMMA StopsPrimed ==
    ASSUME \A s \in Sessions :
               /\ \A m, n \in StopsAfter(s) : m = n
               /\ StopsAfter(s) # {} <=> sessions'[s].reason \in StopReasons
    PROVE  OneStopCompletes'
  BY DEF StopsAfter, OneStopCompletes, AppliedStops, StopReasons

\* Rows that are replaced in their places, or by the manual session of key k.
LEMMA ManualRowsKept ==
    ASSUME LInv, replies' = replies,
           \A s \in Sessions :
               /\ sessions'[s].origin = "MANUAL" <=> sessions[s].origin = "MANUAL"
               /\ sessions'[s].status = "NONE" => sessions[s].status = "NONE"
    PROVE  ManualRowPerKey' /\ FreeRowsBlank'
<1>1. FreeRowsBlank'
  BY DEF LInv, FreeRowsBlank
<1>2. ManualRowPerKey'
  BY DEF LInv, ManualRowPerKey
<1> QED
  BY <1>1, <1>2

\* A ledger row that does not change names a session whose turn does not.
LEMMA LedgerRowKept ==
    ASSUME LInv, NEW n \in Messages, events'[n].session = events[n].session,
           \A r \in Sessions : sessions[r].turn # Null => sessions'[r].turn = sessions[r].turn
    PROVE  events'[n].session # Null =>
               n.turn # Null /\ sessions'[events'[n].session].turn = n.turn
<1> SUFFICES ASSUME events[n].session # Null
             PROVE  n.turn # Null /\ sessions'[events[n].session].turn = n.turn
  OBVIOUS
<1>1. events[n].session \in Sessions
  BY DEF LInv, IInv, TypeOK, EventRow
<1>2. n.turn # Null /\ sessions[events[n].session].turn = n.turn
  BY DEF LInv, LedgerMatchesSession
<1> QED
  BY <1>1, <1>2

LEMMA FinishKeepsLInv ==
    ASSUME LInv, IInv', NEW m \in Messages, tx.holder = m, m.event = "UserPromptSubmit",
           NEW s \in Sessions, NEW table, TableOK(table), table[s].turn = m.turn,
           \A r \in Sessions : RowKept(sessions[r], table[r]),
           NEW result, FinishTurnStart(m, s, table, result)
    PROVE  LInv'
<1>1. /\ TypeOK /\ events[m].result = "NEW" /\ m.turn # Null /\ s # Null
      /\ DeadlineOK(table[s]) /\ table \in [Sessions -> Row]
  BY MessagesAssumption, NullAssumption
  DEF LInv, IInv, HolderFresh, WellFormed, RowKept, TableOK
<1>2. PICK row : /\ Evolves(table[s], row) /\ DeadlineOK(row)
                 /\ sessions' = [table EXCEPT ![s] = row]
                 /\ OneNewStop(m, table[s], row)
  BY <1>1, FinishLedger
<1>3. /\ \A n \in Messages : SettledWith(n, m, s, result)
      /\ replies' = replies /\ tx' = Unlocked
  BY <1>1, FinishLedger
<1>4. \A r \in Sessions : sessions'[r] = IF r = s THEN row ELSE table[r]
  BY <1>1, <1>2
<1>5. /\ row.turn = table[s].turn /\ row.origin = table[s].origin
      /\ row.status = "NONE" <=> table[s].status = "NONE"
  BY <1>2 DEF Evolves, SameSession
<1>6. \A r \in Sessions :
        /\ sessions[r].turn # Null => sessions'[r].turn = sessions[r].turn
        /\ sessions'[r].origin = "MANUAL" <=> sessions[r].origin = "MANUAL"
        /\ sessions'[r].status = "NONE" => sessions[r].status = "NONE"
        /\ DeadlineOK(sessions'[r])
  BY <1>2, <1>4, <1>5 DEF RowKept
<1>7. Deadlines'
  BY <1>6 DEF Deadlines, DeadlineOK
<1>8. LedgerMatchesSession'
  <2>1. ASSUME NEW n \in Messages
        PROVE  /\ events'[n].session # Null =>
                      n.turn # Null /\ sessions'[events'[n].session].turn = n.turn
               /\ n.event # "SessionStart"
                      /\ events'[n].result \in {"APPLIED", "DUPLICATE", "IGNORED_TERMINAL"}
                      => events'[n].session # Null
    <3>0. sessions'[s].turn = m.turn
      BY <1>4, <1>5
    <3>1. CASE n = m /\ events'[n] = Ledger(result, s)
      <4>1. events'[n].session = s
        BY <3>1 DEF Ledger
      <4> QED
        BY <1>1, <3>0, <3>1, <4>1
    <3>2. CASE n \in DeferredOf(m.turn) /\ events'[n].session = s
      BY <1>1, <3>0, <3>2 DEF DeferredOf
    <3>3. CASE /\ events'[n].result = "IGNORED_ORPHAN"
               /\ events'[n].session = events[n].session
      BY <1>6, <3>3, LedgerRowKept
    <3>4. CASE events'[n] = events[n]
      <4>1. n.event # "SessionStart"
               /\ events'[n].result \in {"APPLIED", "DUPLICATE", "IGNORED_TERMINAL"}
               => events'[n].session # Null
        BY <3>4 DEF LInv, LedgerMatchesSession
      <4>2. events'[n].session = events[n].session
        BY <3>4
      <4> QED
        BY <1>6, <4>1, <4>2, LedgerRowKept
    <3> QED
      BY <1>3, <3>1, <3>2, <3>3, <3>4 DEF SettledWith
  <2> QED
    BY <2>1 DEF LedgerMatchesSession
<1>9. \A n \in Messages :
        n.event = "Stop" /\ events'[n].result = "APPLIED" =>
            \/ n \in NewStops(m) /\ events'[n].session = s
            \/ events'[n] = events[n]
  BY <1>3 DEF SettledWith, NewStops
<1>10. \A n \in Messages : events[n].result = "APPLIED" => events'[n] = events[n]
  BY <1>1, <1>3 DEF SettledWith, DeferredOf
<1>11. ASSUME NEW r \in Sessions \ {s}
       PROVE  /\ \A n, o \in StopsAfter(r) : n = o
              /\ StopsAfter(r) # {} <=> sessions'[r].reason \in StopReasons
  <2>1. StopsAfter(r) = AppliedStops(r)
    BY <1>9, <1>10 DEF StopsAfter, AppliedStops
  <2>2. sessions'[r].reason \in StopReasons <=> sessions[r].reason \in StopReasons
    BY <1>4 DEF RowKept
  <2> QED
    BY <2>1, <2>2 DEF LInv, OneStopCompletes, StopReasons
<1>12. /\ \A n, o \in StopsAfter(s) : n = o
       /\ StopsAfter(s) # {} <=> sessions'[s].reason \in StopReasons
  <2>1. \A n \in NewStops(m) : events'[n].session = s
    <3> SUFFICES ASSUME NEW n \in NewStops(m) PROVE events'[n].session = s
      OBVIOUS
    <3>1. n \in Messages /\ n \in DeferredOf(m.turn) /\ events'[n].result = "APPLIED"
      BY DEF NewStops, DeferredOf
    <3>2. n # m
      BY <1>1, <3>1 DEF DeferredOf
    <3> QED
      BY <1>3, <3>1, <3>2 DEF SettledWith
  <2>2. StopsAfter(s) = AppliedStops(s) \cup NewStops(m)
    <3>1. NewStops(m) \subseteq StopsAfter(s)
      BY <2>1 DEF NewStops, DeferredOf, StopsAfter
    <3>2. AppliedStops(s) \subseteq StopsAfter(s)
      BY <1>10 DEF AppliedStops, StopsAfter
    <3>3. StopsAfter(s) \subseteq AppliedStops(s) \cup NewStops(m)
      BY <1>9 DEF AppliedStops, StopsAfter
    <3> QED
      BY <3>1, <3>2, <3>3
  <2>3. /\ \A n, o \in AppliedStops(s) : n = o
        /\ AppliedStops(s) # {} <=> sessions[s].reason \in StopReasons
    BY DEF LInv, OneStopCompletes, StopReasons
  <2>4. sessions[s].reason \in StopReasons <=> table[s].reason \in StopReasons
    BY DEF RowKept
  <2>5. /\ \A n, o \in NewStops(m) : n = o
        /\ sessions'[s].reason \in StopReasons
               <=> (table[s].reason \in StopReasons \/ NewStops(m) # {})
        /\ NewStops(m) # {} => table[s].reason \notin StopReasons
    BY <1>2, <1>4 DEF OneNewStop
  <2> QED
    BY <2>2, <2>3, <2>4, <2>5
<1>13. OneStopCompletes'
  BY <1>11, <1>12, StopsPrimed
<1>14. ManualRowPerKey' /\ FreeRowsBlank'
  BY <1>3, <1>6, ManualRowsKept
<1>15. HolderFresh'
  BY <1>3, UnlockedIsFresh
<1> QED
  BY <1>7, <1>8, <1>13, <1>14, <1>15 DEF LInv

-----------------------------------------------------------------------------
(* Every action keeps the invariant.                                        *)

LEMMA SameRowKept ==
    ASSUME NEW row, DeadlineOK(row)
    PROVE  RowKept(row, row)
  BY DEF RowKept

LEMMA FreeRow ==
    ASSUME LInv, NEW s \in Sessions, Free(s)
    PROVE  /\ sessions[s].turn = Null /\ sessions[s].origin # "MANUAL"
           /\ sessions[s].reason = Null /\ DeadlineOK(sessions[s])
<1>1. RowConstraints(sessions[s]) /\ sessions[s].turn = Null
  BY DEF LInv, IInv, TableOK, Free
<1>2. sessions[s].reason = Null
  BY <1>1 DEF RowConstraints, ReasonOf, Free
<1> QED
  BY <1>1, <1>2 DEF LInv, FreeRowsBlank, Deadlines, Free

LEMMA TurnStartKeepsLInv ==
    ASSUME LInv, IInv', NEW m \in Messages,
           RepeatTurnStart(m) \/ LinkManualSession(m) \/ CreateTurnSession(m)
    PROVE  LInv'
<1>0. /\ IInv /\ TableOK(sessions) /\ sessions \in [Sessions -> Row]
      /\ \A r \in Sessions : RowOK(sessions[r]) /\ DeadlineOK(sessions[r])
      /\ tx.holder = m /\ m.event = "UserPromptSubmit" /\ tx.at \in Nat
      /\ m.session \in SessionKeys /\ m.turn \in TurnKeys
  <2>1. m.event = "UserPromptSubmit" /\ tx.holder = m
    BY DEF RepeatTurnStart, LinkManualSession, CreateTurnSession
  <2>2. m.session \in SessionKeys /\ m.turn \in TurnKeys
    BY <2>1, MessagesAssumption DEF WellFormed
  <2> QED
    BY <2>1, <2>2 DEF LInv, IInv, TypeOK, TableOK, RowOK, Deadlines
<1>1. CASE RepeatTurnStart(m)
  <2>1. PICK s \in OfTurn(m.turn) :
          FinishTurnStart(m, s, sessions,
              IF IsActive(sessions[s]) THEN "DUPLICATE" ELSE "IGNORED_TERMINAL")
    BY <1>1 DEF RepeatTurnStart
  <2>2. s \in Sessions /\ sessions[s].turn = m.turn
    BY DEF OfTurn
  <2>3. \A r \in Sessions : RowKept(sessions[r], sessions[r])
    BY <1>0, SameRowKept
  <2> QED
    BY <1>0, <2>1, <2>2, <2>3, FinishKeepsLInv
<1>2. CASE LinkManualSession(m)
  <2>1. PICK s \in ActiveManual :
          /\ sessions[s].turn = Null
          /\ FinishTurnStart(m, s, [sessions EXCEPT ![s] = Linked(sessions[s], m)],
                             "APPLIED")
    BY <1>2 DEF LinkManualSession
  <2> DEFINE row == Linked(sessions[s], m)
             table == [sessions EXCEPT ![s] = row]
  <2>2. s \in Sessions /\ IsActive(sessions[s])
    BY DEF ActiveManual
  <2>3. TableOK(table) /\ IsActive(row) /\ row.turn = m.turn
    BY <1>0, <1>2, LinkedTable DEF LinkManualSession
  <2>4. /\ row.origin = sessions[s].origin
        /\ \A r \in Sessions : table[r] = IF r = s THEN row ELSE sessions[r]
    BY <1>0, <2>2 DEF Linked, Row
  <2> HIDE DEF table, row
  <2>5. RowOK(row)
    BY <2>2, <2>3, <2>4 DEF TableOK, RowOK
  <2>6. RowKept(sessions[s], row)
    <3>1. DeadlineOK(row) /\ row.reason \notin StopReasons
      BY <2>3, <2>5, ActiveRowEnds
    <3>2. sessions[s].reason \notin StopReasons
      BY <1>0, <2>2, ActiveRowEnds
    <3>3. row.status # "NONE"
      BY <2>3 DEF IsActive, ActiveStatuses
    <3> QED
      BY <2>1, <2>4, <3>1, <3>2, <3>3 DEF RowKept
  <2>7. \A r \in Sessions : RowKept(sessions[r], table[r])
    BY <1>0, <2>4, <2>6, SameRowKept
  <2>8. FinishTurnStart(m, s, table, "APPLIED") /\ table[s].turn = m.turn
    BY <2>1, <2>2, <2>3, <2>4 DEF table, row
  <2> QED
    BY <1>0, <2>2, <2>3, <2>7, <2>8, FinishKeepsLInv
<1>3. CASE CreateTurnSession(m)
  <2>1. PICK s \in Sessions :
            Free(s) /\ FinishTurnStart(m, s, NewTurnTable(m, s), "APPLIED")
    BY <1>3 DEF CreateTurnSession
  <2> DEFINE table == NewTurnTable(m, s)
             row == NewRow("HOOK", m.session, m.turn, tx.at)
  <2>2. TableOK(table) /\ table[s].turn = m.turn
    BY <1>0, <1>3, <2>1, NewTurnTableOK DEF CreateTurnSession
  <2>3. RowOK(row) /\ IsActive(row) /\ row.origin = "HOOK"
    BY <1>0, NewRowOK
  <2>4. /\ table[s] = row
        /\ \A r \in Sessions \ {s} :
               table[r] = IF r \in ActiveWithKey(m.session)
                          THEN Ended(sessions[r], "ABANDONED", "SUPERSEDED_BY_NEW_TURN", tx.at)
                          ELSE sessions[r]
    BY DEF NewTurnTable
  <2> HIDE DEF table, row
  <2>5. RowKept(sessions[s], table[s])
    <3>1. DeadlineOK(row) /\ row.reason \notin StopReasons /\ row.status # "NONE"
      BY <2>3, ActiveRowEnds DEF IsActive, ActiveStatuses
    <3>2. /\ sessions[s].turn = Null /\ sessions[s].origin # "MANUAL"
          /\ sessions[s].reason \notin StopReasons
      BY <2>1, FreeRow, ReasonsApart
    <3> QED
      BY <2>3, <2>4, <3>1, <3>2 DEF RowKept
  <2>6. ASSUME NEW r \in Sessions \ {s}
        PROVE  RowKept(sessions[r], table[r])
    <3>1. CASE r \in ActiveWithKey(m.session)
      <4>1. IsActive(sessions[r]) /\ "ABANDONED" \in EndStatuses
        BY <3>1 DEF ActiveWithKey, EndStatuses
      <4>2. RowKept(sessions[r], Ended(sessions[r], "ABANDONED",
                                       "SUPERSEDED_BY_NEW_TURN", tx.at))
        BY <1>0, <4>1, EndedRowKept
      <4> QED
        BY <2>4, <3>1, <4>2
    <3>2. CASE r \notin ActiveWithKey(m.session)
      BY <1>0, <2>4, <3>2, SameRowKept
    <3> QED
      BY <3>1, <3>2
  <2>7. \A r \in Sessions : RowKept(sessions[r], table[r])
    BY <2>5, <2>6
  <2>8. FinishTurnStart(m, s, table, "APPLIED")
    BY <2>1 DEF table
  <2> QED
    BY <1>0, <2>1, <2>2, <2>7, <2>8, FinishKeepsLInv
<1> QED
  BY <1>1, <1>2, <1>3

LEMMA UnboundEventKeepsLInv ==
    ASSUME LInv, IInv', NEW m \in Messages, StartSessionEvent(m) \/ DeferEvent(m)
    PROVE  LInv'
<1>1. /\ events[m].result = "NEW" /\ events \in [Messages -> EventRow]
      /\ sessions' = sessions /\ replies' = replies /\ tx' = Unlocked
  BY DEF StartSessionEvent, DeferEvent, Commit, LInv, IInv, TypeOK, HolderFresh
<1>2. PICK result \in {"APPLIED", "DEFERRED"} :
          /\ events' = [events EXCEPT ![m] = Ledger(result, Null)]
          /\ result = "APPLIED" => m.event = "SessionStart"
  BY DEF StartSessionEvent, DeferEvent
<1>3. /\ events'[m].result = result /\ events'[m].session = Null
      /\ \A n \in Messages \ {m} : events'[n] = events[n]
  BY <1>1, <1>2 DEF Ledger
<1>4. Deadlines'
  BY <1>1 DEF LInv, Deadlines, DeadlineOK
<1>5. LedgerMatchesSession'
  BY <1>1, <1>2, <1>3 DEF LInv, LedgerMatchesSession
<1>6. ASSUME NEW s \in Sessions
      PROVE  /\ \A n, o \in StopsAfter(s) : n = o
             /\ StopsAfter(s) # {} <=> sessions'[s].reason \in StopReasons
  <2>1. StopsAfter(s) = AppliedStops(s)
    BY <1>1, <1>2, <1>3 DEF StopsAfter, AppliedStops
  <2> QED
    BY <1>1, <2>1 DEF LInv, OneStopCompletes, StopReasons
<1>7. OneStopCompletes'
  BY <1>6, StopsPrimed
<1>8. ManualRowPerKey' /\ FreeRowsBlank'
  BY <1>1, ManualRowsKept
<1>9. HolderFresh'
  BY <1>1, UnlockedIsFresh
<1> QED
  BY <1>4, <1>5, <1>7, <1>8, <1>9 DEF LInv

LEMMA ApplyEventKeepsLInv ==
    ASSUME LInv, IInv', NEW m \in Messages, ApplyEvent(m)
    PROVE  LInv'
<1>1. PICK s \in OfTurn(m.turn) :
          /\ sessions' = [sessions EXCEPT ![s] =
                 AfterEvent(sessions[s], m.event, tx.at, KnownDevice(s, m.device))]
          /\ events' = [events EXCEPT ![m] =
                 Ledger(EventResult(sessions[s], m.event, tx.at,
                                    KnownDevice(s, m.device)), s)]
  BY DEF ApplyEvent
<1> DEFINE row == AfterEvent(sessions[s], m.event, tx.at, KnownDevice(s, m.device))
           result == EventResult(sessions[s], m.event, tx.at, KnownDevice(s, m.device))
           stops == m.event = "Stop" /\ result = "APPLIED"
<1>2. /\ s \in Sessions /\ s # Null /\ sessions[s].turn = m.turn /\ m.turn # Null
      /\ RowOK(sessions[s]) /\ DeadlineOK(sessions[s]) /\ tx.at \in Nat
      /\ events[m].result = "NEW"
      /\ sessions \in [Sessions -> Row] /\ events \in [Messages -> EventRow]
  <2>1. s \in Sessions /\ sessions[s].turn = m.turn
    BY DEF OfTurn
  <2>2. m.turn # Null
    BY MessagesAssumption DEF ApplyEvent, TurnEvents, WellFormed
  <2> QED
    BY <2>1, <2>2, NullAssumption
    DEF LInv, IInv, TypeOK, TableOK, RowOK, Deadlines, HolderFresh, ApplyEvent
<1>3. replies' = replies /\ tx' = Unlocked
  BY DEF ApplyEvent, Commit
<1>4. /\ DeadlineOK(row) /\ StopStep(sessions[s], row, stops)
      /\ row.turn = sessions[s].turn /\ row.origin = sessions[s].origin
      /\ row.status = "NONE" <=> sessions[s].status = "NONE"
  <2>1. DeadlineOK(row) /\ StopStep(sessions[s], row, stops)
    BY <1>2, AfterEventEnds
  <2>2. Evolves(sessions[s], row)
    BY <1>2, AfterEventEvolves
  <2> QED
    BY <2>1, <2>2 DEF Evolves, SameSession
<1> HIDE DEF row, result
<1>5. /\ \A r \in Sessions : sessions'[r] = IF r = s THEN row ELSE sessions[r]
      /\ \A n \in Messages \ {m} : events'[n] = events[n]
      /\ events'[m].result = result /\ events'[m].session = s
  BY <1>1, <1>2 DEF row, result, Ledger
<1>6. Deadlines'
  BY <1>4, <1>5 DEF LInv, Deadlines, DeadlineOK
<1>7. \A r \in Sessions :
          /\ sessions'[r].turn = sessions[r].turn
          /\ sessions'[r].origin = sessions[r].origin
          /\ sessions'[r].status = "NONE" => sessions[r].status = "NONE"
  BY <1>4, <1>5
<1>8. LedgerMatchesSession'
  <2>1. ASSUME NEW n \in Messages
        PROVE  /\ events'[n].session # Null =>
                      n.turn # Null /\ sessions'[events'[n].session].turn = n.turn
               /\ n.event # "SessionStart"
                      /\ events'[n].result \in {"APPLIED", "DUPLICATE", "IGNORED_TERMINAL"}
                      => events'[n].session # Null
    <3>1. CASE n = m
      BY <1>2, <1>5, <1>7, <3>1
    <3>2. CASE n # m
      <4>1. events'[n] = events[n]
        BY <1>5, <3>2
      <4> QED
        BY <1>7, <4>1, LedgerRowKept DEF LInv, LedgerMatchesSession
    <3> QED
      BY <3>1, <3>2
  <2> QED
    BY <2>1 DEF LedgerMatchesSession
<1>9. \A r \in Sessions :
          /\ \A n, o \in AppliedStops(r) : n = o
          /\ AppliedStops(r) # {} <=> sessions[r].reason \in StopReasons
          /\ m \notin AppliedStops(r)
  BY <1>2 DEF LInv, OneStopCompletes, StopReasons, AppliedStops
<1>10. ASSUME NEW r \in Sessions
       PROVE  /\ \A n, o \in StopsAfter(r) : n = o
              /\ StopsAfter(r) # {} <=> sessions'[r].reason \in StopReasons
  <2>1. CASE r = s /\ stops
    <3>1. StopsAfter(r) = AppliedStops(r) \cup {m}
      BY <1>2, <1>5, <2>1 DEF StopsAfter, AppliedStops
    <3>2. sessions[r].reason \notin StopReasons /\ sessions'[r].reason \in StopReasons
      BY <1>4, <1>5, <2>1 DEF StopStep
    <3> QED
      BY <1>9, <3>1, <3>2
  <2>2. CASE ~ (r = s /\ stops)
    <3>1. StopsAfter(r) = AppliedStops(r)
      BY <1>2, <1>5, <2>2 DEF StopsAfter, AppliedStops
    <3>2. sessions'[r].reason \in StopReasons <=> sessions[r].reason \in StopReasons
      BY <1>4, <1>5, <2>2 DEF StopStep
    <3> QED
      BY <1>9, <3>1, <3>2
  <2> QED
    BY <2>1, <2>2
<1>11. OneStopCompletes'
  BY <1>10, StopsPrimed
<1>12. ManualRowPerKey' /\ FreeRowsBlank'
  BY <1>3, <1>7, ManualRowsKept
<1>13. HolderFresh'
  BY <1>3, UnlockedIsFresh
<1> QED
  BY <1>6, <1>8, <1>11, <1>12, <1>13 DEF LInv

LEMMA SameLedgerKept ==
    ASSUME LInv, events' = events,
           \A r \in Sessions :
               /\ sessions[r].turn # Null => sessions'[r].turn = sessions[r].turn
               /\ sessions'[r].reason \in StopReasons <=> sessions[r].reason \in StopReasons
    PROVE  LedgerMatchesSession' /\ OneStopCompletes'
<1>1. LedgerMatchesSession'
  BY LedgerRowKept DEF LInv, LedgerMatchesSession
<1>2. \A s \in Sessions : StopsAfter(s) = AppliedStops(s)
  BY DEF StopsAfter, AppliedStops
<1>3. \A s \in Sessions :
          /\ \A n, o \in AppliedStops(s) : n = o
          /\ AppliedStops(s) # {} <=> sessions[s].reason \in StopReasons
  BY DEF LInv, OneStopCompletes, StopReasons
<1>4. OneStopCompletes'
  BY <1>2, <1>3, StopsPrimed
<1> QED
  BY <1>1, <1>4

\* The keys whose stored response says they created session s.
Creators(s) == {k \in ApiKeys : replies[k].created /\ replies[k].session = s}
CreatorsAfter(s) == {k \in ApiKeys : replies'[k].created /\ replies'[k].session = s}

LEMMA CreatorsMatch ==
    ASSUME LInv, NEW s \in Sessions
    PROVE  /\ \A j, k \in Creators(s) : j = k
           /\ Creators(s) # {} <=> sessions[s].origin = "MANUAL"
  BY DEF LInv, ManualRowPerKey, Creators

LEMMA CreatorsPrimed ==
    ASSUME \A s \in Sessions :
               /\ \A j, k \in CreatorsAfter(s) : j = k
               /\ CreatorsAfter(s) # {} <=> sessions'[s].origin = "MANUAL"
    PROVE  ManualRowPerKey'
  BY DEF ManualRowPerKey, CreatorsAfter

LEMMA NewReply ==
    ASSUME LInv, NEW k \in ApiKeys, replies[k] = NoReply, NEW op, NEW s \in Sessions,
           NEW created \in BOOLEAN,
           replies' = [replies EXCEPT ![k] = [op |-> op, session |-> s, created |-> created]]
    PROVE  \A r \in Sessions :
               /\ CreatorsAfter(r) = IF r = s /\ created THEN Creators(r) \cup {k}
                                     ELSE Creators(r)
               /\ k \notin Creators(r)
<1>1. replies \in [ApiKeys -> Reply]
  BY DEF LInv, IInv, TypeOK
<1>2. /\ replies'[k].session = s /\ replies'[k].created = created
      /\ \A j \in ApiKeys \ {k} : replies'[j] = replies[j]
  BY <1>1
<1>3. replies[k].created = FALSE
  BY DEF NoReply
<1> QED
  BY <1>2, <1>3 DEF Creators, CreatorsAfter

LEMMA StartManualSessionKeepsLInv ==
    ASSUME LInv, IInv', NEW k \in ApiKeys, StartManualSession(k)
    PROVE  LInv'
<1>1. /\ events' = events /\ tx' = Unlocked /\ replies[k] = NoReply
      /\ sessions \in [Sessions -> Row] /\ tx.at \in Nat
  BY DEF StartManualSession, LInv, IInv, TypeOK, HolderFresh
<1>2. HolderFresh'
  BY <1>1, UnlockedIsFresh
<1>3. ASSUME NEW s \in ActiveManual, sessions' = sessions,
             replies' = [replies EXCEPT
                            ![k] = [op |-> "START", session |-> s, created |-> FALSE]]
      PROVE  LInv'
  <2>1. s \in Sessions
    BY DEF ActiveManual
  <2>2. \A r \in Sessions : CreatorsAfter(r) = Creators(r)
    BY <1>1, <1>3, <2>1, NewReply
  <2>3. ManualRowPerKey'
    BY <1>3, <2>2, CreatorsMatch, CreatorsPrimed
  <2>4. Deadlines' /\ FreeRowsBlank'
    BY <1>3 DEF LInv, Deadlines, FreeRowsBlank, DeadlineOK
  <2>5. LedgerMatchesSession' /\ OneStopCompletes'
    BY <1>1, <1>3, SameLedgerKept
  <2> QED
    BY <1>2, <2>3, <2>4, <2>5 DEF LInv
<1>4. ASSUME NEW s \in Sessions, Free(s),
             sessions' = [sessions EXCEPT ![s] = NewRow("MANUAL", Null, Null, tx.at)],
             replies' = [replies EXCEPT
                            ![k] = [op |-> "START", session |-> s, created |-> TRUE]]
      PROVE  LInv'
  <2> DEFINE row == NewRow("MANUAL", Null, Null, tx.at)
  <2>1. /\ RowOK(row) /\ IsActive(row) /\ row.origin = "MANUAL" /\ row.turn = Null
    BY <1>1, NewRowOK
  <2> HIDE DEF row
  <2>2. DeadlineOK(row) /\ row.reason \notin StopReasons /\ row.status # "NONE"
    BY <2>1, ActiveRowEnds DEF IsActive, ActiveStatuses
  <2>3. \A r \in Sessions : sessions'[r] = IF r = s THEN row ELSE sessions[r]
    BY <1>1, <1>4 DEF row
  <2>4. /\ sessions[s].turn = Null /\ sessions[s].origin # "MANUAL"
        /\ sessions[s].reason \notin StopReasons
    BY <1>4, FreeRow, ReasonsApart
  <2>5. \A r \in Sessions :
            CreatorsAfter(r) = IF r = s THEN Creators(r) \cup {k} ELSE Creators(r)
    BY <1>1, <1>4, NewReply
  <2>6. Creators(s) = {}
    BY <2>4, CreatorsMatch
  <2>7. ManualRowPerKey'
    BY <2>1, <2>3, <2>5, <2>6, CreatorsMatch, CreatorsPrimed
  <2>8. Deadlines' /\ FreeRowsBlank'
    BY <2>2, <2>3 DEF LInv, Deadlines, FreeRowsBlank, DeadlineOK
  <2>9. LedgerMatchesSession' /\ OneStopCompletes'
    BY <1>1, <2>2, <2>3, <2>4, SameLedgerKept
  <2> QED
    BY <1>2, <2>7, <2>8, <2>9 DEF LInv
<1> QED
  BY <1>3, <1>4 DEF StartManualSession

LEMMA EndSessionKeepsLInv ==
    ASSUME LInv, IInv', NEW k \in ApiKeys, NEW s \in Sessions, NEW o \in Outcomes,
           EndSession(k, s, o)
    PROVE  LInv'
<1>1. /\ events' = events /\ tx' = tx /\ tx.holder = Null /\ replies[k] = NoReply
      /\ replies' = [replies EXCEPT
                        ![k] = [op |-> "END", session |-> s, created |-> FALSE]]
      /\ sessions \in [Sessions -> Row]
      /\ \A r \in Sessions : RowOK(sessions[r]) /\ DeadlineOK(sessions[r])
      /\ sessions' = [sessions EXCEPT ![s] =
             IF IsActive(sessions[s])
             THEN Ended(sessions[s], o, ManualReason[o], clock) ELSE sessions[s]]
  BY DEF EndSession, LInv, IInv, TypeOK, TableOK, RowOK, Deadlines
<1>2. /\ o \in EndStatuses
      /\ ManualReason[o] \in {"MANUAL_COMPLETED", "MANUAL_FAILED", "MANUAL_CANCELLED",
                              "SUPERSEDED_BY_NEW_TURN"}
  BY OutcomesAssumption DEF EndStatuses, ManualReason
<1>3. \A r \in Sessions : RowKept(sessions[r], sessions'[r])
  <2>1. CASE IsActive(sessions[s])
    <3>1. RowKept(sessions[s], Ended(sessions[s], o, ManualReason[o], clock))
      BY <1>1, <1>2, <2>1, EndedRowKept
    <3> QED
      BY <1>1, <2>1, <3>1, SameRowKept
  <2>2. CASE ~IsActive(sessions[s])
    BY <1>1, <2>2, SameRowKept
  <2> QED
    BY <2>1, <2>2
<1>4. Deadlines' /\ FreeRowsBlank'
  BY <1>3 DEF LInv, Deadlines, FreeRowsBlank, RowKept, DeadlineOK
<1>5. LedgerMatchesSession' /\ OneStopCompletes'
  BY <1>1, <1>3, SameLedgerKept DEF RowKept
<1>6. \A r \in Sessions : CreatorsAfter(r) = Creators(r)
  BY <1>1, NewReply
<1>7. ManualRowPerKey'
  BY <1>3, <1>6, CreatorsMatch, CreatorsPrimed DEF RowKept
<1>8. HolderFresh'
  BY <1>1, NullAssumption DEF HolderFresh
<1> QED
  BY <1>4, <1>5, <1>7, <1>8 DEF LInv

LEMMA RunCleanupKeepsLInv ==
    ASSUME LInv, IInv', RunCleanup
    PROVE  LInv'
<1>1. /\ sessions' = [s \in Sessions |-> Abandoned(sessions[s])]
      /\ replies' = replies /\ tx' = tx /\ events \in [Messages -> EventRow]
      /\ \A r \in Sessions : RowOK(sessions[r]) /\ DeadlineOK(sessions[r])
  BY DEF RunCleanup, LInv, IInv, TypeOK, TableOK, RowOK, Deadlines
<1>2. \A n \in Messages :
          /\ events'[n].session = events[n].session
          /\ \/ events'[n].result = events[n].result
             \/ events[n].result = "DEFERRED" /\ events'[n].result = "IGNORED_ORPHAN"
  BY <1>1 DEF RunCleanup, Orphaned, EventRow
<1>3. \A r \in Sessions : RowKept(sessions[r], sessions'[r])
  BY <1>1, AbandonedRowKept
<1>4. Deadlines' /\ FreeRowsBlank'
  BY <1>3 DEF LInv, Deadlines, FreeRowsBlank, RowKept, DeadlineOK
<1>5. LedgerMatchesSession'
  <2>1. ASSUME NEW n \in Messages
        PROVE  /\ events'[n].session # Null =>
                      n.turn # Null /\ sessions'[events'[n].session].turn = n.turn
               /\ n.event # "SessionStart"
                      /\ events'[n].result \in {"APPLIED", "DUPLICATE", "IGNORED_TERMINAL"}
                      => events'[n].session # Null
    <3>1. \A r \in Sessions :
              sessions[r].turn # Null => sessions'[r].turn = sessions[r].turn
      BY <1>3 DEF RowKept
    <3> QED
      BY <1>2, <3>1, LedgerRowKept DEF LInv, LedgerMatchesSession
  <2> QED
    BY <2>1 DEF LedgerMatchesSession
<1>6. ASSUME NEW s \in Sessions
      PROVE  /\ \A n, o \in StopsAfter(s) : n = o
             /\ StopsAfter(s) # {} <=> sessions'[s].reason \in StopReasons
  <2>1. StopsAfter(s) = AppliedStops(s)
    BY <1>2 DEF StopsAfter, AppliedStops
  <2> QED
    BY <1>3, <2>1 DEF LInv, OneStopCompletes, StopReasons, RowKept
<1>7. OneStopCompletes'
  BY <1>6, StopsPrimed
<1>8. ManualRowPerKey'
  BY <1>1, <1>3, ManualRowsKept DEF RowKept
<1>9. HolderFresh'
  BY <1>1, <1>2 DEF LInv, HolderFresh
<1> QED
  BY <1>4, <1>5, <1>7, <1>8, <1>9 DEF LInv

LEMMA BeginKeepsLInv ==
    ASSUME LInv, IInv', UNCHANGED <<sessions, events, replies>>, HolderFresh'
    PROVE  LInv'
  BY DEF LInv, Deadlines, DeadlineOK, LedgerMatchesSession, OneStopCompletes, AppliedStops,
         ManualRowPerKey, FreeRowsBlank

-----------------------------------------------------------------------------
LEMMA InitLInv == Init => LInv
<1> SUFFICES ASSUME Init PROVE LInv
  OBVIOUS
<1>1. IInv
  BY InitIInv
<1>2. \A s \in Sessions :
          /\ sessions[s].reason = Null /\ sessions[s].origin = Null
  BY DEF Init, NoRow
<1>3. \A n \in Messages : events[n].result = "NEW" /\ events[n].session = Null
  BY DEF Init, NoEvent
<1>4. \A k \in ApiKeys : replies[k] = NoReply /\ replies[k].created = FALSE
  BY DEF Init, NoReply
<1>5. Deadlines
  BY <1>2, ReasonsApart DEF Deadlines, DeadlineOK
<1>6. LedgerMatchesSession
  BY <1>3 DEF LedgerMatchesSession
<1>7. OneStopCompletes
  BY <1>2, <1>3, ReasonsApart DEF OneStopCompletes, AppliedStops, StopReasons
<1>8. ManualRowPerKey /\ FreeRowsBlank
  BY <1>2, <1>4, NullAssumption DEF ManualRowPerKey, FreeRowsBlank
<1>9. HolderFresh
  BY <1>3, <1>4 DEF HolderFresh
<1> QED
  BY <1>1, <1>5, <1>6, <1>7, <1>8, <1>9 DEF LInv

LEMMA NextLInv == LInv /\ [Next]_vars => LInv'
<1> SUFFICES ASSUME LInv, [Next]_vars PROVE LInv'
  OBVIOUS
<1>0. IInv'
  BY NextIInv DEF LInv
<1>1. CASE UNCHANGED vars
  BY <1>0, <1>1, BeginKeepsLInv DEF vars, HolderFresh, LInv
<1>2. CASE Rollback
  BY <1>0, <1>2, BeginKeepsLInv, UnlockedIsFresh DEF Rollback
<1>3. CASE Tick
  BY <1>0, <1>3, BeginKeepsLInv DEF Tick, HolderFresh, LInv
<1>4. ASSUME NEW m \in Messages, BeginEvent(m)
      PROVE  LInv'
  <2>1. tx'.holder = m /\ m \notin ApiKeys /\ events[m].result = "NEW"
    BY <1>4, NullAssumption DEF BeginEvent, Accepted, Stored
  <2>2. UNCHANGED <<sessions, events, replies>>
    BY <1>4 DEF BeginEvent
  <2>3. HolderFresh'
    BY <2>1, <2>2 DEF HolderFresh
  <2> QED
    BY <1>0, <2>2, <2>3, BeginKeepsLInv
<1>5. ASSUME NEW k \in ApiKeys, BeginManualStart(k)
      PROVE  LInv'
  <2>1. tx'.holder = k /\ k \notin Messages /\ replies[k] = NoReply
    BY <1>5, NullAssumption DEF BeginManualStart
  <2>2. UNCHANGED <<sessions, events, replies>>
    BY <1>5 DEF BeginManualStart
  <2>3. HolderFresh'
    BY <2>1, <2>2 DEF HolderFresh
  <2> QED
    BY <1>0, <2>2, <2>3, BeginKeepsLInv
<1>6. ASSUME NEW m \in Messages, ProcessEvent(m)
      PROVE  LInv'
  BY <1>0, <1>6, UnboundEventKeepsLInv, ApplyEventKeepsLInv, TurnStartKeepsLInv
  DEF ProcessEvent
<1>7. ASSUME NEW k \in ApiKeys, StartManualSession(k)
      PROVE  LInv'
  BY <1>0, <1>7, StartManualSessionKeepsLInv
<1>8. ASSUME NEW k \in ApiKeys, NEW s \in Sessions, NEW o \in Outcomes, EndSession(k, s, o)
      PROVE  LInv'
  BY <1>0, <1>8, EndSessionKeepsLInv
<1>9. CASE RunCleanup
  BY <1>0, <1>9, RunCleanupKeepsLInv
<1> QED
  BY <1>1, <1>2, <1>3, <1>4, <1>5, <1>6, <1>7, <1>8, <1>9 DEF Next

LEMMA LedgerInvariant == Spec => []LInv
  BY InitLInv, NextLInv, PTL DEF Spec

\* Exactly one Stop is ever applied to a session, and it is what completed it,
\* however stops, starts, replays and runs of the recovery job interleave.
THEOREM StopCompletesOnce == Spec => []OneStopCompletes
<1>1. LInv => OneStopCompletes
  BY DEF LInv
<1> QED
  BY <1>1, LedgerInvariant, PTL

\* An abandoned session ended one timeout after its last activity, or a manual
\* one after its start, whenever the recovery job ran and whatever came later.
THEOREM EndsAtDeadline == Spec => []AbandonedAtDeadline
<1>1. LInv => AbandonedAtDeadline
  BY DEF LInv, Deadlines, DeadlineOK, AbandonedAtDeadline
<1> QED
  BY <1>1, LedgerInvariant, PTL

\* The ledger points at the session of the event's own turn, also for the
\* events that were deferred and replayed.
THEOREM LedgerAgrees == Spec => []LedgerMatchesSession
<1>1. LInv => LedgerMatchesSession
  BY DEF LInv
<1> QED
  BY <1>1, LedgerInvariant, PTL

\* Every manual row was created for exactly one Idempotency-Key.
THEOREM ManualStartOnce == Spec => []ManualRowPerKey
<1>1. LInv => ManualRowPerKey
  BY DEF LInv
<1> QED
  BY <1>1, LedgerInvariant, PTL
=============================================================================
