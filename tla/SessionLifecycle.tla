--------------------------- MODULE SessionLifecycle ---------------------------
(***************************************************************************)
(* What a reader of the session API may rely on, without events, locks or  *)
(* timers: a session is open, then over; its start never moves and its end *)
(* is fixed once written; the only ending that is ever revised is a lapse  *)
(* (an abandonment by the heartbeat timeout), once, and without moving the *)
(* end.  A step opens or revises at most one session.                      *)
(***************************************************************************)
EXTENDS Naturals

CONSTANTS Sessions, Null

VARIABLES phase, startedAt, endedAt

lvars == <<phase, startedAt, endedAt>>

Init ==
    /\ phase = [s \in Sessions |-> "absent"]
    /\ startedAt = [s \in Sessions |-> 0]
    /\ endedAt = [s \in Sessions |-> Null]

Kept(s) ==
    /\ phase'[s] = phase[s]
    /\ startedAt'[s] = startedAt[s]
    /\ endedAt'[s] = endedAt[s]

\* A stop that was received before the start opens and closes in one step.
Opened(s) ==
    /\ phase[s] = "absent"
    /\ \/ phase'[s] = "open" /\ endedAt'[s] = Null
       \/ phase'[s] = "closed" /\ endedAt'[s] >= startedAt'[s]

Ended(s) ==
    /\ phase[s] = "open"
    /\ phase'[s] \in {"lapsed", "closed"}
    /\ startedAt'[s] = startedAt[s]
    /\ endedAt'[s] >= startedAt[s]

Revised(s) ==
    /\ phase[s] = "lapsed"
    /\ phase'[s] = "closed"
    /\ startedAt'[s] = startedAt[s]
    /\ endedAt'[s] = endedAt[s]

Next ==
    /\ \A s \in Sessions : Kept(s) \/ Opened(s) \/ Ended(s) \/ Revised(s)
    /\ \A r, s \in Sessions :
           (Opened(r) \/ Revised(r)) /\ (Opened(s) \/ Revised(s)) => r = s

Spec == Init /\ [][Next]_lvars
=============================================================================
