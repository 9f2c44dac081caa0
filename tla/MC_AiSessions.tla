---------------------------- MODULE MC_AiSessions ----------------------------
(* A small instance of AiSessions: three rows, two devices, one Codex       *)
(* session with two turns, and a traffic in which a stop overtakes its      *)
(* start, a later turn supersedes, and a second device stops the turn.      *)
EXTENDS AiSessionsProps, TLC

CONSTANTS d1, d2, k1, t1, t2, e1, e2, e3, e4, e5, e6

Message(d, id, n, event, t) ==
    [device |-> d, id |-> id, sequence |-> n, event |-> event,
     session |-> k1, turn |-> t]

\* The turn is started and stopped from two devices (a plugin that was linked
\* again in mid-turn).  The permission request reuses the id of the second
\* turn's start, so that the server takes only the first of the two to arrive.
MCMessages ==
    {Message(d1, e1, 1, "UserPromptSubmit", t1),
     Message(d1, e2, 2, "Stop", t1),
     Message(d1, e3, 3, "UserPromptSubmit", t2),
     Message(d1, e3, 4, "PermissionRequest", t1),
     Message(d2, e4, 1, "Stop", t1),
     Message(d2, e5, 2, "UserPromptSubmit", t1)}

\* The traffic beside which a user starts and ends sessions by hand.  The
\* session start reuses the sequence number of the permission request.
ManualMessages ==
    {Message(d1, e1, 1, "UserPromptSubmit", t1),
     Message(d1, e2, 2, "Stop", t1),
     Message(d1, e3, 3, "UserPromptSubmit", t2),
     Message(d1, e4, 4, "PermissionRequest", t1),
     Message(d1, e6, 4, "SessionStart", Null)}

RowSymmetry == Permutations(Sessions) \cup Permutations(ApiKeys)
=============================================================================
