-------------------------- MODULE MC_DeliveryQueue --------------------------
(***************************************************************************)
(* Instances of the delivery queue: hooks h1 and h2 of one turn, and the   *)
(* heartbeats b1 and b2 that the heartbeat worker produces meanwhile.      *)
(***************************************************************************)
EXTENDS DeliveryQueueProps, TLC

CONSTANTS h1, h2, b1, b2

OneHook == {h1, b1, b2}
TwoHooks == {h1, h2}
TwoHooksOneHeartbeat == {h1, h2, b1}
AllHeartbeats == Events \cap {b1, b2}
OneTurn == [e \in Events |-> "turn"]
\* Hooks that differ only in name, and so do heartbeats.
Alike == Permutations(Events \cap {h1, h2}) \cup Permutations(AllHeartbeats)
=============================================================================
