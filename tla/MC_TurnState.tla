---------------------------- MODULE MC_TurnState ----------------------------
(* Small instances of TurnState.                                            *)
EXTENDS TurnStateProps
=============================================================================
