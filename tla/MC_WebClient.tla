---------------------------- MODULE MC_WebClient ----------------------------
(* Two tabs with the old records, one of them followed to its sessions.  The *)
(* old product left nothing, two good records, or a corrupt one.             *)
EXTENDS WebClientProps

MC_Originals ==
    {[sessions |-> Null, quests |-> Null], [sessions |-> "GOOD", quests |-> "GOOD"], [sessions |-> "GOOD", quests |-> "BAD"]}
=============================================================================
