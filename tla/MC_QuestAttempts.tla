-------------------------- MODULE MC_QuestAttempts --------------------------
(* Small instances of QuestAttempts, and what is interchangeable in them.   *)
EXTENDS QuestAttemptsProps, TLC

RowSymmetry == Permutations(Sessions) \cup Permutations(Attempts)
                   \cup Permutations(StartKeys) \cup Permutations(SubmitKeys)
=============================================================================
