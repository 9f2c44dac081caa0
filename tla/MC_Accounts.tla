----------------------------- MODULE MC_Accounts -----------------------------
(* One GitHub identity with an account, another without; three concurrent    *)
(* calls; a deleted identity may log in again as a new user.                 *)
EXTENDS AccountsProps, TLC

CONSTANTS g1, g2, s1, s2, c1, c2, c3

MC_Identities == {g1, g2}
MC_States == {s1, s2}
MC_FirstRows == {Tables \ {"integration_events"}}
MC_Calls == {c1, c2, c3}
MC_Symmetry ==
    Permutations(MC_States) \cup Permutations(MC_Calls)
==============================================================================
