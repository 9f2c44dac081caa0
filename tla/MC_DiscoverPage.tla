--------------------------- MODULE MC_DiscoverPage ---------------------------
(* Three items in one tab, none in the other, and a page of one item: a      *)
(* refresh that removes or adds the newest moves the last one between        *)
(* recency bands.                                                            *)
EXTENDS DiscoverPageProps, TLC

CONSTANTS c1, c2

MC_Items == 1 .. 3
MC_Feeds == {1 .. 3, 2 .. 3}
MC_Categories == {"EARNING", "COMMUNITY"}
MC_CategoryOf == [i \in MC_Items |-> "EARNING"]
MC_Interests == {"NONE", "BACKEND"}
MC_None == "NONE"

S(day, engagement, clear, matches) ==
    [day |-> day, engagement |-> engagement, clear |-> clear,
     matches |-> [t \in MC_Interests |-> IF t = "NONE" THEN 0 ELSE matches]]

MC_Score == <<S(40, 0, 1, 1), S(39, 5, 0, 1), S(38, 9, 0, 1)>>

R(ms, us, uuid) == [ms |-> ms, us |-> us, uuid |-> uuid]

\* Rows of one millisecond, of one microsecond, and one that is committed after
\* a row with a later time.
MC_Stamp == <<R(2, 5, 4), R(2, 9, 2), R(3, 0, 3), R(3, 0, 1), R(1, 0, 6), R(3, 7, 5)>>

MC_Calls == {c1, c2}
MC_Symmetry == Permutations(MC_Calls)
==============================================================================
