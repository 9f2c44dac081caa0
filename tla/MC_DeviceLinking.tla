-------------------------- MODULE MC_DeviceLinking --------------------------
(* Small instances of DeviceLinking.                                        *)
EXTENDS DeviceLinkingProps, TLC

CONSTANTS m1

OneMachine == [r \in Runs |-> m1]

LinkSymmetry == Permutations(Users) \cup Permutations(Runs)
                    \cup Permutations(Codes) \cup Permutations(Calls)
=============================================================================
