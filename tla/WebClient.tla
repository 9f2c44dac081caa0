------------------------------ MODULE WebClient ------------------------------
(***************************************************************************)
(* The web application as main.tsx puts it together: a tab shows the gate  *)
(* of LegacyMigration, and mounts the provider of SessionView behind it    *)
(* only when there is nothing left to decide.  One tab is followed to its  *)
(* sessions; of the others only the gate matters.                          *)
(*                                                                         *)
(* What other tabs do to the storage and what the provider and the server  *)
(* do commute, so only one order of them is taken: another tab acts while  *)
(* the provider is not mounted, and the server while the gate is passed.   *)
(***************************************************************************)
EXTENDS LegacyMigration, SessionView

CONSTANT Tab

ASSUME TabAssumption == Tab \in Tabs

vars == <<legacyVars, viewVars>>

Init == LegacyInit /\ ViewInit

\* Closing the tab, or being killed with it, takes the provider away.
GateStep(t) ==
    /\ t # Tab => view.status = "unmounted"
    /\ LegacyStep(t)
    /\ IF t = Tab /\ gate'[t] = "CLOSED" THEN Unmount ELSE UNCHANGED viewVars

MountedStep ==
    /\ gate[Tab] = "PASSED"
    /\ ProviderStep
    /\ UNCHANGED legacyVars

\* The answer of GitHub's redirect is a new page, with its gate.
LogInAnew ==
    /\ LogIn
    /\ gate' = [gate EXCEPT ![Tab] = "CLOSED"]
    /\ UNCHANGED <<store, chosen, original, refusals>>

Next ==
    \/ \E t \in Tabs : GateStep(t)
    \/ MountedStep
    \/ LogInAnew
    \/ gate[Tab] = "PASSED" /\ ServerStep /\ UNCHANGED legacyVars

Spec == Init /\ [][Next]_vars

\* Requests are answered or fail, and a page that is looked at polls on.
FairSpec == Spec /\ WF_vars(MountedStep)
=============================================================================
