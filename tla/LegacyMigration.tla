--------------------------- MODULE LegacyMigration ---------------------------
(***************************************************************************)
(* The records of the browser-only product in localStorage, and the gate   *)
(* that a tab of the web application shows until the user has decided what *)
(* becomes of them.  The tabs share the storage and any of them may still  *)
(* show a gate that another one has made out of date.                      *)
(*                                                                         *)
(* A call of appStorage.ts runs to its end before another tab runs.  It    *)
(* may be refused the storage, run into its quota, or be cut off when the  *)
(* browser dies, and then what it wrote until then stays.                  *)
(***************************************************************************)
EXTENDS Integers, Sequences

CONSTANTS
    Tabs,
    Null,
    Originals,   \* what the old product may have left
    MaxRefusals  \* bound on failed accesses and killed tabs

Values == {Null, "GOOD", "BAD"}  \* isPersistedSessionState and the like, or not
Modes == {"referenced", "discarded"}

ASSUME MigrationAssumption ==
    /\ Originals \subseteq [sessions : Values, quests : Values] /\ MaxRefusals \in Nat
    /\ Null \notin {"GOOD", "BAD"} \cup Modes \cup [sessions : Values, quests : Values]

VARIABLES
    store,    \* localStorage
    gate,     \* what a tab shows
    chosen,   \* the modes that were ever asked for
    original, \* the records as the old product left them
    refusals

legacyVars == <<store, gate, chosen, original, refusals>>

Records(s) == [sessions |-> s.sessions, quests |-> s.quests]
NoRecords == [sessions |-> Null, quests |-> Null]

LegacyInit ==
    /\ original \in Originals
    /\ store = [sessions |-> original.sessions, quests |-> original.quests, marker |-> Null, reference |-> Null]
    /\ gate = [t \in Tabs |-> "CLOSED"]
    /\ chosen = {}
    /\ refusals = 0

\* One more access fails, or none does.
MayRefuse(n) == n \in {0, 1} /\ refusals + n <= MaxRefusals /\ refusals' = refusals + n
-----------------------------------------------------------------------------
(* inspectLegacyData                                                       *)

Inspection(s) ==
    IF s.marker # Null \/ Records(s) = NoRecords THEN "none"
    ELSE IF "BAD" \in {s.sessions, s.quests} THEN "corrupted" ELSE "ready"

\* removeLegacySourceValues, as far as it gets.
Removed(s, n) ==
    CASE n = 0 -> s
      [] n = 1 -> [s EXCEPT !.sessions = Null]
      [] n = 2 -> [s EXCEPT !.sessions = Null, !.quests = Null]

\* What an inspection leaves behind: it repeats a clean-up that did not finish.
Inspected(s, n) == IF s.marker # Null THEN Removed(s, n) ELSE s

Passes(status) == status \in {"none", "unavailable"}
Shows(status) == IF Passes(status) THEN "PASSED" ELSE status

\* A tab is opened: the first inspection of the gate.
OpenTab(t) ==
    /\ gate[t] = "CLOSED"
    /\ \/ /\ MayRefuse(0)
          /\ store' = Inspected(store, 2)
          /\ gate' = [gate EXCEPT ![t] = Shows(Inspection(store))]
       \/ /\ MayRefuse(1)
          /\ \/ store' = store /\ gate' = [gate EXCEPT ![t] = "PASSED"]  \* unavailable
             \/ \E n \in 0 .. 1 : store.marker # Null /\ store' = Inspected(store, n) /\ gate' = [gate EXCEPT ![t] = "PASSED"]
    /\ UNCHANGED <<chosen, original>>

CloseTab(t) ==
    /\ gate[t] # "CLOSED"
    /\ MayRefuse(1)
    /\ gate' = [gate EXCEPT ![t] = "CLOSED"]
    /\ UNCHANGED <<store, chosen, original>>
-----------------------------------------------------------------------------
(* completeLegacyDataMigration                                             *)

Reference(s, mode) == IF mode = "referenced" THEN Records(s) ELSE Null

\* Mutant: the records are removed first.
WrittenRemovingFirst(s, mode, n) ==
    CASE n = 0 -> s
      [] n = 1 -> Removed(s, 1)
      [] n = 2 -> Removed(s, 2)
      [] n = 3 -> [Removed(s, 2) EXCEPT !.reference = Reference(s, mode)]
      [] n = 4 -> [Removed(s, 2) EXCEPT !.reference = Reference(s, mode), !.marker = mode]

\* The storage after the first n of the writes: reference, marker, removals.
Written(s, mode, n) ==
    CASE n = 0 -> s
      [] n = 1 -> [s EXCEPT !.reference = Reference(s, mode)]
      [] n >= 2 -> Removed([s EXCEPT !.reference = Reference(s, mode), !.marker = mode], n - 2)

MayComplete(s, mode) == mode = "referenced" => Inspection(s) = "ready"

\* The button for a summary is disabled on a gate that found bad records.
Choose(t, mode) ==
    /\ gate[t] \in {"ready", "corrupted"} /\ (mode = "referenced" => gate[t] = "ready")
    /\ chosen' = chosen \cup {mode}
    /\ IF ~MayComplete(store, mode)
       THEN store' = Inspected(store, 2) /\ UNCHANGED <<gate, refusals>>
       ELSE \/ /\ MayRefuse(0)
               /\ store' = Written(Inspected(store, 2), mode, 4)
               /\ gate' = [gate EXCEPT ![t] = "PASSED"]
            \/ /\ MayRefuse(1)
               /\ \/ UNCHANGED store /\ UNCHANGED gate  \* unavailable
                  \/ \E n \in 0 .. 3 :
                        /\ store' = Written(Inspected(store, 2), mode, n)
                        /\ \/ gate' = [gate EXCEPT ![t] = "CLOSED"]  \* killed
                           \/ n < 2 /\ gate' = gate                  \* quota: try again
                           \/ n >= 2 /\ gate' = [gate EXCEPT ![t] = "PASSED"]
    /\ UNCHANGED original

LegacyStep(t) == OpenTab(t) \/ CloseTab(t) \/ \E mode \in Modes : Choose(t, mode)

\* loadLegacyReferenceSummary
ReferenceShown == IF store.marker = "referenced" THEN store.reference ELSE Null
=============================================================================
