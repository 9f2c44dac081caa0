-------------------------- MODULE TurnState_proofs --------------------------
(* Theorems about TurnState, for any number of windows, turns, workers,     *)
(* hooks and kills.                                                         *)
EXTENDS TurnStateProps, TLAPS

-----------------------------------------------------------------------------
(* The inductive invariant.                                                 *)

HookSteps == {"IDLE", "ACTIVATE", "REFRESH", "REWRITE", "DEACTIVATE", "DELETE", "LAUNCH"}
Copy == [turn : Turns, host : KnownHosts \cup {Null},
         activatedAt : Nat, hookAt : Nat, beatAt : Nat]
TurnRow == [window : Windows \cup {Null}, startedAt : Nat, lastHookAt : Nat, stopped : BOOLEAN]
Hook == [step : HookSteps, turn : Turns \cup {Null}, read : Copy \cup {Null}]
Worker == [step : WorkerSteps, turn : Turns \cup Copy \cup {Null}, now : Nat]

DataOK ==
    /\ file \in Copy \cup {Null}
    /\ lock \in [made : BOOLEAN, owner : Workers \cup {Null, Dead}]
    /\ hooks \in [Windows -> Hook]
    /\ workers \in [Workers -> Worker]
    /\ turns \in [Turns -> TurnRow]
    /\ beats \in [Turns -> Nat \cup {Null}]
    /\ diedAt \in [Windows -> Nat \cup {Null}]
    /\ clock \in Nat
    /\ \A t \in Turns : turns[t].startedAt <= turns[t].lastHookAt /\ turns[t].lastHookAt <= clock

\* A copy of the file, wherever it is, tells of its turn what the hooks of
\* that turn have said, and nothing that they have not.
CopyOK(copy) ==
    /\ copy \in Copy
    /\ turns[copy.turn].window # Null
    /\ copy.host = HostOf(turns[copy.turn].window)
    /\ copy.activatedAt = turns[copy.turn].startedAt
    /\ copy.hookAt \in copy.activatedAt .. turns[copy.turn].lastHookAt
    /\ copy.beatAt \in copy.activatedAt .. clock

\* A heartbeat of this time says the truth about the turn.
BeatOK(t, now) ==
    /\ now \in turns[t].startedAt .. clock
    /\ now - turns[t].startedAt < MaxTurn
    /\ IF turns[t].window \in KnownHosts
       THEN diedAt[turns[t].window] # Null => now <= diedAt[turns[t].window]
       ELSE now - turns[t].lastHookAt < Lease

\* The turns that the file, a copy of it, a worker or a heartbeat speaks of.
WorksOnTurn(p) == workers[p].step \in {"BEAT", "MARK", "REMOVE", "DELETE"}
Mentioned ==
    {t \in Turns :
        \/ beats[t] # Null
        \/ file # Null /\ file.turn = t
        \/ \E w \in Windows : HookAt(w, "REWRITE") /\ hooks[w].read.turn = t
        \/ \E p \in Workers : At(p, "WRITE") /\ workers[p].turn.turn = t
        \/ \E p \in Workers : WorksOnTurn(p) /\ workers[p].turn = t}

\* A hook is about a turn of its own window; until the turn is activated
\* nothing speaks of it.
OnTurn(w) == hooks[w].step \notin {"IDLE", "LAUNCH"}
HookOK(w) ==
    /\ OnTurn(w) => hooks[w].turn \in Turns /\ turns[hooks[w].turn].window = w
    /\ HookAt(w, "REWRITE") => CopyOK(hooks[w].read) /\ hooks[w].read.turn = hooks[w].turn
    /\ HookAt(w, "ACTIVATE") => hooks[w].turn \notin Mentioned

WorkerOK(p) ==
    /\ WorksOnTurn(p) =>
           /\ workers[p].turn \in Turns
           /\ turns[workers[p].turn].window # Null
           /\ workers[p].now \in turns[workers[p].turn].startedAt .. clock
    /\ At(p, "BEAT") => BeatOK(workers[p].turn, workers[p].now)
    /\ At(p, "WRITE") => CopyOK(workers[p].turn)

IInv ==
    /\ DataOK
    /\ file # Null => CopyOK(file)
    /\ \A w \in Windows : HookOK(w)
    /\ \A p \in Workers : WorkerOK(p)
    /\ \A t \in Turns : beats[t] # Null => turns[t].window # Null /\ BeatOK(t, beats[t])

-----------------------------------------------------------------------------
(* What a step leaves true.                                                 *)

\* The window and the start of a turn stay, and its last hook gets no older.
TurnKept(t) ==
    /\ turns'[t].window = turns[t].window
    /\ turns'[t].startedAt = turns[t].startedAt
    /\ turns'[t].lastHookAt >= turns[t].lastHookAt

TimePasses ==
    /\ clock' >= clock
    /\ \A w \in Windows : diedAt'[w] = diedAt[w] \/ (w \in KnownHosts => diedAt'[w] = clock)

LEMMA CopyKept ==
    ASSUME DataOK, DataOK', TimePasses, NEW copy, CopyOK(copy), TurnKept(copy.turn)
    PROVE  CopyOK(copy)'
<1>1. /\ copy \in Copy /\ copy.turn \in Turns /\ copy.activatedAt \in Nat
      /\ copy.hookAt \in Nat /\ copy.beatAt \in Nat
  BY DEF CopyOK, Copy
<1>2. turns[copy.turn].lastHookAt \in Nat /\ turns'[copy.turn].lastHookAt \in Nat
  BY <1>1 DEF DataOK, TurnRow
<1>3. clock \in Nat /\ clock' \in Nat
  BY DEF DataOK
<1>4. copy.hookAt \in copy.activatedAt .. turns'[copy.turn].lastHookAt
  BY <1>1, <1>2 DEF CopyOK, TurnKept
<1>5. copy.beatAt \in copy.activatedAt .. clock'
  BY <1>1, <1>3 DEF CopyOK, TimePasses
<1>6. /\ turns'[copy.turn].window # Null /\ copy.host = HostOf(turns'[copy.turn].window)
      /\ copy.activatedAt = turns'[copy.turn].startedAt
  BY DEF CopyOK, TurnKept
<1> QED
  BY <1>1, <1>4, <1>5, <1>6 DEF CopyOK, HostOf

LEMMA BeatKept ==
    ASSUME DataOK, DataOK', TimePasses, NEW t \in Turns, NEW now, BeatOK(t, now), TurnKept(t)
    PROVE  BeatOK(t, now)'
<1>1. /\ turns[t].startedAt \in Nat /\ turns[t].lastHookAt \in Nat /\ turns'[t].lastHookAt \in Nat
      /\ clock \in Nat /\ clock' \in Nat /\ turns[t].window \in Windows \cup {Null}
  BY DEF DataOK, TurnRow
<1>2. now \in Nat /\ now <= clock /\ now >= turns[t].startedAt
  BY <1>1 DEF BeatOK
<1>3. now \in turns'[t].startedAt .. clock' /\ now - turns'[t].startedAt < MaxTurn
  BY <1>1, <1>2 DEF BeatOK, TurnKept, TimePasses
<1>4. CASE turns[t].window \in KnownHosts
  <2>1. turns[t].window \in Windows
    BY <1>4, TurnAssumption
  <2>2. PICK w \in Windows : w = turns[t].window
    BY <2>1
  <2>3. diedAt'[w] = diedAt[w] \/ diedAt'[w] = clock
    BY <1>4, <2>2 DEF TimePasses
  <2>4. diedAt[w] # Null => now <= diedAt[w]
    BY <1>4, <2>2 DEF BeatOK
  <2>5. diedAt'[w] # Null => now <= diedAt'[w]
    BY <1>2, <2>3, <2>4
  <2> QED
    BY <1>3, <1>4, <2>2, <2>5 DEF BeatOK, TurnKept
<1>5. CASE turns[t].window \notin KnownHosts
  <2>1. now - turns[t].lastHookAt < Lease /\ Lease \in Nat
    BY <1>5, TurnAssumption DEF BeatOK
  <2>2. turns'[t].lastHookAt >= turns[t].lastHookAt
    BY DEF TurnKept
  <2>3. now - turns'[t].lastHookAt < Lease
    BY <1>1, <1>2, <2>1, <2>2
  <2> QED
    BY <1>3, <1>5, <2>3 DEF BeatOK, TurnKept
<1> QED
  BY <1>4, <1>5

\* What the invariant says of turns that are spoken of.
LEMMA MentionedTurns ==
    ASSUME IInv, NEW t \in Mentioned
    PROVE  t \in Turns /\ turns[t].window # Null
BY DEF Mentioned, IInv, HookOK, WorkerOK, CopyOK

\* A step keeps the invariant when it keeps it for what it touches, and speaks
\* of no turn that is yet to be activated.
Changes(w) == hooks'[w] # hooks[w]
LEMMA Framed ==
    ASSUME IInv, DataOK', TimePasses,
           \A t \in Turns : \/ TurnKept(t)
                            \/ /\ t \notin Mentioned
                               /\ \A w \in Windows : OnTurn(w) /\ ~ Changes(w) => hooks[w].turn # t,
           \A w \in Windows : HookAt(w, "ACTIVATE") /\ ~ Changes(w) /\ hooks[w].turn \in Mentioned'
                                  => hooks[w].turn \in Mentioned,
           file' = file \/ (file' # Null => CopyOK(file)'),
           \A w \in Windows : Changes(w) => HookOK(w)',
           \A p \in Workers : workers'[p] = workers[p] \/ WorkerOK(p)',
           \A t \in Turns : \/ beats'[t] = beats[t]
                            \/ turns'[t].window # Null /\ BeatOK(t, beats[t])'
    PROVE  IInv'
<1> USE DEF Changes
<1>1. DataOK
  BY DEF IInv
<1>2. \A t \in Mentioned : TurnKept(t)
  BY DEF Mentioned
<1>3. ASSUME NEW copy, CopyOK(copy), copy.turn \in Mentioned
      PROVE  CopyOK(copy)'
  BY <1>1, <1>2, <1>3, CopyKept
<1>4. ASSUME file' # Null PROVE CopyOK(file)'
  <2>1. CASE file' = file
    <3>1. PICK f : f = file
      OBVIOUS
    <3>2. CopyOK(f) /\ f.turn \in Mentioned
      BY <1>4, <2>1, <3>1 DEF IInv, CopyOK, Copy, Mentioned
    <3>3. CopyOK(f)'
      BY <1>3, <3>2
    <3> QED
      BY <2>1, <3>1, <3>3 DEF CopyOK
  <2> QED
    BY <1>4, <2>1
<1>5. ASSUME NEW w \in Windows PROVE HookOK(w)'
  <2>1. CASE hooks'[w] = hooks[w]
    <3>1. HookOK(w)
      BY DEF IInv
    <3>2. OnTurn(w) => TurnKept(hooks[w].turn)
      BY <2>1, <3>1 DEF HookOK
    <3>3. OnTurn(w)' => hooks'[w].turn \in Turns /\ turns'[hooks'[w].turn].window = w
      BY <2>1, <3>1, <3>2 DEF HookOK, OnTurn, TurnKept
    <3>4. ASSUME HookAt(w, "REWRITE")
          PROVE  CopyOK(hooks[w].read)' /\ hooks'[w].read.turn = hooks'[w].turn
      <4>1. PICK f : f = hooks[w].read
        OBVIOUS
      <4>2. CopyOK(f) /\ f.turn = hooks[w].turn
        BY <3>1, <3>4, <4>1 DEF HookOK
      <4>3. f.turn \in Mentioned
        BY <3>4, <4>1, <4>2 DEF Mentioned, CopyOK, Copy
      <4>4. CopyOK(f)'
        BY <1>3, <4>2, <4>3
      <4>5. CopyOK(hooks[w].read)'
        BY <2>1, <4>1, <4>4 DEF CopyOK
      <4> QED
        BY <2>1, <4>1, <4>2, <4>5
    <3>5. HookAt(w, "ACTIVATE") => hooks[w].turn \notin Mentioned'
      BY <2>1, <3>1 DEF HookOK
    <3>6. HookAt(w, "REWRITE")' = HookAt(w, "REWRITE") /\ HookAt(w, "ACTIVATE")' = HookAt(w, "ACTIVATE")
      BY <2>1 DEF HookAt
    <3>7. hooks'[w].turn = hooks[w].turn
      BY <2>1
    <3> QED
      BY <3>3, <3>4, <3>5, <3>6, <3>7 DEF HookOK
  <2> QED
    BY <2>1
<1>6. ASSUME NEW p \in Workers PROVE WorkerOK(p)'
  <2>1. CASE workers'[p] = workers[p]
    <3>1. WorkerOK(p)
      BY DEF IInv
    <3>2. /\ WorksOnTurn(p)' = WorksOnTurn(p) /\ At(p, "BEAT")' = At(p, "BEAT")
          /\ At(p, "WRITE")' = At(p, "WRITE")
      BY <2>1 DEF WorksOnTurn, At
    <3>3. ASSUME WorksOnTurn(p)
          PROVE  /\ workers'[p].turn \in Turns
                 /\ turns'[workers'[p].turn].window # Null
                 /\ workers'[p].now \in turns'[workers'[p].turn].startedAt .. clock'
      <4>1. PICK t \in Turns : t = workers[p].turn
        BY <3>1, <3>3 DEF WorkerOK
      <4>2. PICK now : now = workers[p].now
        OBVIOUS
      <4>3. t \in Mentioned
        BY <3>3, <4>1 DEF Mentioned
      <4>4. TurnKept(t) /\ turns[t].window # Null /\ now \in turns[t].startedAt .. clock
        BY <1>2, <3>1, <3>3, <4>1, <4>2, <4>3 DEF WorkerOK
      <4>5. turns[t].startedAt \in Nat /\ clock \in Nat /\ clock' \in Nat /\ clock' >= clock
        BY <1>1 DEF DataOK, TurnRow, TimePasses
      <4>6. now \in turns'[t].startedAt .. clock'
        BY <4>4, <4>5 DEF TurnKept
      <4> QED
        BY <2>1, <4>1, <4>2, <4>4, <4>6 DEF TurnKept
    <3>4. ASSUME At(p, "BEAT") PROVE BeatOK(workers[p].turn, workers[p].now)'
      <4>1. WorksOnTurn(p)
        BY <3>4 DEF At, WorksOnTurn
      <4>2. PICK t \in Turns : t = workers[p].turn
        BY <3>1, <4>1 DEF WorkerOK
      <4>3. PICK now : now = workers[p].now
        OBVIOUS
      <4>4. t \in Mentioned /\ BeatOK(t, now)
        BY <3>1, <3>4, <4>1, <4>2, <4>3 DEF Mentioned, WorkerOK
      <4>5. BeatOK(t, now)'
        BY <1>1, <1>2, <4>4, BeatKept
      <4> QED
        BY <2>1, <4>2, <4>3, <4>5 DEF BeatOK
    <3>5. ASSUME At(p, "WRITE") PROVE CopyOK(workers[p].turn)'
      <4>1. PICK f : f = workers[p].turn
        OBVIOUS
      <4>2. CopyOK(f) /\ f.turn \in Mentioned
        BY <3>1, <3>5, <4>1 DEF WorkerOK, Mentioned, CopyOK, Copy
      <4>3. CopyOK(f)'
        BY <1>3, <4>2
      <4> QED
        BY <2>1, <4>1, <4>3 DEF CopyOK
    <3> QED
      BY <3>2, <3>3, <3>4, <3>5 DEF WorkerOK
  <2> QED
    BY <2>1
<1>7. ASSUME NEW t \in Turns, beats'[t] # Null PROVE turns'[t].window # Null /\ BeatOK(t, beats[t])'
  <2>1. CASE beats'[t] = beats[t]
    <3>1. PICK now : now = beats[t]
      OBVIOUS
    <3>2. t \in Mentioned /\ turns[t].window # Null /\ BeatOK(t, now)
      BY <1>7, <2>1, <3>1 DEF Mentioned, IInv
    <3>3. BeatOK(t, now)'
      BY <1>1, <1>2, <3>2, BeatKept
    <3> QED
      BY <1>2, <2>1, <3>1, <3>2, <3>3 DEF BeatOK, TurnKept
  <2> QED
    BY <1>7, <2>1
<1> QED
  BY <1>4, <1>5, <1>6, <1>7 DEF IInv

\* What is spoken of after a step.
LEMMA MentionedAfter ==
    ASSUME NEW New,
           \A t \in Turns : beats'[t] # Null => t \in Mentioned \cup New,
           file' # Null => file'.turn \in Mentioned \cup New,
           \A w \in Windows :
               \/ hooks'[w] = hooks[w]
               \/ HookAt(w, "REWRITE")' => hooks'[w].read.turn \in Mentioned \cup New,
           \A p \in Workers :
               \/ workers'[p] = workers[p]
               \/ /\ At(p, "WRITE")' => workers'[p].turn.turn \in Mentioned \cup New
                  /\ WorksOnTurn(p)' => workers'[p].turn \in Mentioned \cup New
    PROVE  Mentioned' \subseteq Mentioned \cup New
<1>1. ASSUME NEW t \in Mentioned' PROVE t \in Mentioned \cup New
  <2>1. t \in Turns
    BY DEF Mentioned
  <2>2. CASE beats'[t] # Null \/ (file' # Null /\ file'.turn = t)
    BY <2>1, <2>2
  <2>3. CASE \E w \in Windows : HookAt(w, "REWRITE")' /\ hooks'[w].read.turn = t
    <3>1. PICK w \in Windows : HookAt(w, "REWRITE")' /\ hooks'[w].read.turn = t
      BY <2>3
    <3>2. CASE hooks'[w] = hooks[w]
      BY <2>1, <3>1, <3>2 DEF Mentioned, HookAt
    <3> QED
      BY <3>1, <3>2
  <2>4. CASE \E p \in Workers : \/ At(p, "WRITE")' /\ workers'[p].turn.turn = t
                                \/ WorksOnTurn(p)' /\ workers'[p].turn = t
    <3>1. PICK p \in Workers : \/ At(p, "WRITE")' /\ workers'[p].turn.turn = t
                               \/ WorksOnTurn(p)' /\ workers'[p].turn = t
      BY <2>4
    <3>2. CASE workers'[p] = workers[p]
      BY <2>1, <3>1, <3>2 DEF Mentioned, At, WorksOnTurn
    <3> QED
      BY <3>1, <3>2
  <2> QED
    BY <1>1, <2>2, <2>3, <2>4 DEF Mentioned
<1> QED
  BY <1>1

LEMMA NothingPasses ==
    ASSUME DataOK, clock' = clock, diedAt' = diedAt
    PROVE  TimePasses
BY DEF DataOK, TimePasses

LEMMA TurnsStay ==
    ASSUME DataOK, turns' = turns
    PROVE  \A t \in Turns : TurnKept(t)
BY DEF DataOK, TurnRow, TurnKept

LEMMA Records ==
    NoHook \in Hook /\ NoWorker \in Worker /\ NoTurn \in TurnRow
BY DEF NoHook, Hook, HookSteps, NoWorker, Worker, WorkerSteps, NoTurn, TurnRow
-----------------------------------------------------------------------------
(* Steps of the workers.                                                    *)

OnTurnSteps == {"BEAT", "MARK", "REMOVE", "DELETE"}
OthersRest == UNCHANGED <<hooks, turns, diedAt, clock>>

\* The worker learns nothing about a turn.
Plods(p) ==
    /\ \E x \in Worker :
           /\ workers' = [workers EXCEPT ![p] = x]
           /\ x.step # "WRITE"
           /\ x.step \in OnTurnSteps =>
                  WorksOnTurn(p) /\ x.step # "BEAT" /\ x.turn = workers[p].turn /\ x.now = workers[p].now
    /\ lock' \in [made : BOOLEAN, owner : Workers \cup {Null, Dead}]
    /\ file' = file \/ file' = Null
    /\ beats' = beats
    /\ OthersRest

LEMMA PloddingKeepsIInv ==
    ASSUME IInv, NEW p \in Workers, Plods(p)
    PROVE  IInv'
<1>1. PICK x \in Worker :
          /\ workers' = [workers EXCEPT ![p] = x]
          /\ x.step # "WRITE"
          /\ x.step \in OnTurnSteps =>
                 WorksOnTurn(p) /\ x.step # "BEAT" /\ x.turn = workers[p].turn /\ x.now = workers[p].now
  BY DEF Plods
<1>2. DataOK
  BY DEF IInv
<1>3. workers' \in [Workers -> Worker] /\ workers'[p] = x
      /\ \A b \in Workers \ {p} : workers'[b] = workers[b]
  BY <1>1, <1>2 DEF DataOK
<1>4. DataOK'
  BY <1>2, <1>3 DEF DataOK, Plods, OthersRest
<1>5. TimePasses /\ \A t \in Turns : TurnKept(t)
  BY <1>2, NothingPasses, TurnsStay DEF Plods, OthersRest
<1>6. ~ At(p, "BEAT")' /\ ~ At(p, "WRITE")'
  BY <1>1, <1>3 DEF At, OnTurnSteps
<1>7. WorksOnTurn(p)' => WorksOnTurn(p) /\ workers'[p].turn = workers[p].turn /\ workers'[p].now = workers[p].now
  BY <1>1, <1>3 DEF WorksOnTurn, OnTurnSteps
<1>8. WorkerOK(p)'
  BY <1>6, <1>7 DEF IInv, WorkerOK, Plods, OthersRest
<1>9. Mentioned' \subseteq Mentioned
  <2>1. \A t \in Turns : beats'[t] # Null => t \in Mentioned
    BY DEF Plods, Mentioned
  <2>2. file' # Null => file'.turn \in Mentioned
    BY DEF Plods, Mentioned, IInv, CopyOK, Copy
  <2>3. WorksOnTurn(p)' => workers'[p].turn \in Mentioned
    BY <1>7 DEF Mentioned, IInv, WorkerOK
  <2>4. hooks' = hooks
    BY DEF Plods, OthersRest
  <2>5. Mentioned' \subseteq Mentioned \cup {}
    BY <1>3, <1>6, <2>1, <2>2, <2>3, <2>4, MentionedAfter
  <2> QED
    BY <2>5
<1>10. hooks' = hooks /\ beats' = beats /\ (file' = file \/ file' = Null)
  BY DEF Plods, OthersRest
<1> QED
  BY <1>3, <1>4, <1>5, <1>8, <1>9, <1>10, Framed DEF Changes

\* The record of a worker that goes on.
LEMMA GoingOn ==
    ASSUME DataOK, NEW p \in Workers, NEW step \in WorkerSteps, Goes(p, step)
    PROVE  \E x \in Worker : /\ workers' = [workers EXCEPT ![p] = x]
                             /\ x.step = step /\ x.turn = workers[p].turn /\ x.now = workers[p].now
<1>1. PICK x : x = [workers[p] EXCEPT !.step = step]
  OBVIOUS
<1>2. workers[p] \in Worker
  BY DEF DataOK
<1>3. x \in Worker /\ x.step = step /\ x.turn = workers[p].turn /\ x.now = workers[p].now
  BY <1>1, <1>2 DEF Worker
<1>4. workers' = [workers EXCEPT ![p] = x]
  BY <1>1 DEF DataOK, Goes
<1> QED
  BY <1>3, <1>4

LEMMA Plodding ==
    ASSUME IInv, NEW p \in Workers,
           \/ Exit(p)
           \/ \E step \in WorkerSteps : /\ Goes(p, step) /\ step \notin {"WRITE", "BEAT"}
                                        /\ step \in OnTurnSteps => WorksOnTurn(p),
           lock' = lock \/ lock' \in [made : BOOLEAN, owner : Workers \cup {Null, Dead}],
           file' = file \/ file' = Null, beats' = beats, OthersRest
    PROVE  IInv'
<1>1. DataOK
  BY DEF IInv
<1>2. CASE Exit(p)
  <2>1. NoWorker \in Worker /\ workers' = [workers EXCEPT ![p] = NoWorker]
    BY <1>2, Records DEF Exit
  <2>2. Plods(p)
    BY <1>1, <2>1 DEF Plods, NoWorker, OnTurnSteps, DataOK
  <2> QED
    BY <2>2, PloddingKeepsIInv
<1>3. CASE \E step \in WorkerSteps : /\ Goes(p, step) /\ step \notin {"WRITE", "BEAT"}
                                     /\ step \in OnTurnSteps => WorksOnTurn(p)
  <2>1. PICK step \in WorkerSteps : /\ Goes(p, step) /\ step \notin {"WRITE", "BEAT"}
                                    /\ step \in OnTurnSteps => WorksOnTurn(p)
    BY <1>3
  <2>2. PICK x \in Worker : /\ workers' = [workers EXCEPT ![p] = x]
                            /\ x.step = step /\ x.turn = workers[p].turn /\ x.now = workers[p].now
    BY <1>1, <2>1, GoingOn
  <2>3. Plods(p)
    BY <1>1, <2>1, <2>2 DEF Plods, DataOK
  <2> QED
    BY <2>3, PloddingKeepsIInv
<1> QED
  BY <1>2, <1>3

LEMMA LockRecords ==
    ASSUME DataOK, NEW p \in Workers
    PROVE  /\ NoLock \in [made : BOOLEAN, owner : Workers \cup {Null, Dead}]
           /\ [made |-> TRUE, owner |-> Null] \in [made : BOOLEAN, owner : Workers \cup {Null, Dead}]
           /\ [lock EXCEPT !.owner = p] \in [made : BOOLEAN, owner : Workers \cup {Null, Dead}]
           /\ [lock EXCEPT !.owner = Dead] \in [made : BOOLEAN, owner : Workers \cup {Null, Dead}]
BY DEF NoLock, DataOK

LEMMA AcquireKeepsIInv ==
    ASSUME IInv, NEW p \in Workers, AcquireProcessLock(p), OthersRest
    PROVE  IInv'
<1>1. DataOK
  BY DEF IInv
<1>2. file' = file /\ beats' = beats
  BY DEF AcquireProcessLock
<1>3. lock' = lock \/ lock' \in [made : BOOLEAN, owner : Workers \cup {Null, Dead}]
  BY <1>1, LockRecords DEF AcquireProcessLock
<1>4. \/ Exit(p)
      \/ \E step \in WorkerSteps : /\ Goes(p, step) /\ step \notin {"WRITE", "BEAT"}
                                   /\ step \in OnTurnSteps => WorksOnTurn(p)
  BY DEF AcquireProcessLock, WorkerSteps, OnTurnSteps
<1> QED
  BY <1>2, <1>3, <1>4, Plodding

\* The worker finds a turn: what it will do is right as of now.
LEMMA ReadTurnKeepsIInv ==
    ASSUME IInv, NEW p \in Workers, ReadTurn(p), OthersRest
    PROVE  IInv'
<1>1. DataOK
  BY DEF IInv
<1>2. UNCHANGED <<file, lock, beats>>
  BY DEF ReadTurn
<1>3. CASE file = Null
  BY <1>2, <1>3, Plodding DEF ReadTurn, WorkerSteps, OnTurnSteps
<1>4. CASE file # Null
  <2>1. CopyOK(file) /\ file.turn \in Turns
    BY <1>4 DEF IInv, CopyOK, Copy
  <2>2. PICK t \in Turns : t = file.turn
    BY <2>1
  <2>3. PICK x : x = [step |-> IF IsTurnAlive(file) THEN "BEAT" ELSE "REMOVE",
                      turn |-> file.turn, now |-> clock]
    OBVIOUS
  <2>4. x \in Worker /\ x.turn = t /\ x.now = clock /\ x.step \in {"BEAT", "REMOVE"}
        /\ (x.step = "BEAT" => IsTurnAlive(file))
    BY <1>1, <2>2, <2>3 DEF Worker, WorkerSteps, DataOK
  <2>5. workers' = [workers EXCEPT ![p] = x]
    BY <1>4, <2>3 DEF ReadTurn
  <2>6. workers' \in [Workers -> Worker] /\ workers'[p] = x
        /\ \A b \in Workers \ {p} : workers'[b] = workers[b]
    BY <1>1, <2>4, <2>5 DEF DataOK
  <2>7. DataOK'
    BY <1>1, <1>2, <2>6 DEF DataOK, OthersRest
  <2>8. TimePasses /\ \A u \in Turns : TurnKept(u)
    BY <1>1, NothingPasses, TurnsStay DEF OthersRest
  <2>9. /\ turns[t].window # Null /\ turns[t].startedAt \in Nat /\ clock \in Nat
        /\ turns[t].startedAt <= clock /\ turns[t].lastHookAt \in Nat
        /\ turns[t].window \in Windows
    BY <1>1, <2>1, <2>2 DEF CopyOK, DataOK, TurnRow
  <2>10. IsTurnAlive(file) => BeatOK(t, clock)
    <3>1. SUFFICES ASSUME IsTurnAlive(file) PROVE BeatOK(t, clock)
      OBVIOUS
    <3>2. clock - turns[t].startedAt < MaxTurn
      BY <2>1, <2>2, <3>1 DEF IsTurnAlive, CopyOK
    <3>3. CASE turns[t].window \in KnownHosts
      <4>1. file.host = turns[t].window
        BY <2>1, <2>2, <3>3 DEF CopyOK, HostOf
      <4>2. diedAt[turns[t].window] = Null
        BY <2>9, <3>1, <4>1 DEF IsTurnAlive
      <4> QED
        BY <2>9, <3>2, <3>3, <4>2 DEF BeatOK
    <3>4. CASE turns[t].window \notin KnownHosts
      <4>1. file.host = Null
        BY <2>1, <2>2, <3>4 DEF CopyOK, HostOf
      <4>2. clock - file.hookAt < Lease
        BY <3>1, <4>1 DEF IsTurnAlive
      <4>3. file.hookAt \in Nat /\ file.hookAt <= turns[t].lastHookAt
        BY <2>1, <2>2, <2>9 DEF CopyOK, Copy
      <4>4. clock - turns[t].lastHookAt < Lease
        BY <2>9, <4>2, <4>3, TurnAssumption
      <4> QED
        BY <2>9, <3>2, <3>4, <4>4 DEF BeatOK
    <3> QED
      BY <3>3, <3>4
  <2>11. WorkerOK(p)'
    <3>1. /\ turns' = turns /\ clock' = clock /\ diedAt' = diedAt
      BY DEF OthersRest
    <3>2. At(p, "BEAT")' => BeatOK(t, clock)
      BY <2>4, <2>6, <2>10 DEF At
    <3>3. At(p, "BEAT")' => BeatOK(workers[p].turn, workers[p].now)'
      BY <2>4, <2>6, <3>1, <3>2 DEF BeatOK
    <3>4. ~ At(p, "WRITE")'
      BY <2>4, <2>6 DEF At
    <3>5. /\ workers'[p].turn \in Turns /\ turns'[workers'[p].turn].window # Null
          /\ workers'[p].now \in turns'[workers'[p].turn].startedAt .. clock'
      BY <2>4, <2>6, <2>9, <3>1
    <3> QED
      BY <3>3, <3>4, <3>5 DEF WorkerOK
  <2>12. Mentioned' \subseteq Mentioned
    <3>1. t \in Mentioned
      BY <1>4, <2>2 DEF Mentioned
    <3>2. \A u \in Turns : beats'[u] # Null => u \in Mentioned
      BY <1>2 DEF Mentioned
    <3>3. file' # Null => file'.turn \in Mentioned
      BY <1>2, <2>2, <3>1
    <3>4. hooks' = hooks /\ ~ At(p, "WRITE")'
      BY <2>4, <2>6 DEF OthersRest, At
    <3>5. Mentioned' \subseteq Mentioned \cup {}
      BY <2>4, <2>6, <3>1, <3>2, <3>3, <3>4, MentionedAfter
    <3> QED
      BY <3>5
  <2>13. hooks' = hooks
    BY DEF OthersRest
  <2> QED
    BY <1>2, <2>6, <2>7, <2>8, <2>11, <2>12, <2>13, Framed DEF Changes
<1> QED
  BY <1>3, <1>4

LEMMA RemoveTurnKeepsIInv ==
    ASSUME IInv, NEW p \in Workers, RemoveTurn(p), OthersRest
    PROVE  IInv'
<1>1. lock' = lock /\ beats' = beats /\ (file' = file \/ file' = Null)
  BY DEF RemoveTurn
<1>2. \E step \in WorkerSteps : /\ Goes(p, step) /\ step \notin {"WRITE", "BEAT"}
                                /\ step \in OnTurnSteps => WorksOnTurn(p)
  BY DEF RemoveTurn, WorkerSteps, OnTurnSteps, WorksOnTurn, At
<1> QED
  BY <1>1, <1>2, Plodding

LEMMA ReleaseKeepsIInv ==
    ASSUME IInv, NEW p \in Workers, ReleaseLock(p), OthersRest
    PROVE  IInv'
<1>1. DataOK
  BY DEF IInv
<1>2. lock' \in [made : BOOLEAN, owner : Workers \cup {Null, Dead}]
  BY <1>1, LockRecords DEF ReleaseLock
<1> QED
  BY <1>2, Plodding DEF ReleaseLock

LEMMA EnqueueKeepsIInv ==
    ASSUME IInv, NEW p \in Workers, EnqueueHeartbeat(p), OthersRest
    PROVE  IInv'
<1>1. DataOK /\ WorkerOK(p) /\ At(p, "BEAT") /\ WorksOnTurn(p)
  BY DEF IInv, EnqueueHeartbeat, At, WorksOnTurn
<1>2. PICK t \in Turns : t = workers[p].turn
  BY <1>1 DEF WorkerOK
<1>3. PICK now : now = workers[p].now
  OBVIOUS
<1>4. /\ BeatOK(t, now) /\ turns[t].window # Null /\ now \in turns[t].startedAt .. clock
      /\ now \in Nat /\ t \in Mentioned
  BY <1>1, <1>2, <1>3 DEF WorkerOK, DataOK, Worker, Mentioned
<1>5. PICK x \in Worker : /\ workers' = [workers EXCEPT ![p] = x]
                          /\ x.step = "MARK" /\ x.turn = workers[p].turn /\ x.now = workers[p].now
  <2>1. Goes(p, "MARK") /\ "MARK" \in WorkerSteps
    BY DEF EnqueueHeartbeat, WorkerSteps
  <2> QED
    BY <1>1, <2>1, GoingOn
<1>6. /\ workers' \in [Workers -> Worker] /\ workers'[p] = x
      /\ \A b \in Workers \ {p} : workers'[b] = workers[b]
  BY <1>1, <1>5 DEF DataOK
<1>7. /\ beats' = [beats EXCEPT ![t] = now] /\ file' = file /\ lock' = lock
      /\ UNCHANGED <<hooks, turns, diedAt, clock>>
  BY <1>2, <1>3 DEF EnqueueHeartbeat, OthersRest
<1>8. beats'[t] = now /\ \A u \in Turns \ {t} : beats'[u] = beats[u]
  BY <1>1, <1>7 DEF DataOK
<1>9. DataOK'
  BY <1>1, <1>4, <1>6, <1>7 DEF DataOK
<1>10. TimePasses /\ \A u \in Turns : TurnKept(u)
  BY <1>1, <1>7, NothingPasses, TurnsStay
<1>11. WorkerOK(p)'
  <2>1. ~ At(p, "BEAT")' /\ ~ At(p, "WRITE")'
    BY <1>5, <1>6 DEF At
  <2> QED
    BY <1>2, <1>3, <1>4, <1>5, <1>6, <1>7, <2>1 DEF WorkerOK
<1>12. turns'[t].window # Null /\ BeatOK(t, beats[t])'
  BY <1>4, <1>7, <1>8 DEF BeatOK
<1>13. Mentioned' \subseteq Mentioned
  <2>1. \A u \in Turns : beats'[u] # Null => u \in Mentioned
    BY <1>4, <1>8 DEF Mentioned
  <2>2. file' # Null => file'.turn \in Mentioned
    BY <1>7 DEF Mentioned, IInv, CopyOK, Copy
  <2>3. ~ At(p, "WRITE")' /\ workers'[p].turn \in Mentioned
    BY <1>2, <1>4, <1>5, <1>6 DEF At
  <2>4. Mentioned' \subseteq Mentioned \cup {}
    BY <1>6, <1>7, <2>1, <2>2, <2>3, MentionedAfter
  <2> QED
    BY <2>4
<1> QED
  BY <1>6, <1>7, <1>8, <1>9, <1>10, <1>11, <1>12, <1>13, Framed DEF Changes

LEMMA MarkKeepsIInv ==
    ASSUME IInv, NEW p \in Workers, MarkHeartbeat(p), OthersRest
    PROVE  IInv'
<1>1. DataOK /\ WorkerOK(p) /\ lock' = lock /\ beats' = beats
      /\ UNCHANGED <<hooks, turns, diedAt, clock>>
  BY DEF IInv, MarkHeartbeat, OthersRest
<1>2. TimePasses /\ \A u \in Turns : TurnKept(u)
  BY <1>1, NothingPasses, TurnsStay
<1>3. \A u \in Turns : beats'[u] # Null => u \in Mentioned
  BY <1>1 DEF Mentioned
<1>4. CASE At(p, "MARK") /\ ~ IsCurrent(workers[p].turn)
  <2>1. Goes(p, "LOOP") /\ "LOOP" \in WorkerSteps /\ file' = file
    BY <1>4 DEF MarkHeartbeat, At, WorkerSteps
  <2> QED
    BY <1>1, <2>1, Plodding DEF OnTurnSteps
<1>5. CASE At(p, "MARK") /\ IsCurrent(workers[p].turn)
  <2>1. /\ workers' = [workers EXCEPT ![p].step = "WRITE",
                                      ![p].turn = Marked(file, workers[p].now)]
        /\ file' = file
    BY <1>5 DEF MarkHeartbeat, At
  <2>2. CopyOK(file) /\ file.turn \in Mentioned /\ file.turn = workers[p].turn
    BY <1>5 DEF IsCurrent, IInv, Mentioned, CopyOK, Copy
  <2>3. PICK f : f = Marked(file, workers[p].now)
    OBVIOUS
  <2>4. WorksOnTurn(p)
    BY <1>5 DEF At, WorksOnTurn
  <2>5. /\ workers[p].now \in turns[file.turn].startedAt .. clock /\ workers[p].now \in Nat
        /\ workers[p] \in Worker
    BY <1>1, <2>2, <2>4 DEF WorkerOK, DataOK, Worker
  <2>6. /\ f \in Copy /\ f.turn = file.turn /\ f.host = file.host /\ f.activatedAt = file.activatedAt
        /\ f.hookAt = file.hookAt /\ f.beatAt = workers[p].now
    BY <2>2, <2>3, <2>5 DEF Marked, CopyOK, Copy
  <2>7. CopyOK(f)
    BY <2>2, <2>5, <2>6 DEF CopyOK
  <2>8. PICK x : x = [workers[p] EXCEPT !.step = "WRITE", !.turn = f]
    OBVIOUS
  <2>9. x \in Worker /\ x.step = "WRITE" /\ x.turn = f
    BY <2>5, <2>6, <2>8 DEF Worker, WorkerSteps
  <2>10. workers' = [workers EXCEPT ![p] = x]
    BY <1>1, <2>1, <2>3, <2>8 DEF DataOK
  <2>11. /\ workers' \in [Workers -> Worker] /\ workers'[p] = x
         /\ \A b \in Workers \ {p} : workers'[b] = workers[b]
    BY <1>1, <2>9, <2>10 DEF DataOK
  <2>12. DataOK'
    BY <1>1, <2>1, <2>11 DEF DataOK
  <2>13. WorkerOK(p)'
    <3>1. ~ WorksOnTurn(p)' /\ ~ At(p, "BEAT")'
      BY <2>9, <2>11 DEF At, WorksOnTurn
    <3>2. CopyOK(workers[p].turn)'
      BY <1>1, <2>7, <2>9, <2>11 DEF CopyOK
    <3> QED
      BY <3>1, <3>2 DEF WorkerOK
  <2>14. Mentioned' \subseteq Mentioned
    <3>1. file' # Null => file'.turn \in Mentioned
      BY <2>1, <2>2
    <3>2. ~ WorksOnTurn(p)' /\ workers'[p].turn.turn \in Mentioned
      BY <2>2, <2>6, <2>9, <2>11 DEF WorksOnTurn
    <3>3. Mentioned' \subseteq Mentioned \cup {}
      BY <1>1, <1>3, <2>11, <3>1, <3>2, MentionedAfter
    <3> QED
      BY <3>3
  <2> QED
    BY <1>1, <1>2, <2>1, <2>11, <2>12, <2>13, <2>14, Framed DEF Changes
<1>6. CASE At(p, "WRITE")
  <2>1. file' = workers[p].turn /\ workers' = [workers EXCEPT ![p] = [NoWorker EXCEPT !.step = "LOOP"]]
    BY <1>6 DEF MarkHeartbeat, At
  <2>2. CopyOK(workers[p].turn) /\ workers[p].turn.turn \in Mentioned
    BY <1>1, <1>6 DEF WorkerOK, Mentioned, CopyOK, Copy
  <2>3. PICK x : x = [NoWorker EXCEPT !.step = "LOOP"]
    OBVIOUS
  <2>4. x \in Worker /\ x.step = "LOOP"
    BY <2>3 DEF NoWorker, Worker, WorkerSteps
  <2>5. /\ workers' \in [Workers -> Worker] /\ workers'[p] = x
        /\ \A b \in Workers \ {p} : workers'[b] = workers[b]
    BY <1>1, <2>1, <2>3, <2>4 DEF DataOK
  <2>6. DataOK'
    BY <1>1, <2>1, <2>2, <2>5 DEF DataOK, CopyOK
  <2>7. CopyOK(file)'
    BY <1>1, <2>1, <2>2 DEF CopyOK
  <2>8. ~ WorksOnTurn(p)' /\ ~ At(p, "BEAT")' /\ ~ At(p, "WRITE")'
    BY <2>4, <2>5 DEF At, WorksOnTurn
  <2>9. WorkerOK(p)'
    BY <2>8 DEF WorkerOK
  <2>10. Mentioned' \subseteq Mentioned
    <3>1. file' # Null => file'.turn \in Mentioned
      BY <2>1, <2>2
    <3>2. Mentioned' \subseteq Mentioned \cup {}
      BY <1>1, <1>3, <2>5, <2>8, <3>1, MentionedAfter
    <3> QED
      BY <3>2
  <2> QED
    BY <1>1, <1>2, <2>5, <2>6, <2>7, <2>9, <2>10, Framed DEF Changes
<1> QED
  BY <1>4, <1>5, <1>6 DEF MarkHeartbeat

LEMMA WorkerStepKeepsIInv ==
    ASSUME IInv, NEW p \in Workers, WorkerStep(p) \/ KillWorker(p)
    PROVE  IInv'
<1>1. CASE WorkerStep(p)
  <2>1. OthersRest
    BY <1>1 DEF WorkerStep, OthersRest
  <2> QED
    BY <1>1, <2>1, AcquireKeepsIInv, ReadTurnKeepsIInv, RemoveTurnKeepsIInv, EnqueueKeepsIInv,
       MarkKeepsIInv, ReleaseKeepsIInv DEF WorkerStep
<1>2. CASE KillWorker(p)
  <2>1. DataOK
    BY DEF IInv
  <2>2. lock' = lock \/ lock' \in [made : BOOLEAN, owner : Workers \cup {Null, Dead}]
    BY <1>2, <2>1, LockRecords DEF KillWorker
  <2>3. OthersRest /\ file' = file /\ beats' = beats /\ Exit(p)
    BY <1>2 DEF KillWorker, OthersRest
  <2> QED
    BY <2>2, <2>3, Plodding
<1> QED
  BY <1>1, <1>2
-----------------------------------------------------------------------------
(* Steps of the hooks.                                                      *)

\* The hook of a window moves; it may speak of some new turns.
LEMMA HookMovesKeepsIInv ==
    ASSUME IInv, NEW w \in Windows, NEW h \in Hook, NEW New, hooks[w].step # h.step,
           hooks' = [hooks EXCEPT ![w] = h],
           UNCHANGED <<lock, beats, diedAt, clock>>,
           workers' \in [Workers -> Worker],
           \A p \in Workers : workers'[p] = workers[p] \/ workers'[p].step = "MAKE_LOCK",
           turns' \in [Turns -> TurnRow],
           \A t \in Turns : turns'[t].startedAt <= turns'[t].lastHookAt /\ turns'[t].lastHookAt <= clock,
           \A t \in Turns : \/ TurnKept(t)
                            \/ /\ t \notin Mentioned
                               /\ \A b \in Windows \ {w} : OnTurn(b) => hooks[b].turn # t,
           \A b \in Windows \ {w} : HookAt(b, "ACTIVATE") => hooks[b].turn \notin New,
           \/ file' = file
           \/ file' = Null
           \/ CopyOK(file)' /\ file'.turn \in Mentioned \cup New,
           h.step = "REWRITE" => CopyOK(h.read)' /\ h.read.turn = h.turn /\ h.turn \in Mentioned,
           h.step \notin {"IDLE", "LAUNCH"} => h.turn \in Turns /\ turns'[h.turn].window = w,
           h.step = "ACTIVATE" => h.turn \notin Mentioned \cup New
    PROVE  IInv'
<1>1. DataOK
  BY DEF IInv
<1>2. /\ hooks' \in [Windows -> Hook] /\ hooks'[w] = h
      /\ \A b \in Windows \ {w} : hooks'[b] = hooks[b]
  BY <1>1 DEF DataOK
<1>3. file' \in Copy \cup {Null}
  BY <1>1 DEF DataOK, CopyOK
<1>4. DataOK'
  BY <1>1, <1>2, <1>3 DEF DataOK
<1>5. TimePasses
  BY <1>1, NothingPasses
<1>6. Mentioned' \subseteq Mentioned \cup New
  <2>1. \A t \in Turns : beats'[t] # Null => t \in Mentioned \cup New
    BY DEF Mentioned
  <2>2. file' # Null => file'.turn \in Mentioned \cup New
    BY DEF Mentioned, IInv, CopyOK, Copy
  <2>3. HookAt(w, "REWRITE")' => hooks'[w].read.turn \in Mentioned
    BY <1>2 DEF HookAt
  <2>4. \A p \in Workers : \/ workers'[p] = workers[p]
                           \/ ~ At(p, "WRITE")' /\ ~ WorksOnTurn(p)'
    BY DEF At, WorksOnTurn
  <2> QED
    <3>1. \A b \in Windows :
              \/ hooks'[b] = hooks[b]
              \/ HookAt(b, "REWRITE")' => hooks'[b].read.turn \in Mentioned \cup New
      BY <1>2, <2>3
    <3>2. \A p \in Workers :
              \/ workers'[p] = workers[p]
              \/ /\ At(p, "WRITE")' => workers'[p].turn.turn \in Mentioned \cup New
                 /\ WorksOnTurn(p)' => workers'[p].turn \in Mentioned \cup New
      BY <2>4
    <3> HIDE DEF Mentioned
    <3> QED
      BY ONLY <2>1, <2>2, <3>1, <3>2, MentionedAfter
<1>7. HookOK(w)'
  <2>1. OnTurn(w)' => hooks'[w].turn \in Turns /\ turns'[hooks'[w].turn].window = w
    BY <1>2 DEF OnTurn
  <2>2. HookAt(w, "REWRITE")' => CopyOK(hooks[w].read)' /\ hooks'[w].read.turn = hooks'[w].turn
    BY <1>2 DEF HookAt, CopyOK
  <2>3. HookAt(w, "ACTIVATE")' => hooks'[w].turn \notin Mentioned'
    BY <1>2, <1>6 DEF HookAt
  <2> QED
    BY <2>1, <2>2, <2>3 DEF HookOK
<1>8. \A b \in Windows : Changes(b) => b = w
  BY <1>2 DEF Changes
<1>9. \A p \in Workers : workers'[p] = workers[p] \/ WorkerOK(p)'
  BY DEF WorkerOK, WorksOnTurn, At
<1>10. ASSUME NEW t \in Turns, ~ TurnKept(t), NEW b \in Windows, OnTurn(b), ~ Changes(b)
       PROVE  hooks[b].turn # t
  <2>1. CASE b # w
    BY <1>10, <2>1
  <2>2. CASE b = w
    BY <1>2, <1>10, <2>2 DEF Changes
  <2> QED
    BY <2>1, <2>2
<1>11. \A b \in Windows : HookAt(b, "ACTIVATE") /\ ~ Changes(b) /\ hooks[b].turn \in Mentioned'
                             => hooks[b].turn \in Mentioned
  BY <1>2, <1>6 DEF HookAt, Changes
<1> QED
  BY <1>4, <1>5, <1>7, <1>8, <1>9, <1>10, <1>11, Framed

\* It speaks of none that was not spoken of.
LEMMA HookMovesOn ==
    ASSUME IInv, NEW w \in Windows, NEW h \in Hook, hooks[w].step # h.step,
           hooks' = [hooks EXCEPT ![w] = h],
           UNCHANGED <<lock, beats, diedAt, clock>>,
           workers' \in [Workers -> Worker],
           \A p \in Workers : workers'[p] = workers[p] \/ workers'[p].step = "MAKE_LOCK",
           turns' \in [Turns -> TurnRow],
           \A t \in Turns : turns'[t].startedAt <= turns'[t].lastHookAt /\ turns'[t].lastHookAt <= clock,
           \A t \in Turns : \/ TurnKept(t)
                            \/ t \notin Mentioned /\ \A b \in Windows \ {w} : OnTurn(b) => hooks[b].turn # t,
           file' = file \/ file' = Null \/ (CopyOK(file)' /\ file'.turn \in Mentioned),
           h.step = "REWRITE" => CopyOK(h.read)' /\ h.read.turn = h.turn /\ h.turn \in Mentioned,
           h.step \notin {"IDLE", "LAUNCH"} => h.turn \in Turns /\ turns'[h.turn].window = w,
           h.step = "ACTIVATE" => h.turn \notin Mentioned
    PROVE  IInv'
<1>1. PICK New : New = {}
  OBVIOUS
<1>2. \A t : t \notin New
  BY <1>1
<1>3. file' = file \/ file' = Null \/ (CopyOK(file)' /\ file'.turn \in Mentioned \cup New)
  OBVIOUS
<1>4. h.step = "ACTIVATE" => h.turn \notin Mentioned \cup New
  BY <1>2
<1> HIDE DEF Mentioned
<1> QED
  BY <1>2, <1>3, <1>4, HookMovesKeepsIInv

\* A hook of window w on turn t, and the steps it goes through.
LEMMA HookRecords ==
    ASSUME DataOK, NEW w \in Windows
    PROVE  /\ \A t \in Turns \cup {Null}, step \in HookSteps :
                  [step |-> step, turn |-> t, read |-> Null] \in Hook
           /\ \A step \in HookSteps, read \in Copy \cup {Null} :
                  [hooks[w] EXCEPT !.step = step, !.read = read] \in Hook
           /\ hooks[w] \in Hook
<1>1. \A t \in Turns \cup {Null}, step \in HookSteps :
          [step |-> step, turn |-> t, read |-> Null] \in Hook
  BY DEF Hook
<1>2. hooks[w] \in Hook
  BY DEF DataOK
<1>3. ASSUME NEW step \in HookSteps, NEW read \in Copy \cup {Null}
      PROVE  [hooks[w] EXCEPT !.step = step, !.read = read] \in Hook
  BY <1>2 DEF Hook
<1> QED
  BY <1>1, <1>2, <1>3

LEMMA HookGoesOn ==
    ASSUME DataOK, NEW w \in Windows, NEW step \in HookSteps, NEW read \in Copy \cup {Null},
           HookGoes(w, step, read)
    PROVE  \E h \in Hook : /\ hooks' = [hooks EXCEPT ![w] = h]
                           /\ h.step = step /\ h.turn = hooks[w].turn /\ h.read = read
<1> DEFINE h == [hooks[w] EXCEPT !.step = step, !.read = read]
<1>1. h \in Hook
  BY HookRecords
<1>2. hooks' = [hooks EXCEPT ![w] = h]
  BY DEF HookGoes, DataOK, Hook
<1>3. h.step = step /\ h.turn = hooks[w].turn /\ h.read = read
  BY HookRecords DEF Hook
<1> QED
  BY <1>1, <1>2, <1>3

\* Nothing speaks of a turn that has not begun, and no hook is about it.
LEMMA NotBegun ==
    ASSUME IInv, NEW t \in Turns, turns[t].window = Null
    PROVE  t \notin Mentioned /\ \A b \in Windows : OnTurn(b) => hooks[b].turn # t
<1>1. t \notin Mentioned
  BY MentionedTurns
<1>2. \A b \in Windows : OnTurn(b) => hooks[b].turn # t
  BY TurnAssumption DEF IInv, HookOK
<1> QED
  BY <1>1, <1>2

LEMMA StartKeepsIInv ==
    ASSUME IInv, NEW w \in Windows, NEW t \in Turns,
           Prompt(w, t) \/ UseTool(w, t) \/ Stop(w, t)
    PROVE  IInv'
<1>1. PICK step \in {"ACTIVATE", "REFRESH", "DEACTIVATE"} :
          /\ hooks' = [hooks EXCEPT ![w] = [step |-> step, turn |-> t, read |-> Null]]
          /\ step = "ACTIVATE" <=> Prompt(w, t)
  <2>1. CASE Prompt(w, t)
    BY <2>1 DEF Prompt, StartHook
  <2>2. CASE UseTool(w, t)
    BY <2>2, TurnAssumption DEF UseTool, StartHook, Running, Prompt
  <2>3. CASE Stop(w, t)
    BY <2>3, TurnAssumption DEF Stop, StartHook, Running, Prompt
  <2> QED
    BY <2>1, <2>2, <2>3
<1>2. DataOK
  BY DEF IInv
<1>3. PICK h \in Hook : h = [step |-> step, turn |-> t, read |-> Null]
  BY <1>2, HookRecords DEF HookSteps
<1>4. UNCHANGED <<file, lock, workers, beats, diedAt, clock>> /\ CanHook(w)
  BY DEF Prompt, UseTool, Stop
<1>5. turns[t] \in TurnRow /\ clock \in Nat
  BY <1>2 DEF DataOK
<1>6. CASE Prompt(w, t)
  <2>1. turns[t].window = Null
        /\ turns' = [turns EXCEPT ![t] = [window |-> w, startedAt |-> clock,
                                          lastHookAt |-> clock, stopped |-> FALSE]]
    BY <1>6 DEF Prompt
  <2>2. /\ turns' \in [Turns -> TurnRow]
        /\ turns'[t].window = w /\ turns'[t].startedAt = clock /\ turns'[t].lastHookAt = clock
        /\ \A u \in Turns \ {t} : turns'[u] = turns[u]
    BY <1>2, <1>5, <2>1 DEF DataOK, TurnRow
  <2>3. \A u \in Turns : turns'[u].startedAt <= turns'[u].lastHookAt /\ turns'[u].lastHookAt <= clock
    BY <1>2, <1>5, <2>2 DEF DataOK
  <2>4. \A u \in Turns \ {t} : TurnKept(u)
    BY <1>2, <2>2 DEF TurnKept, DataOK, TurnRow
  <2>5. t \notin Mentioned /\ \A b \in Windows : OnTurn(b) => hooks[b].turn # t
    BY <2>1, NotBegun
  <2>6. hooks[w].step # h.step /\ h.turn = t /\ h.step = "ACTIVATE"
    BY <1>1, <1>3, <1>4, <1>6 DEF CanHook, HookAt
  <2> QED
    BY <1>1, <1>2, <1>3, <1>4, <2>2, <2>3, <2>4, <2>5, <2>6, HookMovesOn
      DEF DataOK
<1>7. CASE ~ Prompt(w, t)
  <2>1. /\ turns' \in [Turns -> TurnRow]
        /\ \A u \in Turns : /\ turns'[u].window = turns[u].window
                            /\ turns'[u].startedAt = turns[u].startedAt
                            /\ turns'[u].lastHookAt = turns[u].lastHookAt
    <3>1. CASE UseTool(w, t)
      BY <1>2, <3>1 DEF UseTool, DataOK
    <3>2. CASE Stop(w, t)
      BY <1>2, <1>5, <3>2 DEF Stop, DataOK, TurnRow
    <3> QED
      BY <1>7, <3>1, <3>2
  <2>2. \A u \in Turns : TurnKept(u)
    BY <1>2, <2>1 DEF TurnKept, DataOK, TurnRow
  <2>3. \A u \in Turns : turns'[u].startedAt <= turns'[u].lastHookAt /\ turns'[u].lastHookAt <= clock
    BY <1>2, <2>1 DEF DataOK
  <2>4. turns'[t].window = w
    BY <1>7, <2>1 DEF UseTool, Stop
  <2>5. /\ hooks[w].step # h.step /\ h.turn = t
        /\ h.step \notin {"ACTIVATE", "REWRITE"}
    BY <1>1, <1>3, <1>4, <1>7 DEF CanHook, HookAt
  <2> QED
    BY <1>1, <1>2, <1>3, <1>4, <2>1, <2>2, <2>3, <2>4, <2>5, HookMovesOn
      DEF DataOK
<1> QED
  BY <1>6, <1>7

\* A step that changes no turn and no worker, and leads to no turn.
LEMMA HookLeavesKeepsIInv ==
    ASSUME IInv, NEW w \in Windows, NEW h \in Hook, hooks[w].step # h.step,
           hooks' = [hooks EXCEPT ![w] = h],
           h.step \in {"IDLE", "LAUNCH"} \/ (h.step = "DELETE" /\ h.turn = hooks[w].turn /\ OnTurn(w)),
           UNCHANGED <<lock, workers, turns, beats, diedAt, clock>>,
           file' = file \/ file' = Null
    PROVE  IInv'
<1>1. DataOK
  BY DEF IInv
<1>2. \A t \in Turns : TurnKept(t)
  BY <1>1, TurnsStay
<1>3. OnTurn(w) => hooks[w].turn \in Turns /\ turns[hooks[w].turn].window = w
  BY DEF IInv, HookOK
<1>4. workers' \in [Workers -> Worker] /\ turns' \in [Turns -> TurnRow]
      /\ \A t \in Turns : turns'[t].startedAt <= turns'[t].lastHookAt /\ turns'[t].lastHookAt <= clock
  BY <1>1 DEF DataOK
<1>5. /\ h.step # "REWRITE" /\ h.step # "ACTIVATE"
      /\ h.step \notin {"IDLE", "LAUNCH"} => h.turn \in Turns /\ turns'[h.turn].window = w
  BY <1>3
<1> QED
  BY <1>2, <1>4, <1>5, HookMovesOn

LEMMA ActivateKeepsIInv ==
    ASSUME IInv, NEW w \in Windows, ActivateTurn(w)
    PROVE  IInv'
<1>1. DataOK /\ HookOK(w) /\ HookAt(w, "ACTIVATE")
  BY DEF IInv, ActivateTurn
<1>2. PICK t \in Turns : t = hooks[w].turn /\ t \notin Mentioned /\ turns[t].window = w
  BY <1>1 DEF HookOK, OnTurn, HookAt
<1>3. /\ file' = Activated(t, w)
      /\ turns' = [turns EXCEPT ![t].startedAt = clock, ![t].lastHookAt = clock]
      /\ HookGoes(w, "LAUNCH", Null)
      /\ UNCHANGED <<lock, workers, beats, diedAt, clock>>
  BY <1>2 DEF ActivateTurn
<1>4. PICK h \in Hook : hooks' = [hooks EXCEPT ![w] = h] /\ h.step = "LAUNCH"
  BY <1>1, <1>3, HookGoesOn DEF HookSteps
<1>5. turns[t] \in TurnRow /\ clock \in Nat
  BY <1>1 DEF DataOK
<1>6. /\ turns' \in [Turns -> TurnRow]
      /\ turns'[t].window = w /\ turns'[t].startedAt = clock /\ turns'[t].lastHookAt = clock
      /\ \A u \in Turns \ {t} : turns'[u] = turns[u]
  BY <1>1, <1>2, <1>3, <1>5 DEF DataOK, TurnRow
<1>7. \A u \in Turns : turns'[u].startedAt <= turns'[u].lastHookAt /\ turns'[u].lastHookAt <= clock
  BY <1>1, <1>5, <1>6 DEF DataOK
<1>8. \A u \in Turns \ {t} : TurnKept(u)
  BY <1>1, <1>6 DEF TurnKept, DataOK, TurnRow
<1>9. \A b \in Windows \ {w} : OnTurn(b) => hooks[b].turn # t
  BY <1>2 DEF IInv, HookOK
<1>10. \A b \in Windows \ {w} : HookAt(b, "ACTIVATE") => hooks[b].turn # t
  BY <1>9 DEF OnTurn, HookAt
<1>11. CopyOK(file)' /\ file'.turn = t
  <2>1. file' = [turn |-> t, host |-> HostOf(w), activatedAt |-> clock,
                 hookAt |-> clock, beatAt |-> clock]
    BY <1>3 DEF Activated
  <2>2. HostOf(w) \in KnownHosts \cup {Null}
    BY DEF HostOf
  <2>3. file' \in Copy
    BY <1>5, <2>1, <2>2 DEF Copy
  <2>4. clock \in clock .. clock /\ clock' = clock /\ w # Null
    BY <1>3, <1>5, TurnAssumption
  <2>5. /\ file'.turn = t /\ file'.host = HostOf(w) /\ file'.activatedAt = clock
        /\ file'.hookAt = clock /\ file'.beatAt = clock
    BY <2>1
  <2>6. /\ turns'[file'.turn].window # Null
        /\ file'.host = HostOf(turns'[file'.turn].window)
        /\ file'.activatedAt = turns'[file'.turn].startedAt
    BY <1>6, <2>4, <2>5
  <2>7. /\ file'.hookAt \in file'.activatedAt .. turns'[file'.turn].lastHookAt
        /\ file'.beatAt \in file'.activatedAt .. clock'
    BY <1>6, <2>4, <2>5
  <2> QED
    BY <2>3, <2>5, <2>6, <2>7 DEF CopyOK, HostOf
<1>12. PICK New : New = {t}
  OBVIOUS
<1>13. \A x : x \in New <=> x = t
  BY <1>12
<1>14. \A b \in Windows \ {w} : HookAt(b, "ACTIVATE") => hooks[b].turn \notin New
  BY <1>10, <1>13
<1>15. file'.turn \in Mentioned \cup New
  BY <1>11, <1>13
<1>16. \A u \in Turns : \/ TurnKept(u)
                        \/ u \notin Mentioned /\ \A b \in Windows \ {w} : OnTurn(b) => hooks[b].turn # u
  BY <1>2, <1>8, <1>9
<1>17. workers' \in [Workers -> Worker] /\ \A p \in Workers : workers'[p] = workers[p]
  BY <1>1, <1>3 DEF DataOK
<1>18. hooks[w].step # h.step
  BY <1>1, <1>4 DEF HookAt
<1>19. /\ h.step # "REWRITE" /\ h.step # "ACTIVATE"
       /\ h.step \in {"IDLE", "LAUNCH"}
  BY <1>4
<1> HIDE DEF Mentioned
<1> QED
  BY <1>3, <1>4, <1>6, <1>7, <1>11, <1>14, <1>15, <1>16, <1>17, <1>18, <1>19, HookMovesKeepsIInv

LEMMA RefreshKeepsIInv ==
    ASSUME IInv, NEW w \in Windows, RefreshTurn(w),
           UNCHANGED <<lock, workers, beats, diedAt, clock, left>>
    PROVE  IInv'
<1>1. DataOK /\ HookOK(w)
  BY DEF IInv
<1>2. HookAt(w, "REFRESH") \/ HookAt(w, "REWRITE")
  BY DEF RefreshTurn
<1>3. PICK t \in Turns : t = hooks[w].turn /\ turns[t].window = w
  BY <1>1, <1>2 DEF HookOK, OnTurn, HookAt
<1>4. turns[t] \in TurnRow /\ clock \in Nat /\ workers \in [Workers -> Worker]
  BY <1>1 DEF DataOK
<1>5. CASE HookAt(w, "REFRESH")
  <2>1. /\ IF IsCurrent(t) THEN HookGoes(w, "REWRITE", Refreshed(file, w))
                           ELSE HookGoes(w, "LAUNCH", Null)
        /\ turns' = [turns EXCEPT ![t].lastHookAt = clock]
        /\ UNCHANGED file
    BY <1>3, <1>5 DEF RefreshTurn, HookAt
  <2>2. /\ turns' \in [Turns -> TurnRow]
        /\ turns'[t].window = w /\ turns'[t].startedAt = turns[t].startedAt
        /\ turns'[t].lastHookAt = clock
        /\ \A u \in Turns \ {t} : turns'[u] = turns[u]
    BY <1>1, <1>3, <1>4, <2>1 DEF DataOK, TurnRow
  <2>3. \A u \in Turns : turns'[u].startedAt <= turns'[u].lastHookAt /\ turns'[u].lastHookAt <= clock
    <3>1. turns[t].startedAt <= clock
      BY <1>1, <1>4 DEF DataOK, TurnRow
    <3> QED
      BY <1>1, <1>4, <2>2, <3>1 DEF DataOK
  <2>4. \A u \in Turns : TurnKept(u)
    <3>1. TurnKept(t)
      BY <1>1, <1>3, <1>4, <2>2 DEF TurnKept, DataOK, TurnRow
    <3>2. \A u \in Turns \ {t} : TurnKept(u)
      BY <1>1, <2>2 DEF TurnKept, DataOK, TurnRow
    <3> QED
      BY <3>1, <3>2
  <2>5. CASE ~ IsCurrent(t)
    <3>1. PICK h \in Hook : hooks' = [hooks EXCEPT ![w] = h] /\ h.step = "LAUNCH"
      BY <1>1, <2>1, <2>5, HookGoesOn DEF HookSteps
    <3>2. hooks[w].step # h.step
      BY <1>5, <3>1 DEF HookAt
    <3> QED
      BY <1>4, <2>1, <2>2, <2>3, <2>4, <3>1, <3>2, HookMovesOn
  <2>6. CASE IsCurrent(t)
    <3>1. PICK copy : copy = Refreshed(file, w)
      OBVIOUS
    <3>2. file # Null /\ file.turn = t /\ CopyOK(file)
      BY <2>6 DEF IsCurrent, IInv
    <3>3. file.host = HostOf(w) /\ file \in Copy
      BY <1>3, <3>2 DEF CopyOK
    <3>4. copy = [file EXCEPT !.host = HostOf(w), !.hookAt = clock]
      BY <3>1, <3>3 DEF Refreshed
    <3>5. HostOf(w) \in KnownHosts \cup {Null}
      BY DEF HostOf
    <3>6. /\ copy.turn = t /\ copy.host = HostOf(w) /\ copy.activatedAt = file.activatedAt
          /\ copy.hookAt = clock /\ copy.beatAt = file.beatAt
      BY <3>2, <3>3, <3>4 DEF Copy
    <3>7. copy \in Copy
      BY <1>4, <3>3, <3>4, <3>5 DEF Copy
    <3>8. file.activatedAt = turns[t].startedAt /\ file.beatAt \in file.activatedAt .. clock
      BY <3>2 DEF CopyOK
    <3>9. copy.hookAt \in copy.activatedAt .. turns'[t].lastHookAt
      BY <1>4, <2>2, <2>3, <3>6, <3>8 DEF TurnRow
    <3>10. PICK h \in Hook : /\ hooks' = [hooks EXCEPT ![w] = h]
                             /\ h.step = "REWRITE" /\ h.turn = t /\ h.read = copy
      BY <1>1, <1>3, <2>1, <2>6, <3>1, <3>7, HookGoesOn DEF HookSteps
    <3>11. CopyOK(h.read)'
      <4>1. w # Null /\ clock' = clock
        BY TurnAssumption
      <4>2. CopyOK(copy)'
        BY <2>2, <3>6, <3>7, <3>8, <3>9, <4>1 DEF CopyOK, HostOf
      <4> QED
        BY <3>10, <4>2
    <3>12. t \in Mentioned
      BY <3>2 DEF Mentioned
    <3>13. hooks[w].step # h.step /\ h.read.turn = h.turn
      BY <1>5, <3>6, <3>10 DEF HookAt
    <3> HIDE DEF Mentioned
    <3> QED
      BY <1>4, <2>1, <2>2, <2>3, <2>4, <3>10, <3>11, <3>12, <3>13, HookMovesOn
  <2> QED
    BY <2>5, <2>6
<1>6. CASE HookAt(w, "REWRITE")
  <2>1. /\ file' = hooks[w].read
        /\ HookGoes(w, "LAUNCH", Null)
        /\ UNCHANGED turns
    BY <1>6 DEF RefreshTurn, HookAt
  <2>2. PICK h \in Hook : hooks' = [hooks EXCEPT ![w] = h] /\ h.step = "LAUNCH"
    BY <1>1, <2>1, HookGoesOn DEF HookSteps
  <2>3. PICK copy : copy = hooks[w].read
    OBVIOUS
  <2>4. CopyOK(copy) /\ copy.turn = t
    BY <1>1, <1>3, <1>6, <2>3 DEF HookOK
  <2>5. t \in Mentioned
    BY <1>3, <1>6, <2>3, <2>4 DEF Mentioned
  <2>6. CopyOK(file)'
    BY <2>1, <2>3, <2>4 DEF CopyOK
  <2>7. \A u \in Turns : TurnKept(u)
    BY <1>1, <2>1, TurnsStay
  <2>8. turns' \in [Turns -> TurnRow]
        /\ \A u \in Turns : turns'[u].startedAt <= turns'[u].lastHookAt /\ turns'[u].lastHookAt <= clock
    BY <1>1, <2>1 DEF DataOK
  <2>9. hooks[w].step # h.step /\ file'.turn \in Mentioned
    BY <1>6, <2>1, <2>2, <2>3, <2>4, <2>5 DEF HookAt
  <2> HIDE DEF Mentioned
  <2> QED
    BY <1>4, <2>2, <2>6, <2>7, <2>8, <2>9, HookMovesOn
<1> QED
  BY <1>2, <1>5, <1>6

LEMMA DeactivateKeepsIInv ==
    ASSUME IInv, NEW w \in Windows, DeactivateTurn(w),
           UNCHANGED <<lock, workers, beats, diedAt, clock, left>>
    PROVE  IInv'
<1>1. DataOK /\ UNCHANGED turns
  BY DEF IInv, DeactivateTurn
<1>2. PICK step \in {"DELETE", "LAUNCH"} :
          /\ HookGoes(w, step, Null)
          /\ hooks[w].step # step /\ OnTurn(w)
          /\ file' = file \/ file' = Null
  BY DEF DeactivateTurn, HookAt, OnTurn
<1>3. PICK h \in Hook : /\ hooks' = [hooks EXCEPT ![w] = h]
                        /\ h.step = step /\ h.turn = hooks[w].turn
  BY <1>1, <1>2, HookGoesOn DEF HookSteps
<1> QED
  BY <1>1, <1>2, <1>3, HookLeavesKeepsIInv

LEMMA LaunchKeepsIInv ==
    ASSUME IInv, NEW w \in Windows, LaunchHeartbeatWorker(w)
    PROVE  IInv'
<1>1. DataOK /\ HookAt(w, "LAUNCH") /\ UNCHANGED <<file, lock, turns, beats, diedAt, clock>>
  BY DEF IInv, LaunchHeartbeatWorker
<1>2. PICK h \in Hook : h = NoHook
  BY Records
<1>3. hooks' = [hooks EXCEPT ![w] = h] /\ h.step = "IDLE" /\ hooks[w].step # h.step
  BY <1>1, <1>2 DEF LaunchHeartbeatWorker, NoHook, HookAt
<1>4. /\ workers' \in [Workers -> Worker]
      /\ \A p \in Workers : workers'[p] = workers[p] \/ workers'[p].step = "MAKE_LOCK"
  <2> DEFINE off == {p \in Workers : workers[p].step = "OFF"}
  <2>1. CASE off = {}
    BY <1>1, <2>1 DEF LaunchHeartbeatWorker, DataOK
  <2>2. CASE off # {}
    <3>1. PICK p \in Workers : p = CHOOSE q \in off : TRUE
      BY <2>2
    <3>2. workers' = [workers EXCEPT ![p].step = "MAKE_LOCK"]
      BY <2>2, <3>1 DEF LaunchHeartbeatWorker
    <3>3. workers \in [Workers -> Worker] /\ workers[p] \in Worker
      BY <1>1 DEF DataOK
    <3>4. [workers[p] EXCEPT !.step = "MAKE_LOCK"] \in Worker
      BY <3>3 DEF Worker, WorkerSteps
    <3>5. workers' = [workers EXCEPT ![p] = [workers[p] EXCEPT !.step = "MAKE_LOCK"]]
      BY <3>2, <3>3 DEF Worker
    <3>6. [workers[p] EXCEPT !.step = "MAKE_LOCK"].step = "MAKE_LOCK"
      BY <3>3 DEF Worker
    <3> QED
      BY <3>3, <3>4, <3>5, <3>6
  <2> QED
    BY <2>1, <2>2
<1>5. \A t \in Turns : TurnKept(t)
  BY <1>1, TurnsStay
<1>6. turns' \in [Turns -> TurnRow]
      /\ \A t \in Turns : turns'[t].startedAt <= turns'[t].lastHookAt /\ turns'[t].lastHookAt <= clock
  BY <1>1 DEF DataOK
<1> QED
  BY <1>1, <1>3, <1>4, <1>5, <1>6, HookMovesOn

\* A hook that ends, whether it did its work or was killed.
LEMMA EndKeepsIInv ==
    ASSUME IInv, NEW w \in Windows, EndHookEarly(w) \/ StartSession(w)
    PROVE  IInv'
<1>1. DataOK /\ UNCHANGED <<file, lock, workers, turns, beats, diedAt, clock>>
  BY DEF IInv, EndHookEarly, StartSession
<1>2. PICK h \in Hook : /\ hooks' = [hooks EXCEPT ![w] = h]
                        /\ h.step \in {"IDLE", "LAUNCH"} /\ hooks[w].step # h.step
  <2>1. CASE EndHookEarly(w)
    BY <2>1, Records DEF EndHookEarly, NoHook, HookAt
  <2>2. CASE StartSession(w)
    <3>1. PICK h \in Hook : h = [step |-> "LAUNCH", turn |-> Null, read |-> Null]
      BY <1>1, HookRecords DEF HookSteps
    <3> QED
      BY <2>2, <3>1 DEF StartSession, StartHook, CanHook, HookAt
  <2> QED
    BY <2>1, <2>2
<1> QED
  BY <1>1, <1>2, HookLeavesKeepsIInv

LEMMA HookStepKeepsIInv ==
    ASSUME IInv, NEW w \in Windows, HookStep(w)
    PROVE  IInv'
BY ActivateKeepsIInv, RefreshKeepsIInv, DeactivateKeepsIInv, LaunchKeepsIInv DEF HookStep

-----------------------------------------------------------------------------
(* Windows close and time goes on.                                          *)

LEMMA TimeKeepsIInv ==
    ASSUME IInv, Tick \/ \E w \in Windows : CloseWindow(w)
    PROVE  IInv'
<1>1. DataOK /\ UNCHANGED <<file, lock, hooks, workers, turns, beats>>
  BY DEF IInv, Tick, CloseWindow
<1>2. clock' \in Nat /\ clock' >= clock
  BY <1>1 DEF Tick, CloseWindow, DataOK
<1>3. /\ diedAt' \in [Windows -> Nat \cup {Null}]
      /\ \A w \in Windows : diedAt'[w] = diedAt[w] \/ (w \in KnownHosts => diedAt'[w] = clock)
  BY <1>1 DEF Tick, CloseWindow, DataOK
<1>4. TimePasses
  BY <1>2, <1>3 DEF TimePasses
<1>5. DataOK'
  <2>1. \A t \in Turns : turns'[t].startedAt <= turns'[t].lastHookAt /\ turns'[t].lastHookAt <= clock'
    BY <1>1, <1>2 DEF DataOK, TurnRow
  <2> QED
    BY <1>1, <1>2, <1>3, <2>1 DEF DataOK
<1>6. \A t \in Turns : TurnKept(t)
  BY <1>1, TurnsStay
<1>7. Mentioned' = Mentioned
  BY <1>1 DEF Mentioned, HookAt, At, WorksOnTurn
<1>8. \A w \in Windows : ~ Changes(w)
  BY <1>1 DEF Changes
<1> HIDE DEF Mentioned
<1> QED
  BY <1>1, <1>4, <1>5, <1>6, <1>7, <1>8, Framed

-----------------------------------------------------------------------------

LEMMA InitIInv ==
    ASSUME Init
    PROVE  IInv
<1>1. /\ file = Null
      /\ \A w \in Windows : hooks[w].step = "IDLE"
      /\ \A p \in Workers : workers[p].step = "OFF"
      /\ \A t \in Turns : beats[t] = Null
  BY DEF Init, NoHook, NoWorker
<1>2. DataOK
  BY Records DEF Init, DataOK, NoLock, NoTurn
<1>3. \A w \in Windows : HookOK(w)
  BY <1>1 DEF HookOK, OnTurn, HookAt
<1>4. \A p \in Workers : WorkerOK(p)
  BY <1>1 DEF WorkerOK, WorksOnTurn, At
<1> QED
  BY <1>1, <1>2, <1>3, <1>4 DEF IInv

LEMMA StutterKeepsIInv ==
    ASSUME IInv, UNCHANGED vars
    PROVE  IInv'
BY DEF vars, IInv, DataOK, CopyOK, BeatOK, Mentioned, HookOK, WorkerOK, HookAt, At,
       OnTurn, WorksOnTurn

LEMMA NextKeepsIInv ==
    ASSUME IInv, [Next]_vars
    PROVE  IInv'
<1>1. ASSUME NEW w \in Windows, NEW t \in Turns, Prompt(w, t) \/ UseTool(w, t) \/ Stop(w, t)
      PROVE  IInv'
  BY <1>1, StartKeepsIInv
<1>2. ASSUME NEW w \in Windows, StartSession(w) \/ HookStep(w) \/ EndHookEarly(w) \/ CloseWindow(w)
      PROVE  IInv'
  BY <1>2, EndKeepsIInv, HookStepKeepsIInv, TimeKeepsIInv
<1>3. ASSUME NEW p \in Workers, WorkerStep(p) \/ KillWorker(p)
      PROVE  IInv'
  BY <1>3, WorkerStepKeepsIInv
<1>4. CASE Tick
  BY <1>4, TimeKeepsIInv
<1>5. CASE UNCHANGED vars
  BY <1>5, StutterKeepsIInv
<1> QED
  BY <1>1, <1>2, <1>3, <1>4, <1>5 DEF Next

\* The file, its copies in hooks and workers, and the heartbeats tell of each
\* turn what its own hooks said, in every reachable state.
LEMMA InductiveInvariant == Spec => []IInv
<1>1. Init => IInv
  BY InitIInv
<1>2. IInv /\ [Next]_vars => IInv'
  BY NextKeepsIInv
<1> QED
  BY <1>1, <1>2, PTL DEF Spec

\* Every variable keeps its type; the file is about a turn that has begun and
\* whose last hook is no older than the file says, however stale the copy is
\* that a hook or a worker wrote back last.
THEOREM TypeCorrectness == Spec => []TypeOK
<1>1. ASSUME IInv PROVE TypeOK
  <2>1. DataOK
    BY <1>1 DEF IInv
  <2>2. file # Null => CopyOK(file)
    BY <1>1 DEF IInv
  <2>3. file # Null =>
           /\ file.turn \in Turns /\ file.host \in KnownHosts \cup {Null}
           /\ turns[file.turn].window # Null
           /\ file.activatedAt = turns[file.turn].startedAt
           /\ file.hookAt \in file.activatedAt .. turns[file.turn].lastHookAt
           /\ file.beatAt \in file.activatedAt .. clock
    BY <2>2 DEF CopyOK, Copy
  <2>4. /\ lock.made \in BOOLEAN /\ lock.owner \in Workers \cup {Null, Dead}
        /\ \A w \in Windows : hooks[w].turn \in Turns \cup {Null}
        /\ \A p \in Workers : workers[p].step \in WorkerSteps
    BY <2>1 DEF DataOK, Hook, Worker
  <2> QED
    BY <2>1, <2>3, <2>4 DEF DataOK, TypeOK
<1> QED
  BY <1>1, InductiveInvariant, PTL

\* No heartbeat is dated after the Codex process of its turn ended, later than
\* the lease after the last real hook where that process is unknown, or 12
\* hours after the turn began, whatever hooks and workers interleave and
\* wherever they are killed.
THEOREM BeatsAreBounded == Spec => []BeatsBounded
<1>1. ASSUME IInv PROVE BeatsBounded
  BY <1>1 DEF IInv, BeatOK, BeatsBounded
<1> QED
  BY <1>1, InductiveInvariant, PTL
=============================================================================
