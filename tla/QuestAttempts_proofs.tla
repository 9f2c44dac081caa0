------------------------ MODULE QuestAttempts_proofs ------------------------
(***************************************************************************)
(* Proofs about the attempts at a quest: for any number of sessions,       *)
(* attempts and calls, one attempt is in progress, one is rewarded, and    *)
(* what is graded was submitted in time.                                   *)
(***************************************************************************)
EXTENDS QuestAttemptsProps, FiniteSetTheorems, TLAPS

\* The columns of a session fit its status.
SessionsOK ==
    \A s \in Sessions : sessions[s].status = "ENDED" <=> sessions[s].endedAt # Null

\* An attempt belongs to a session that was opened, and nothing is dated later
\* than the clock.
AttemptsOK ==
    \A a \in Attempts : attempts[a].status # "NONE" =>
        /\ sessions[attempts[a].session].status # "NONE"
        /\ attempts[a].startedAt <= clock
        /\ attempts[a].submittedAt # Null => attempts[a].submittedAt <= clock

\* A call reads the clock once, submits an attempt that has started, and opens
\* a row of the ledger of attempts in a session that it holds.
CallFits(call) ==
    /\ call.at <= clock
    /\ call.step = "SUBMITTED" =>
           /\ call.attempt \in Attempts
           /\ attempts[call.attempt].status # "NONE"
           /\ attempts[call.attempt].startedAt <= call.at
    /\ call.step \in {"LOCKED", "EXPIRED", "CHECKED"} => call.session \in call.locked
    /\ call.step = "IDLE" => call = NoCall

\* What a start expires when it commits: an attempt whose session is over and
\* whose deadline is not before its start.
Expirable(a) ==
    /\ InProgress(a)
    /\ ~IsOpen(attempts[a].session)
    /\ ~Unexpirable(a)

\* What a start has locked stays as the start has read it.
Held(call) ==
    /\ \A s \in call.locked : IsOpen(s)
    /\ \A a \in call.expired : Expirable(a)

\* The advisory lock of the quest admits one start.
OneStart ==
    \A j, k \in StartKeys : calls[j].step # "IDLE" /\ calls[k].step # "IDLE" => j = k

CallsOK ==
    /\ \A k \in Keys : CallFits(calls[k])
    /\ \A k \in StartKeys : Held(calls[k])
    /\ OneStart

OneReward ==
    /\ ledger = Passed
    /\ \A a, b \in ledger : a = b

IInv == TypeOK /\ SessionsOK /\ AttemptsOK /\ CallsOK /\ OneReward /\ OneAttemptInProgress
-----------------------------------------------------------------------------
(* Lemmas about calls and rows                                             *)

LEMMA NoCallFits ==
    ASSUME IInv
    PROVE  NoCall \in Call /\ CallFits(NoCall) /\ Held(NoCall)
BY DEF IInv, TypeOK, NoCall, Call, CallFits, Held

\* A step of a transaction that writes no row yet, or is rolled back.
LEMMA ProceedKeepsIInv ==
    ASSUME IInv, NEW k \in Keys, NEW call \in Call, Proceed(k, call), CallFits(call),
           k \in StartKeys => Held(call),
           k \in StartKeys /\ call.step # "IDLE" => \A j \in StartKeys \ {k} : calls[j].step = "IDLE"
    PROVE  IInv'
<1>1. /\ UNCHANGED <<sessions, attempts, answers, ledger, replies, clock>>
      /\ calls' = [calls EXCEPT ![k] = call]
  BY DEF Proceed
<1>2. calls \in [Keys -> Call]
  BY DEF IInv, TypeOK
<1>3. TypeOK'
  BY <1>1, <1>2 DEF IInv, TypeOK, RowOK
<1>4. SessionsOK' /\ AttemptsOK' /\ OneReward' /\ OneAttemptInProgress'
  BY <1>1 DEF IInv, SessionsOK, AttemptsOK, OneReward, Passed, OneAttemptInProgress, InProgress
<1>5. \A j \in Keys : calls'[j] = IF j = k THEN call ELSE calls[j]
  BY <1>1, <1>2
<1>6. \A j \in Keys : CallFits(calls[j])'
  BY <1>1, <1>5 DEF IInv, CallsOK, CallFits
<1>7. \A j \in StartKeys : Held(calls[j])'
  <2>1. \A a : Expirable(a)' <=> Expirable(a)
    BY <1>1 DEF Expirable, InProgress, IsOpen, Unexpirable, Deadline
  <2>2. \A s : IsOpen(s)' <=> IsOpen(s)
    BY <1>1 DEF IsOpen
  <2> QED BY <1>5, <2>1, <2>2 DEF IInv, CallsOK, Held, Keys
<1>8. OneStart'
  BY <1>5 DEF IInv, CallsOK, OneStart, Keys
<1> QED BY <1>3, <1>4, <1>6, <1>7, <1>8 DEF IInv, CallsOK

LEMMA FailKeepsIInv ==
    ASSUME IInv, NEW k \in Keys, Fail(k)
    PROVE  IInv'
<1>1. Proceed(k, NoCall)
  BY DEF Fail, Proceed
<1>2. NoCall.step = "IDLE"
  BY DEF NoCall
<1> QED BY <1>1, <1>2, NoCallFits, ProceedKeepsIInv

\* The steps of a start up to its commit, and the beginning of a submission.
LEMMA StartStepKeepsIInv ==
    ASSUME IInv, NEW k \in StartKeys,
           BeginStart(k) \/ LockSessions(k) \/ ExpireAttempts(k) \/ CheckPassed(k)
    PROVE  IInv'
<1>1. k \in Keys /\ calls[k] \in Call /\ CallFits(calls[k]) /\ Held(calls[k]) /\ clock \in Nat
  BY DEF Keys, IInv, TypeOK, CallsOK
<1>2. calls[k].step # "IDLE" => \A j \in StartKeys \ {k} : calls[j].step = "IDLE"
  BY DEF IInv, CallsOK, OneStart
<1>3. ASSUME Fail(k) PROVE IInv'
  BY <1>1, <1>3, FailKeepsIInv
<1>4. CASE BeginStart(k)
  <2> DEFINE call == [NoCall EXCEPT !.step = "STARTED", !.at = clock]
  <2>1. call \in Call /\ CallFits(call) /\ Held(call)
    <3>1. call \in Call
      BY <1>1, NoCallFits DEF Call
    <3>2. call.step = "STARTED" /\ call.at = clock /\ call.locked = {} /\ call.expired = {}
      BY DEF NoCall
    <3> HIDE DEF call
    <3> QED BY <1>1, <3>1, <3>2 DEF CallFits, Held
  <2>2. Proceed(k, call) /\ \A j \in StartKeys : calls[j].step = "IDLE"
    BY <1>4 DEF BeginStart
  <2> QED BY <1>1, <2>1, <2>2, ProceedKeepsIInv
<1>5. CASE LockSessions(k)
  <2>1. ASSUME NEW s \in OpenSessions,
               Proceed(k, [calls[k] EXCEPT !.step = "LOCKED", !.session = s, !.locked = OpenSessions])
        PROVE  IInv'
    <3> DEFINE call == [calls[k] EXCEPT !.step = "LOCKED", !.session = s, !.locked = OpenSessions]
    <3>1. call \in Call /\ CallFits(call) /\ Held(call)
      BY <1>1 DEF Call, CallFits, Held, OpenSessions
    <3> QED BY <1>1, <1>2, <1>5, <2>1, <3>1, ProceedKeepsIInv DEF LockSessions
  <2> QED BY <1>3, <1>5, <2>1 DEF LockSessions
<1>6. CASE ExpireAttempts(k)
  <2> DEFINE overdue == {a \in Attempts : Overdue(a, calls[k].at)}
             call == [calls[k] EXCEPT !.step = "EXPIRED", !.expired = overdue]
  <2>1. CASE \E a \in overdue : Unexpirable(a)
    BY <1>3, <1>6, <2>1 DEF ExpireAttempts
  <2>2. CASE \A a \in overdue : ~Unexpirable(a)
    <3>1. Proceed(k, call)
      BY <1>6, <2>2 DEF ExpireAttempts
    <3>2. call \in Call /\ CallFits(call)
      BY <1>1, <1>6 DEF Call, CallFits, ExpireAttempts
    <3>3. Held(call)
      BY <1>1, <2>2 DEF Held, Expirable, Overdue, Call
    <3> QED BY <1>1, <1>2, <1>6, <3>1, <3>2, <3>3, ProceedKeepsIInv DEF ExpireAttempts
  <2> QED BY <2>1, <2>2
<1>7. CASE CheckPassed(k)
  <2> DEFINE call == [calls[k] EXCEPT !.step = "CHECKED"]
  <2>1. call \in Call /\ CallFits(call) /\ Held(call)
    BY <1>1, <1>7 DEF Call, CallFits, Held, CheckPassed
  <2> QED BY <1>1, <1>2, <1>3, <1>7, <2>1, ProceedKeepsIInv DEF CheckPassed
<1> QED BY <1>4, <1>5, <1>6, <1>7

LEMMA BeginSubmitKeepsIInv ==
    ASSUME IInv, NEW k \in SubmitKeys, NEW a \in Attempts, BeginSubmit(k, a)
    PROVE  IInv'
<1> DEFINE call == [NoCall EXCEPT !.step = "SUBMITTED", !.at = clock, !.attempt = a]
<1>1. k \in Keys /\ k \notin StartKeys
  BY KeysAssumption DEF Keys
<1>2. attempts[a].startedAt <= clock /\ clock \in Nat
  BY DEF IInv, TypeOK, AttemptsOK, BeginSubmit
<1>3. call \in Call /\ CallFits(call)
  <2>1. call \in Call
    BY <1>2, NoCallFits DEF Call
  <2>2. call.step = "SUBMITTED" /\ call.at = clock /\ call.attempt = a
    BY DEF NoCall
  <2> HIDE DEF call
  <2> QED BY <1>2, <2>1, <2>2 DEF CallFits, BeginSubmit
<1> QED BY <1>1, <1>3, ProceedKeepsIInv DEF BeginSubmit
-----------------------------------------------------------------------------
(* Rows that expire                                                        *)

\* What is overdue can expire, unless its constraint forbids it.
LEMMA ExpiredRow ==
    ASSUME IInv, NEW a \in Attempts, Expirable(a)
    PROVE  LET row == Expired(attempts[a], Deadline(a)) IN
           /\ row \in Attempt /\ RowOK(row)
           /\ row.status = "EXPIRED" /\ row.submittedAt = Null
           /\ row.session = attempts[a].session /\ row.startedAt = attempts[a].startedAt
<1>1. attempts[a] \in Attempt /\ RowOK(attempts[a]) /\ attempts[a].status = "IN_PROGRESS"
  BY DEF IInv, TypeOK, Expirable, InProgress
<1>2. attempts[a].session \in Sessions
  BY <1>1 DEF RowOK, Attempt
<1>3. sessions[attempts[a].session].status = "ENDED"
  BY <1>1, <1>2 DEF IInv, TypeOK, AttemptsOK, SessionRow, Expirable, IsOpen
<1>4. sessions[attempts[a].session].endedAt \in Nat
  BY <1>2, <1>3 DEF IInv, TypeOK, SessionsOK, SessionRow
<1>5. Deadline(a) \in Nat
  BY <1>4, TimeAssumption DEF Deadline
<1>6. Deadline(a) >= attempts[a].startedAt /\ Deadline(a) # Null
  BY <1>1, <1>5, KeysAssumption DEF Expirable, Unexpirable, Attempt
<1> HIDE DEF Deadline
<1> QED BY <1>1, <1>5, <1>6 DEF Expired, Attempt, RowOK

LEMMA ExpiredTable ==
    ASSUME IInv, NEW D \in SUBSET Attempts, \A a \in D : Expirable(a), NEW a \in Attempts
    PROVE  LET row == ExpireAll(D)[a] IN
           /\ row \in Attempt /\ RowOK(row)
           /\ a \notin D => row = attempts[a]
           /\ a \in D => row.status = "EXPIRED" /\ attempts[a].status = "IN_PROGRESS"
           /\ row.submittedAt = attempts[a].submittedAt
           /\ row.session = attempts[a].session /\ row.startedAt = attempts[a].startedAt
<1>1. CASE a \in D
  <2>1. attempts[a].status = "IN_PROGRESS" /\ attempts[a].submittedAt = Null
    BY <1>1 DEF Expirable, InProgress, IInv, TypeOK, RowOK
  <2> QED BY <1>1, <2>1, ExpiredRow DEF ExpireAll
<1>2. CASE a \notin D
  BY <1>2 DEF ExpireAll, IInv, TypeOK
<1> QED BY <1>1, <1>2

\* The rows, apart from the calls that read them.
RowsOK ==
    /\ attempts \in [Attempts -> Attempt]
    /\ \A a \in Attempts : RowOK(attempts[a])
    /\ AttemptsOK
    /\ OneReward

LEMMA ExpiryKeepsRows ==
    ASSUME IInv, NEW D \in SUBSET Attempts, \A a \in D : Expirable(a),
           attempts' = ExpireAll(D), UNCHANGED <<sessions, ledger, clock>>
    PROVE  RowsOK' /\ OneAttemptInProgress'
<1>1. \A a \in Attempts :
          /\ attempts'[a] \in Attempt /\ RowOK(attempts'[a])
          /\ a \notin D => attempts'[a] = attempts[a]
          /\ a \in D => attempts'[a].status = "EXPIRED" /\ attempts[a].status = "IN_PROGRESS"
          /\ attempts'[a].submittedAt = attempts[a].submittedAt
          /\ attempts'[a].session = attempts[a].session
          /\ attempts'[a].startedAt = attempts[a].startedAt
  BY ExpiredTable
<1>2. attempts' \in [Attempts -> Attempt]
  BY <1>1 DEF ExpireAll
<1>3. \A a \in Attempts : RowOK(attempts[a])'
  BY <1>1 DEF RowOK
<1>4. AttemptsOK'
  BY <1>1 DEF IInv, AttemptsOK
<1>5. Passed' = Passed
  BY <1>1 DEF Passed
<1>6. OneReward'
  BY <1>5 DEF IInv, OneReward
<1>7. OneAttemptInProgress'
  BY <1>1 DEF IInv, OneAttemptInProgress, InProgress
<1> QED BY <1>2, <1>3, <1>4, <1>6, <1>7 DEF RowsOK

\* A transaction ends, and so do its locks.
LEMMA CommitKeepsCalls ==
    ASSUME IInv, NEW k \in Keys, calls' = [calls EXCEPT ![k] = NoCall],
           UNCHANGED <<sessions, clock>>,
           \A a \in Attempts : attempts[a].status # "NONE" =>
               attempts'[a].status # "NONE" /\ attempts'[a].startedAt = attempts[a].startedAt,
           \A j \in StartKeys \ {k} : \A a \in calls[j].expired : attempts'[a] = attempts[a]
    PROVE  calls' \in [Keys -> Call] /\ CallsOK'
<1>1. calls \in [Keys -> Call]
  BY DEF IInv, TypeOK
<1>2. \A j \in Keys : calls'[j] = IF j = k THEN NoCall ELSE calls[j]
  BY <1>1
<1>3. calls' \in [Keys -> Call]
  BY <1>1, NoCallFits
<1>4. ASSUME NEW j \in Keys PROVE CallFits(calls[j])'
  <2>1. CASE j = k
    BY <1>2, <2>1, NoCallFits DEF CallFits, NoCall
  <2>2. CASE j # k
    BY <1>2, <2>2 DEF IInv, CallsOK, CallFits
  <2> QED BY <2>1, <2>2
<1>5. ASSUME NEW j \in StartKeys PROVE Held(calls[j])'
  <2>1. CASE j = k
    BY <1>2, <2>1 DEF Held, NoCall, Keys
  <2>2. CASE j # k
    <3>1. calls'[j] = calls[j] /\ Held(calls[j]) /\ j \in StartKeys \ {k}
      BY <1>2, <2>2 DEF Keys, IInv, CallsOK
    <3>2. \A a \in calls[j].expired : Expirable(a)'
      BY <3>1 DEF Held, Expirable, InProgress, IsOpen, Unexpirable, Deadline
    <3> QED BY <3>1, <3>2 DEF Held, IsOpen
  <2> QED BY <2>1, <2>2
<1>6. OneStart'
  BY <1>2 DEF IInv, CallsOK, OneStart, Keys, NoCall
<1> QED BY <1>3, <1>4, <1>5, <1>6 DEF CallsOK

\* What the two commits of startAttempt have in common.
LEMMA StartCommit ==
    ASSUME IInv, NEW k \in StartKeys, calls[k].step = "CHECKED"
    PROVE  /\ k \in Keys /\ calls[k] \in Call /\ calls[k].at <= clock
           /\ calls[k].expired \in SUBSET Attempts
           /\ \A a \in calls[k].expired : Expirable(a)
           /\ calls[k].session \in Sessions /\ IsOpen(calls[k].session)
           /\ \A j \in StartKeys \ {k} : calls[j].expired = {}
<1>1. k \in Keys /\ calls[k] \in Call /\ CallFits(calls[k]) /\ Held(calls[k])
  BY DEF Keys, IInv, TypeOK, CallsOK
<1>2. \A j \in StartKeys \ {k} : calls[j] = NoCall
  BY DEF IInv, CallsOK, OneStart, CallFits, Keys
<1> QED BY <1>1, <1>2 DEF Call, CallFits, Held, NoCall

LEMMA RepliesTyped ==
    ASSUME IInv, NEW k \in Keys, NEW a \in Attempts
    PROVE  [replies EXCEPT ![k] = a] \in [Keys -> Attempts \cup {Null}]
BY DEF IInv, TypeOK

LEMMA ReturnActiveKeepsIInv ==
    ASSUME IInv, NEW k \in StartKeys, ReturnActive(k)
    PROVE  IInv'
<1> PICK a \in ActiveAttempts(k) : StartReply(k, a, ExpireAll(calls[k].expired))
  BY DEF ReturnActive
<1> DEFINE D == calls[k].expired
<1>1. /\ attempts' = ExpireAll(D) /\ calls' = [calls EXCEPT ![k] = NoCall]
      /\ replies' = [replies EXCEPT ![k] = a] /\ a \in Attempts
      /\ UNCHANGED <<sessions, answers, ledger, clock>>
  BY DEF StartReply, ActiveAttempts
<1>2. /\ k \in Keys /\ D \in SUBSET Attempts /\ \A b \in D : Expirable(b)
      /\ \A j \in StartKeys \ {k} : calls[j].expired = {}
  BY StartCommit DEF ReturnActive
<1> HIDE DEF D
<1>3. RowsOK' /\ OneAttemptInProgress'
  BY <1>1, <1>2, ExpiryKeepsRows
<1>4. calls' \in [Keys -> Call] /\ CallsOK'
  <2>1. \A b \in Attempts : attempts[b].status # "NONE" =>
            attempts'[b].status # "NONE" /\ attempts'[b].startedAt = attempts[b].startedAt
    BY <1>1, <1>2, ExpiredTable
  <2> QED BY <1>1, <1>2, <2>1, CommitKeepsCalls
<1>5. replies' \in [Keys -> Attempts \cup {Null}]
  BY <1>1, <1>2, RepliesTyped
<1> QED BY <1>1, <1>3, <1>4, <1>5 DEF IInv, TypeOK, RowsOK, SessionsOK

\* One row is opened, when no other is in progress but those that expire with it.
LEMMA InsertAttemptKeepsIInv ==
    ASSUME IInv, NEW k \in StartKeys, InsertAttempt(k)
    PROVE  IInv'
<1>1. k \in Keys
  BY DEF Keys
<1>2. CASE Fail(k)
  BY <1>1, <1>2, FailKeepsIInv
<1>3. CASE ~Fail(k)
  <2> DEFINE D == calls[k].expired
             Opened(a) == [ExpireAll(D)[a] EXCEPT !.status = "IN_PROGRESS", !.session = calls[k].session,
                                                  !.startedAt = calls[k].at]
  <2>1. PICK a \in Attempts :
            /\ attempts[a].status = "NONE"
            /\ StartReply(k, a, [ExpireAll(calls[k].expired) EXCEPT ![a] =
                        [@ EXCEPT !.status = "IN_PROGRESS", !.session = calls[k].session,
                                  !.startedAt = calls[k].at]])
    BY <1>3 DEF InsertAttempt
  <2>2. /\ attempts' = [ExpireAll(D) EXCEPT ![a] = Opened(a)]
        /\ calls' = [calls EXCEPT ![k] = NoCall] /\ replies' = [replies EXCEPT ![k] = a]
        /\ UNCHANGED <<sessions, answers, ledger, clock>>
    BY <2>1 DEF StartReply
  <2>3. /\ calls[k] \in Call /\ calls[k].at <= clock /\ D \in SUBSET Attempts /\ \A b \in D : Expirable(b)
        /\ calls[k].session \in Sessions /\ IsOpen(calls[k].session)
        /\ \A j \in StartKeys \ {k} : calls[j].expired = {}
    BY StartCommit DEF InsertAttempt
  <2>4. a \notin D /\ ExpireAll(D)[a] = attempts[a]
    BY <2>1, <2>3, ExpiredTable DEF Expirable, InProgress
  <2>5. attempts[a] \in Attempt /\ attempts[a].completedAt = Null /\ attempts[a].submittedAt = Null
    BY <2>1 DEF IInv, TypeOK, RowOK
  <2>6. /\ Opened(a) \in Attempt /\ RowOK(Opened(a))
        /\ Opened(a).status = "IN_PROGRESS" /\ Opened(a).submittedAt = Null
        /\ Opened(a).session = calls[k].session /\ Opened(a).startedAt = calls[k].at
    <3>1. Opened(a) \in Attempt
      BY <2>3, <2>4, <2>5 DEF Attempt, Call
    <3>2. /\ Opened(a).status = "IN_PROGRESS" /\ Opened(a).submittedAt = Null
          /\ Opened(a).session = calls[k].session /\ Opened(a).startedAt = calls[k].at
          /\ Opened(a).completedAt = Null
      BY <2>4, <2>5 DEF Attempt
    <3>3. calls[k].session # Null
      BY <2>3, KeysAssumption
    <3> HIDE DEF Opened
    <3> QED BY <3>1, <3>2, <3>3 DEF RowOK
  <2> HIDE DEF Opened
  <2>7. \A b \in Attempts : attempts'[b] = IF b = a THEN Opened(a) ELSE ExpireAll(D)[b]
    BY <2>2 DEF ExpireAll
  <2>8. \A b \in Attempts :
            /\ ExpireAll(D)[b] \in Attempt /\ RowOK(ExpireAll(D)[b])
            /\ b \notin D => ExpireAll(D)[b] = attempts[b]
            /\ b \in D => ExpireAll(D)[b].status = "EXPIRED" /\ attempts[b].status = "IN_PROGRESS"
            /\ ExpireAll(D)[b].submittedAt = attempts[b].submittedAt
            /\ ExpireAll(D)[b].session = attempts[b].session
            /\ ExpireAll(D)[b].startedAt = attempts[b].startedAt
    BY <2>3, ExpiredTable
  <2>9. attempts' \in [Attempts -> Attempt] /\ \A b \in Attempts : RowOK(attempts[b])'
    <3>1. attempts' \in [Attempts -> Attempt]
      BY <2>2, <2>6, <2>8 DEF ExpireAll
    <3>2. \A b \in Attempts : RowOK(attempts'[b])
      BY <2>6, <2>7, <2>8
    <3> QED BY <3>1, <3>2 DEF RowOK
  <2>10. AttemptsOK'
    <3>1. sessions[calls[k].session].status # "NONE"
      BY <2>3 DEF IsOpen
    <3> QED BY <2>2, <2>3, <2>6, <2>7, <2>8, <3>1 DEF IInv, AttemptsOK
  <2>11. OneReward'
    <3>1. Passed' = Passed
      BY <2>1, <2>6, <2>7, <2>8 DEF Passed
    <3> QED BY <2>2, <3>1 DEF IInv, OneReward
  <2>12. OneAttemptInProgress'
    <3>1. \A b \in Attempts : InProgress(b) => b \in D
      BY <1>3 DEF InsertAttempt, ActiveAttempts
    <3>2. \A b \in Attempts \ {a} : attempts'[b].status # "IN_PROGRESS"
      BY <2>7, <2>8, <3>1 DEF InProgress
    <3> QED BY <3>2 DEF OneAttemptInProgress, InProgress
  <2>13. calls' \in [Keys -> Call] /\ CallsOK'
    <3>1. \A b \in Attempts : attempts[b].status # "NONE" =>
              attempts'[b].status # "NONE" /\ attempts'[b].startedAt = attempts[b].startedAt
      BY <2>1, <2>7, <2>8
    <3> QED BY <1>1, <2>2, <2>3, <3>1, CommitKeepsCalls
  <2>14. replies' \in [Keys -> Attempts \cup {Null}]
    BY <1>1, <2>2, RepliesTyped
  <2> QED BY <2>2, <2>9, <2>10, <2>11, <2>12, <2>13, <2>14 DEF IInv, TypeOK, SessionsOK
<1> QED BY <1>2, <1>3
-----------------------------------------------------------------------------
(* Submissions                                                             *)

LEMMA SubmissionStarted ==
    ASSUME IInv, NEW k \in SubmitKeys, HoldsLocks(k)
    PROVE  /\ k \in Keys /\ k \notin StartKeys /\ calls[k].at \in Nat /\ calls[k].at <= clock
           /\ calls[k].attempt \in Attempts
           /\ attempts[calls[k].attempt].status # "NONE"
           /\ attempts[calls[k].attempt].startedAt <= calls[k].at
           /\ calls[k].attempt \notin LockedAttempts
BY KeysAssumption DEF HoldsLocks, CanLock, Keys, IInv, TypeOK, CallsOK, CallFits, Call

LEMMA ReturnGradedKeepsIInv ==
    ASSUME IInv, NEW k \in SubmitKeys, ReturnGraded(k)
    PROVE  IInv'
<1> DEFINE a == calls[k].attempt
<1>1. /\ UNCHANGED <<sessions, attempts, answers, ledger, clock>>
      /\ calls' = [calls EXCEPT ![k] = NoCall] /\ replies' = [replies EXCEPT ![k] = a]
  BY DEF ReturnGraded, SubmitReply
<1>2. k \in Keys /\ a \in Attempts
  BY SubmissionStarted DEF ReturnGraded
<1> HIDE DEF a
<1>3. calls' \in [Keys -> Call] /\ CallsOK'
  BY <1>1, <1>2, CommitKeepsCalls
<1>4. replies' \in [Keys -> Attempts \cup {Null}]
  BY <1>1, <1>2, RepliesTyped
<1> QED BY <1>1, <1>3, <1>4
        DEF IInv, TypeOK, RowOK, SessionsOK, AttemptsOK, OneReward, Passed, OneAttemptInProgress, InProgress

\* The graded row, which no start is about to expire.
LEMMA GradeKeepsIInv ==
    ASSUME IInv, NEW k \in SubmitKeys, Grade(k)
    PROVE  IInv'
<1> DEFINE a == calls[k].attempt
           passed == answers[a] = "RIGHT"
           row == [attempts[a] EXCEPT !.status = IF passed THEN "COMPLETED" ELSE "FAILED",
                                      !.submittedAt = calls[k].at, !.completedAt = calls[k].at]
<1>1. /\ UNCHANGED <<sessions, answers, clock>>
      /\ calls' = [calls EXCEPT ![k] = NoCall] /\ replies' = [replies EXCEPT ![k] = a]
      /\ attempts' = [attempts EXCEPT ![a] = row]
      /\ ledger' = IF passed THEN ledger \cup {a} ELSE ledger
      /\ InProgress(a)
      /\ passed => ledger = {}
  BY DEF Grade, SubmitReply
<1>2. /\ k \in Keys /\ k \notin StartKeys /\ a \in Attempts /\ calls[k].at \in Nat /\ calls[k].at <= clock
      /\ attempts[a].startedAt <= calls[k].at /\ a \notin LockedAttempts
  BY SubmissionStarted DEF Grade
<1>3. attempts[a] \in Attempt /\ RowOK(attempts[a]) /\ attempts[a].status = "IN_PROGRESS"
  BY <1>1, <1>2 DEF Grade, IInv, TypeOK, InProgress
<1>4. /\ row \in Attempt /\ row.status = (IF passed THEN "COMPLETED" ELSE "FAILED")
      /\ row.submittedAt = calls[k].at /\ row.completedAt = calls[k].at
      /\ row.session = attempts[a].session /\ row.startedAt = attempts[a].startedAt
  BY <1>2, <1>3 DEF Attempt
<1> HIDE DEF a, row, passed
<1>5. RowOK(row)
  BY <1>2, <1>3, <1>4, KeysAssumption DEF RowOK
<1>6. \A b \in Attempts : attempts'[b] = IF b = a THEN row ELSE attempts[b]
  BY <1>1 DEF IInv, TypeOK
<1>7. attempts' \in [Attempts -> Attempt] /\ \A b \in Attempts : RowOK(attempts[b])'
  <2>1. attempts' \in [Attempts -> Attempt]
    BY <1>1, <1>4 DEF IInv, TypeOK
  <2>2. \A b \in Attempts : RowOK(attempts'[b])
    BY <1>5, <1>6 DEF IInv, TypeOK
  <2> QED BY <2>1, <2>2 DEF RowOK
<1>8. AttemptsOK'
  BY <1>1, <1>2, <1>3, <1>4, <1>6 DEF IInv, AttemptsOK
<1>9. OneReward'
  <2>1. Passed' = IF passed THEN Passed \cup {a} ELSE Passed
    BY <1>2, <1>3, <1>4, <1>6 DEF Passed
  <2>2. CASE passed
    <3>1. ledger = {} /\ Passed = {}
      BY <1>1, <2>2 DEF IInv, OneReward
    <3>2. ledger' = {a} /\ Passed' = {a}
      BY <1>1, <2>1, <2>2, <3>1
    <3> QED BY <3>2 DEF OneReward
  <2>3. CASE ~passed
    BY <1>1, <2>1, <2>3 DEF IInv, OneReward
  <2> QED BY <2>2, <2>3
<1>10. OneAttemptInProgress'
  BY <1>4, <1>6 DEF IInv, OneAttemptInProgress, InProgress
<1>11. calls' \in [Keys -> Call] /\ CallsOK'
  <2>1. \A b \in Attempts : attempts[b].status # "NONE" =>
            attempts'[b].status # "NONE" /\ attempts'[b].startedAt = attempts[b].startedAt
    BY <1>4, <1>6
  <2>2. \A j \in StartKeys \ {k} : \A b \in calls[j].expired : attempts'[b] = attempts[b]
    <3>1. ASSUME NEW j \in StartKeys, NEW b \in calls[j].expired
          PROVE  b \in Attempts /\ b # a
      BY <1>2 DEF LockedAttempts, IInv, TypeOK, Call, Keys
    <3> QED BY <1>6, <3>1
  <2> QED BY <1>1, <1>2, <2>1, <2>2, CommitKeepsCalls
<1>12. replies' \in [Keys -> Attempts \cup {Null}]
  BY <1>1, <1>2, RepliesTyped
<1>13. ledger' \subseteq Attempts
  BY <1>1, <1>2 DEF IInv, TypeOK
<1> QED BY <1>1, <1>7, <1>8, <1>9, <1>10, <1>11, <1>12, <1>13 DEF IInv, TypeOK, SessionsOK
-----------------------------------------------------------------------------
(* The other handlers, the job and the sessions                            *)

\* The job and getAttempt, which no start is in the way of.
LEMMA CleanUpKeepsIInv ==
    ASSUME IInv, NEW D \in SUBSET Attempts, \A a \in D : Expirable(a), D \cap LockedAttempts = {},
           attempts' = ExpireAll(D), UNCHANGED <<sessions, answers, ledger, replies, calls, clock>>
    PROVE  IInv'
<1>1. RowsOK' /\ OneAttemptInProgress'
  BY ExpiryKeepsRows
<1>2. \A a \in Attempts :
          /\ attempts[a].status # "NONE" => attempts'[a].status # "NONE"
          /\ attempts'[a].startedAt = attempts[a].startedAt
          /\ a \notin D => attempts'[a] = attempts[a]
  BY ExpiredTable
<1>3. \A k \in Keys : CallFits(calls[k])'
  BY <1>2 DEF IInv, CallsOK, CallFits
<1>4. ASSUME NEW k \in StartKeys PROVE Held(calls[k])'
  <2>1. Held(calls[k]) /\ \A s : IsOpen(s)' <=> IsOpen(s)
    BY DEF IInv, CallsOK, IsOpen
  <2>2. ASSUME NEW a \in calls[k].expired PROVE Expirable(a)'
    <3>1. a \in Attempts /\ a \notin D
      BY DEF LockedAttempts, IInv, TypeOK, Call, Keys
    <3> QED BY <1>2, <2>1, <3>1 DEF Held, Expirable, InProgress, IsOpen, Unexpirable, Deadline
  <2> QED BY <2>1, <2>2 DEF Held
<1> QED BY <1>1, <1>3, <1>4 DEF IInv, TypeOK, RowsOK, SessionsOK, CallsOK, OneStart

LEMMA ReplaceAnswersKeepsIInv ==
    ASSUME IInv, NEW a \in Attempts, NEW worth \in {"INCOMPLETE", "WRONG", "RIGHT"},
           ReplaceAnswers(a, worth)
    PROVE  IInv'
<1>1. /\ answers' = [answers EXCEPT ![a] = worth]
      /\ UNCHANGED <<sessions, attempts, ledger, replies, calls, clock>>
  BY DEF ReplaceAnswers
<1>2. TypeOK'
  BY <1>1 DEF IInv, TypeOK, RowOK
<1>3. CallsOK'
  BY <1>1 DEF IInv, CallsOK, CallFits, Held, Expirable, InProgress, IsOpen, Unexpirable, Deadline, OneStart
<1> QED BY <1>1, <1>2, <1>3
        DEF IInv, SessionsOK, AttemptsOK, OneReward, Passed, OneAttemptInProgress, InProgress

\* A session begins or ends that no start has locked: an attempt keeps its
\* session, and a start still holds what it has read.
LEMMA SessionStepKeepsIInv ==
    ASSUME IInv, NEW s \in Sessions, OpenSession(s) \/ CloseSession(s)
    PROVE  IInv'
<1>1. UNCHANGED <<attempts, answers, ledger, replies, calls, clock>>
  BY DEF OpenSession, CloseSession
<1>2. /\ sessions' \in [Sessions -> SessionRow]
      /\ \A r \in Sessions \ {s} : sessions'[r] = sessions[r]
      /\ \/ /\ sessions[s].status = "NONE" /\ sessions'[s].status = "ACTIVE"
            /\ sessions'[s].endedAt = sessions[s].endedAt
         \/ /\ sessions[s].status = "ACTIVE" /\ sessions'[s].status = "ENDED"
            /\ sessions'[s].endedAt \in Nat /\ s \notin LockedSessions
  <2>1. CASE OpenSession(s)
    BY <2>1 DEF OpenSession, IInv, TypeOK, SessionRow
  <2>2. CASE CloseSession(s)
    <3>1. sessions[s] \in SessionRow /\ clock \in Nat
      BY DEF IInv, TypeOK
    <3>2. PICK at \in sessions[s].startedAt .. clock :
              sessions' = [sessions EXCEPT ![s] = [@ EXCEPT !.status = "ENDED", !.endedAt = at]]
      BY <2>2 DEF CloseSession
    <3>3. at \in Nat
      BY <3>1 DEF SessionRow
    <3> QED BY <2>2, <3>1, <3>2, <3>3 DEF CloseSession, IsOpen, IInv, TypeOK, SessionRow
  <2> QED BY <2>1, <2>2
<1>3. TypeOK'
  BY <1>1, <1>2 DEF IInv, TypeOK, RowOK
<1>4. SessionsOK'
  BY <1>2, KeysAssumption DEF IInv, SessionsOK
<1>5. AttemptsOK'
  BY <1>1, <1>2 DEF IInv, TypeOK, AttemptsOK, RowOK, Attempt
<1>6. OneReward' /\ OneAttemptInProgress'
  BY <1>1 DEF IInv, OneReward, Passed, OneAttemptInProgress, InProgress
<1>7. \A k \in Keys : CallFits(calls[k])'
  BY <1>1 DEF IInv, CallsOK, CallFits
<1>8. ASSUME NEW k \in StartKeys PROVE Held(calls[k])'
  <2>1. k \in Keys /\ calls[k] \in Call /\ Held(calls[k])
    BY DEF Keys, IInv, TypeOK, CallsOK
  <2>2. \A r \in calls[k].locked : IsOpen(r)'
    BY <1>1, <1>2, <2>1 DEF Held, IsOpen, LockedSessions, Call
  <2>3. ASSUME NEW a \in calls[k].expired PROVE Expirable(a)'
    <3>1. a \in Attempts /\ Expirable(a)
      BY <2>1 DEF Held, Call
    <3>2. attempts[a].session \in Sessions /\ sessions[attempts[a].session].status = "ENDED"
      BY <3>1 DEF Expirable, InProgress, IInv, TypeOK, RowOK, Attempt, AttemptsOK, IsOpen, SessionRow
    <3>3. sessions'[attempts[a].session] = sessions[attempts[a].session]
      BY <1>2, <3>2
    <3> QED BY <1>1, <3>1, <3>3 DEF Expirable, InProgress, IsOpen, Unexpirable, Deadline
  <2> QED BY <1>1, <2>2, <2>3 DEF Held
<1> QED BY <1>1, <1>3, <1>4, <1>5, <1>6, <1>7, <1>8 DEF IInv, CallsOK, OneStart

LEMMA TickKeepsIInv ==
    ASSUME IInv, Tick
    PROVE  IInv'
<1>1. clock' = clock + 1 /\ clock \in Nat /\ UNCHANGED <<sessions, attempts, answers, ledger, replies, calls>>
  BY DEF Tick, IInv, TypeOK
<1>2. TypeOK'
  BY <1>1 DEF IInv, TypeOK, RowOK
<1>3. AttemptsOK'
  BY <1>1 DEF IInv, TypeOK, AttemptsOK, Attempt
<1>4. \A k \in Keys : CallFits(calls[k])'
  BY <1>1 DEF IInv, TypeOK, Call, CallsOK, CallFits
<1>5. \A k \in StartKeys : Held(calls[k])'
  BY <1>1 DEF IInv, CallsOK, Held, Expirable, InProgress, IsOpen, Unexpirable, Deadline
<1> QED BY <1>1, <1>2, <1>3, <1>4, <1>5
        DEF IInv, CallsOK, OneStart, SessionsOK, OneReward, Passed, OneAttemptInProgress, InProgress

LEMMA StutterKeepsIInv ==
    ASSUME IInv, UNCHANGED vars
    PROVE  IInv'
<1>1. UNCHANGED <<sessions, attempts, answers, ledger, replies, calls, clock>>
  BY DEF vars
<1>2. TypeOK'
  BY <1>1 DEF IInv, TypeOK, RowOK
<1>3. CallsOK'
  BY <1>1 DEF IInv, CallsOK, CallFits, Held, Expirable, InProgress, IsOpen, Unexpirable, Deadline, OneStart
<1> QED BY <1>1, <1>2, <1>3
        DEF IInv, SessionsOK, AttemptsOK, OneReward, Passed, OneAttemptInProgress, InProgress
-----------------------------------------------------------------------------
(* The theorems                                                            *)

LEMMA InitIInv == Init => IInv
<1> SUFFICES ASSUME Init PROVE IInv
  OBVIOUS
<1>1. TypeOK
  BY KeysAssumption
     DEF Init, TypeOK, NoSession, NoAttempt, NoCall, SessionRow, Attempt, Call, RowOK
<1>2. SessionsOK /\ AttemptsOK /\ OneReward /\ OneAttemptInProgress
  BY DEF Init, SessionsOK, AttemptsOK, OneReward, Passed, OneAttemptInProgress, InProgress, NoSession, NoAttempt
<1>3. CallsOK
  BY DEF Init, CallsOK, CallFits, Held, OneStart, NoCall, Keys
<1> QED BY <1>1, <1>2, <1>3 DEF IInv

LEMMA NextIInv == IInv /\ [Next]_vars => IInv'
<1> SUFFICES ASSUME IInv, [Next]_vars PROVE IInv'
  OBVIOUS
<1>1. ASSUME NEW k \in StartKeys, BeginStart(k) \/ StartAttempt(k) PROVE IInv'
  BY <1>1, StartStepKeepsIInv, ReturnActiveKeepsIInv, InsertAttemptKeepsIInv DEF StartAttempt
<1>2. ASSUME NEW k \in SubmitKeys, SubmitAttempt(k) PROVE IInv'
  <2>1. CASE RefuseSubmit(k)
    BY <2>1, FailKeepsIInv DEF RefuseSubmit, Keys
  <2> QED BY <1>2, <2>1, ReturnGradedKeepsIInv, GradeKeepsIInv DEF SubmitAttempt
<1>3. ASSUME NEW k \in SubmitKeys, NEW a \in Attempts, BeginSubmit(k, a) PROVE IInv'
  BY <1>3, BeginSubmitKeepsIInv
<1>4. ASSUME NEW k \in Keys, Rollback(k) PROVE IInv'
  BY <1>4, FailKeepsIInv DEF Rollback
<1>5. ASSUME NEW a \in Attempts, NEW worth \in {"INCOMPLETE", "WRONG", "RIGHT"}, ReplaceAnswers(a, worth)
      PROVE  IInv'
  BY <1>5, ReplaceAnswersKeepsIInv
<1>6. ASSUME NEW a \in Attempts, GetAttempt(a) PROVE IInv'
  <2>1. Expirable(a) /\ a \notin LockedAttempts
    BY <1>6 DEF GetAttempt, CanLock, Expirable, Overdue
  <2> QED BY <1>6, <2>1, CleanUpKeepsIInv DEF GetAttempt
<1>7. CASE RunCleanup
  <2> DEFINE overdue == {a \in Attempts : Overdue(a, clock)}
  <2>1. \A a \in overdue : Expirable(a)
    BY <1>7 DEF RunCleanup, Expirable, Overdue
  <2> QED BY <1>7, <2>1, CleanUpKeepsIInv DEF RunCleanup
<1>8. ASSUME NEW s \in Sessions, OpenSession(s) \/ CloseSession(s) PROVE IInv'
  BY <1>8, SessionStepKeepsIInv
<1> QED BY <1>1, <1>2, <1>3, <1>4, <1>5, <1>6, <1>7, <1>8, TickKeepsIInv, StutterKeepsIInv DEF Next

LEMMA InductiveInvariant == Spec => []IInv
BY InitIInv, NextIInv, PTL DEF Spec

\* Every row that startAttempt, submitAttempt and the job write satisfies the
\* constraints of quest_attempts, in whatever order their steps run.
THEOREM TypeCorrectness == Spec => []TypeOK
<1>1. IInv => TypeOK
  BY DEF IInv
<1> QED BY InductiveInvariant, <1>1, PTL

\* The unique index uk_quest_attempts_active never refuses an insertion of
\* startAttempt.
THEOREM SingleAttempt == Spec => []OneAttemptInProgress
<1>1. IInv => OneAttemptInProgress
  BY DEF IInv
<1> QED BY InductiveInvariant, <1>1, PTL

\* Points are given once for a quest, and to the attempt that passed.
THEOREM SingleReward == Spec => []RewardedIffPassed
<1>1. ASSUME OneReward PROVE RewardedIffPassed
  <2>1. CASE ledger = {}
    BY <1>1, <2>1, FS_EmptySet DEF OneReward, RewardedIffPassed
  <2>2. CASE \E a : ledger = {a}
    <3> PICK a : ledger = {a}
      BY <2>2
    <3>1. Cardinality(ledger) = 1
      BY FS_Singleton
    <3> QED BY <1>1, <3>1 DEF OneReward, RewardedIffPassed
  <2> QED BY <1>1, <2>1, <2>2 DEF OneReward
<1>2. IInv => RewardedIffPassed
  BY <1>1 DEF IInv
<1> QED BY InductiveInvariant, <1>2, PTL

\* How a row comes to be graded: it was before, or this step does it.
LEMMA GradedByStep ==
    ASSUME IInv, [Next]_vars, NEW a \in Attempts, attempts'[a].submittedAt # Null
    PROVE  /\ attempts'[a].session = attempts[a].session
           /\ \/ attempts'[a].submittedAt = attempts[a].submittedAt
              \/ /\ UNCHANGED sessions
                 /\ \E at \in Nat : attempts'[a].submittedAt = at /\ InProgress(a) /\ ~Overdue(a, at)
<1> DEFINE Same == attempts'[a].session = attempts[a].session /\ attempts'[a].submittedAt = attempts[a].submittedAt
<1>1. ASSUME UNCHANGED attempts PROVE Same
  BY <1>1
<1>2. ASSUME NEW D \in SUBSET Attempts, \A b \in D : Expirable(b), attempts' = ExpireAll(D) PROVE Same
  BY <1>2, ExpiredTable
<1>3. ASSUME NEW k \in StartKeys, ReturnActive(k) PROVE Same
  BY <1>2, <1>3, StartCommit DEF ReturnActive, StartReply
<1>4. ASSUME NEW k \in StartKeys, InsertAttempt(k) PROVE Same
  <2>1. CASE Fail(k)
    BY <1>1, <2>1 DEF Fail
  <2>2. CASE ~Fail(k)
    <3>1. PICK b \in Attempts :
              /\ attempts[b].status = "NONE"
              /\ attempts' = [ExpireAll(calls[k].expired) EXCEPT ![b] =
                     [@ EXCEPT !.status = "IN_PROGRESS", !.session = calls[k].session,
                               !.startedAt = calls[k].at]]
      BY <1>4, <2>2 DEF InsertAttempt, StartReply
    <3>2. /\ ExpireAll(calls[k].expired)[a].submittedAt = attempts[a].submittedAt
          /\ ExpireAll(calls[k].expired)[a].session = attempts[a].session
          /\ ExpireAll(calls[k].expired)[a] \in Attempt
      <4>1. calls[k].expired \in SUBSET Attempts /\ \A c \in calls[k].expired : Expirable(c)
        BY <1>4, StartCommit DEF InsertAttempt
      <4> QED BY <4>1, ExpiredTable
    <3>3. CASE a = b
      <4>1. attempts[a].submittedAt = Null
        BY <3>1, <3>3 DEF IInv, TypeOK, RowOK
      <4>2. attempts'[a].submittedAt = Null
        BY <3>1, <3>2, <3>3, <4>1 DEF ExpireAll, Attempt
      <4> QED BY <4>2
    <3>4. CASE a # b
      BY <3>1, <3>2, <3>4 DEF ExpireAll
    <3> QED BY <3>3, <3>4
  <2> QED BY <2>1, <2>2
<1>5. ASSUME NEW k \in SubmitKeys, Grade(k)
      PROVE  \/ Same
             \/ /\ UNCHANGED sessions
                /\ attempts'[a].session = attempts[a].session
                /\ \E at \in Nat : attempts'[a].submittedAt = at /\ InProgress(a) /\ ~Overdue(a, at)
  <2>1. CASE a = calls[k].attempt
    <3>1. attempts[a] \in Attempt /\ calls[k].at \in Nat
      BY <1>5, SubmissionStarted DEF Grade, IInv, TypeOK
    <3>2. /\ InProgress(a) /\ ~Overdue(a, calls[k].at) /\ UNCHANGED sessions
          /\ attempts' = [attempts EXCEPT ![a] =
                 [@ EXCEPT !.status = IF answers[a] = "RIGHT" THEN "COMPLETED" ELSE "FAILED",
                           !.submittedAt = calls[k].at, !.completedAt = calls[k].at]]
      BY <1>5, <2>1 DEF Grade, SubmitReply
    <3>3. attempts'[a].session = attempts[a].session /\ attempts'[a].submittedAt = calls[k].at
      BY <3>1, <3>2 DEF IInv, TypeOK, Attempt
    <3> QED BY <3>1, <3>2, <3>3
  <2>2. CASE a # calls[k].attempt
    BY <1>5, <2>2 DEF Grade, IInv, TypeOK
  <2> QED BY <2>1, <2>2
<1>6. ASSUME NEW b \in Attempts, GetAttempt(b) PROVE Same
  <2>1. \A c \in {b} : Expirable(c)
    BY <1>6 DEF GetAttempt, Expirable, Overdue
  <2> QED BY <1>2, <1>6, <2>1 DEF GetAttempt
<1>7. CASE RunCleanup
  <2> DEFINE overdue == {b \in Attempts : Overdue(b, clock)}
  <2>1. \A b \in overdue : Expirable(b)
    BY <1>7 DEF RunCleanup, Expirable, Overdue
  <2> QED BY <1>2, <1>7, <2>1 DEF RunCleanup
<1>8. CASE UNCHANGED attempts
  BY <1>1, <1>8
<1> HIDE DEF Same
<1>9. CASE \E k \in StartKeys : BeginStart(k) \/ StartAttempt(k)
  BY <1>1, <1>3, <1>4, <1>9
     DEF StartAttempt, BeginStart, LockSessions, ExpireAttempts, CheckPassed, Proceed, Fail, Same
<1>10. CASE \E k \in SubmitKeys : SubmitAttempt(k) \/ \E b \in Attempts : BeginSubmit(k, b)
  BY <1>1, <1>5, <1>10 DEF SubmitAttempt, RefuseSubmit, ReturnGraded, BeginSubmit, Proceed, Fail, Same
<1>11. CASE \/ \E k \in Keys : Rollback(k)
            \/ \E s \in Sessions : OpenSession(s) \/ CloseSession(s)
            \/ \E b \in Attempts, worth \in {"INCOMPLETE", "WRONG", "RIGHT"} : ReplaceAnswers(b, worth)
            \/ Tick \/ UNCHANGED vars
  BY <1>8, <1>11 DEF Rollback, Fail, OpenSession, CloseSession, ReplaceAnswers, Tick, vars
<1> QED BY <1>6, <1>7, <1>9, <1>10, <1>11 DEF Next, Same

\* As long as the end of a session is not dated back by more than the grace
\* period, nothing late is graded, although a submission reads the clock before
\* it waits for the rows and the session may end meanwhile or afterwards.
THEOREM GradedInTime == MaxLag <= Grace => (Spec => []GradedInGrace)
<1> SUFFICES ASSUME MaxLag <= Grace PROVE Spec => []GradedInGrace
  OBVIOUS
<1>1. Init => GradedInGrace
  BY DEF Init, GradedInGrace, NoAttempt
<1>2. ASSUME IInv, GradedInGrace, [Next]_vars PROVE GradedInGrace'
  <2> SUFFICES ASSUME NEW a \in Attempts, attempts'[a].submittedAt # Null,
                      ~IsOpen(attempts[a].session)'
               PROVE  attempts'[a].submittedAt <= Deadline(a)'
    BY DEF GradedInGrace
  <2> DEFINE s == attempts[a].session
  <2>1. /\ attempts'[a].session = s
        /\ \/ attempts'[a].submittedAt = attempts[a].submittedAt
           \/ /\ UNCHANGED sessions
              /\ \E at \in Nat : attempts'[a].submittedAt = at /\ InProgress(a) /\ ~Overdue(a, at)
    BY <1>2, GradedByStep
  <2>2. CASE UNCHANGED sessions
    <3>1. ~IsOpen(s) /\ Deadline(a)' = Deadline(a)
      BY <2>1, <2>2 DEF IsOpen, Deadline
    <3>2. CASE attempts'[a].submittedAt = attempts[a].submittedAt
      BY <1>2, <3>1, <3>2 DEF GradedInGrace
    <3>3. ASSUME NEW at \in Nat, attempts'[a].submittedAt = at, InProgress(a), ~Overdue(a, at)
          PROVE  attempts'[a].submittedAt <= Deadline(a)
      <4>1. s \in Sessions /\ sessions[s].status = "ENDED"
        BY <1>2, <3>1, <3>3 DEF InProgress, IInv, TypeOK, RowOK, Attempt, AttemptsOK, IsOpen, SessionRow
      <4>2. Deadline(a) \in Nat
        BY <1>2, <4>1, TimeAssumption DEF Deadline, IInv, TypeOK, SessionsOK, SessionRow
      <4> HIDE DEF s
      <4> QED BY <3>1, <3>3, <4>2 DEF Overdue, s
    <3> QED BY <2>1, <3>1, <3>2, <3>3
  <2>3. CASE \E r \in Sessions : OpenSession(r) \/ CloseSession(r)
    <3> PICK r \in Sessions : OpenSession(r) \/ CloseSession(r)
      BY <2>3
    <3>1. UNCHANGED attempts
      BY DEF OpenSession, CloseSession
    <3>2. /\ attempts[a].submittedAt \in Nat /\ attempts[a].submittedAt <= clock /\ clock \in Nat
          /\ s \in Sessions /\ sessions[s].status # "NONE"
      BY <1>2, <3>1 DEF IInv, TypeOK, RowOK, Attempt, AttemptsOK
    <3>3. CASE r # s
      <4>1. sessions'[s] = sessions[s]
        BY <1>2, <3>2, <3>3 DEF OpenSession, CloseSession, IInv, TypeOK
      <4> QED BY <1>2, <2>1, <3>1, <4>1 DEF GradedInGrace, IsOpen, Deadline
    <3>4. CASE r = s
      <4>1. CloseSession(s)
        BY <3>2, <3>4 DEF OpenSession
      <4>2. sessions[s] \in SessionRow
        BY <1>2, <3>2 DEF IInv, TypeOK
      <4>3. PICK at \in sessions[s].startedAt .. clock :
                /\ clock <= at + MaxLag
                /\ sessions' = [sessions EXCEPT ![s] = [@ EXCEPT !.status = "ENDED", !.endedAt = at]]
        BY <4>1 DEF CloseSession
      <4>4. sessions'[s].endedAt = at /\ at \in Nat
        BY <1>2, <3>2, <4>2, <4>3 DEF IInv, TypeOK, SessionRow
      <4>5. Deadline(a)' = at + Grace
        BY <2>1, <4>4 DEF Deadline
      <4> QED BY <3>1, <3>2, <4>3, <4>4, <4>5, TimeAssumption
    <3> QED BY <3>3, <3>4
  <2>4. UNCHANGED sessions \/ \E r \in Sessions : OpenSession(r) \/ CloseSession(r)
    BY <1>2 DEF Next, vars, StartAttempt, SubmitAttempt, BeginStart, LockSessions, ExpireAttempts, CheckPassed,
       ReturnActive, InsertAttempt, StartReply, RefuseSubmit, ReturnGraded, Grade, SubmitReply, BeginSubmit,
       Rollback, Proceed, Fail, ReplaceAnswers, GetAttempt, RunCleanup, Tick
  <2> QED BY <2>2, <2>3, <2>4
<1> QED BY InductiveInvariant, <1>1, <1>2, PTL DEF Spec
=============================================================================
