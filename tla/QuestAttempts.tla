---------------------------- MODULE QuestAttempts ----------------------------
(***************************************************************************)
(* The attempts of one user at one published quest: rows of quest_attempts *)
(* and point_ledger, the API calls that start and submit attempts with an  *)
(* Idempotency-Key, and the job that expires overdue attempts.             *)
(*                                                                         *)
(* startAttempt runs statement by statement: it shares with submitAttempt  *)
(* only the lock of an AI session, and the session of an attempt may be    *)
(* over.  submitAttempt reads the clock before it waits for its locks; with *)
(* them held nothing it reads can change, so the rest is one step.  AI     *)
(* sessions are reduced to when they start and end.                        *)
(***************************************************************************)
EXTENDS Naturals, FiniteSets

CONSTANTS
    Sessions,      \* identifiers an AI session of the user can have
    Attempts,      \* identifiers a quest_attempts row can have
    StartKeys,     \* Idempotency-Key values of startAttempt
    SubmitKeys,    \* Idempotency-Key values of submitAttempt
    Null,          \* SQL NULL
    RetryAllowed,  \* quests.retry_allowed
    Grace,         \* SUBMISSION_GRACE_MS, 5 minutes
    MaxLag,        \* how far back the end of a session may be dated
    MaxClock       \* bound on the model's clock

Keys == StartKeys \cup SubmitKeys

ASSUME KeysAssumption ==
    /\ StartKeys \cap SubmitKeys = {}
    /\ Null \notin Sessions \cup Attempts \cup Nat

ASSUME TimeAssumption ==
    /\ Grace \in Nat \ {0}
    /\ {MaxLag, MaxClock} \subseteq Nat
    /\ RetryAllowed \in BOOLEAN

VARIABLES
    sessions,  \* ai_sessions: status, startedAt and endedAt
    attempts,  \* quest_attempts: a row of status NONE does not exist yet
    answers,   \* quest_attempt_answers, by what they are worth
    ledger,    \* point_ledger: the attempts with a reward
    replies,   \* api_idempotency_keys: key -> attempt of the stored response
    calls,     \* the transaction of each key's API call
    clock      \* clock_timestamp()

vars == <<sessions, attempts, answers, ledger, replies, calls, clock>>
-----------------------------------------------------------------------------
NoSession == [status |-> "NONE", startedAt |-> 0, endedAt |-> Null]
NoAttempt == [status |-> "NONE", session |-> Null, startedAt |-> 0,
              submittedAt |-> Null, completedAt |-> Null]
NoCall == [step |-> "IDLE", at |-> 0, session |-> Null, attempt |-> Null,
           locked |-> {}, expired |-> {}]

IsOpen(s) == sessions[s].status = "ACTIVE"
OpenSessions == {s \in Sessions : IsOpen(s)}
InProgress(a) == attempts[a].status = "IN_PROGRESS"
Passed == {a \in Attempts : attempts[a].status = "COMPLETED"}

\* The rows that uncommitted startAttempt transactions hold.
LockedSessions == UNION {calls[k].locked : k \in StartKeys}
LockedAttempts == UNION {calls[k].expired : k \in StartKeys}

Deadline(a) == sessions[attempts[a].session].endedAt + Grace

\* Mutant: the session of an attempt is not looked at.
NeverOverdue(a, at) == FALSE

\* expireAttempts, expireAttemptIfNeeded and the job agree on what is overdue.
Overdue(a, at) ==
    /\ InProgress(a)
    /\ ~IsOpen(attempts[a].session)
    /\ at > Deadline(a)

\* ck_quest_attempts_completion_time: an attempt cannot have expired before it
\* started, which the date of its session's end may imply.
Unexpirable(a) == Deadline(a) < attempts[a].startedAt

\* Mutant: the time of the expiry is not recorded.
ExpiredUndated(row, at) == [row EXCEPT !.status = "EXPIRED"]

Expired(row, at) == [row EXCEPT !.status = "EXPIRED", !.completedAt = at]

\* The table with the rows in D expired.
ExpireAll(D) ==
    [a \in Attempts |-> IF a \in D THEN Expired(attempts[a], Deadline(a)) ELSE attempts[a]]
-----------------------------------------------------------------------------
Init ==
    /\ sessions = [s \in Sessions |-> NoSession]
    /\ attempts = [a \in Attempts |-> NoAttempt]
    /\ answers = [a \in Attempts |-> "INCOMPLETE"]
    /\ ledger = {}
    /\ replies = [k \in Keys |-> Null]
    /\ calls = [k \in Keys |-> NoCall]
    /\ clock = 0

\* An error response rolls the transaction back.
Fail(k) ==
    /\ calls' = [calls EXCEPT ![k] = NoCall]
    /\ UNCHANGED <<sessions, attempts, answers, ledger, replies, clock>>

Proceed(k, call) ==
    /\ calls' = [calls EXCEPT ![k] = call]
    /\ UNCHANGED <<sessions, attempts, answers, ledger, replies, clock>>

(* startAttempt                                                            *)

\* The advisory lock of the quest admits one start at a time; a key with a
\* stored response is answered from it.
BeginStart(k) ==
    /\ \A j \in StartKeys : calls[j].step = "IDLE"
    /\ replies[k] = Null
    /\ Proceed(k, [NoCall EXCEPT !.step = "STARTED", !.at = clock])

LockSessions(k) ==
    /\ calls[k].step = "STARTED"
    /\ \/ OpenSessions = {} /\ Fail(k)
       \/ \E s \in OpenSessions :
              /\ \A r \in OpenSessions : sessions[r].startedAt <= sessions[s].startedAt
              /\ Proceed(k, [calls[k] EXCEPT !.step = "LOCKED", !.session = s,
                                             !.locked = OpenSessions])

\* Attempts expire with the start, or not at all if it fails.
ExpireAttempts(k) ==
    /\ calls[k].step = "LOCKED"
    /\ LET overdue == {a \in Attempts : Overdue(a, calls[k].at)}
       IN  IF \E a \in overdue : Unexpirable(a) THEN Fail(k)
           ELSE Proceed(k, [calls[k] EXCEPT !.step = "EXPIRED", !.expired = overdue])

CheckPassed(k) ==
    /\ calls[k].step = "EXPIRED"
    /\ IF Passed # {} THEN Fail(k)
       ELSE Proceed(k, [calls[k] EXCEPT !.step = "CHECKED"])

\* Mutant: only an attempt of the newest session is found.
ActiveInSession(k) == {a \in Attempts : InProgress(a) /\ a \notin calls[k].expired
                                        /\ attempts[a].session = calls[k].session}
\* findActiveAttempt, with the transaction's own changes.
ActiveAttempts(k) == {a \in Attempts : InProgress(a) /\ a \notin calls[k].expired}

RetryRefused(k) ==
    /\ ~RetryAllowed
    /\ \E a \in Attempts :
           /\ attempts[a].status # "NONE"
           /\ \A b \in Attempts : attempts[b].startedAt <= attempts[a].startedAt
           /\ attempts[a].status \in {"FAILED", "EXPIRED"} \/ a \in calls[k].expired

StartReply(k, a, table) ==
    /\ attempts' = table
    /\ replies' = [replies EXCEPT ![k] = a]
    /\ calls' = [calls EXCEPT ![k] = NoCall]
    /\ UNCHANGED <<sessions, answers, ledger, clock>>

ReturnActive(k) ==
    /\ calls[k].step = "CHECKED"
    /\ \E a \in ActiveAttempts(k) : StartReply(k, a, ExpireAll(calls[k].expired))

InsertAttempt(k) ==
    /\ calls[k].step = "CHECKED"
    /\ ActiveAttempts(k) = {}
    /\ \/ RetryRefused(k) /\ Fail(k)
       \/ /\ ~RetryRefused(k)
          /\ \E a \in Attempts :
                 /\ attempts[a].status = "NONE"
                 /\ StartReply(k, a, [ExpireAll(calls[k].expired) EXCEPT ![a] =
                        [@ EXCEPT !.status = "IN_PROGRESS", !.session = calls[k].session,
                                  !.startedAt = calls[k].at]])
-----------------------------------------------------------------------------
(* submitAttempt                                                           *)

BeginSubmit(k, a) ==
    /\ calls[k].step = "IDLE"
    /\ replies[k] = Null
    /\ attempts[a].status # "NONE"
    /\ Proceed(k, [NoCall EXCEPT !.step = "SUBMITTED", !.at = clock, !.attempt = a])

\* SELECT ... FOR UPDATE OF attempt, session
CanLock(a) == a \notin LockedAttempts /\ attempts[a].session \notin LockedSessions

HoldsLocks(k) == calls[k].step = "SUBMITTED" /\ CanLock(calls[k].attempt)

\* An overdue or incomplete attempt, and a second reward for the quest, which
\* the unique index of point_ledger prevents.
RefuseSubmit(k) ==
    /\ HoldsLocks(k)
    /\ LET a == calls[k].attempt
       IN  \/ attempts[a].status = "EXPIRED"
           \/ Overdue(a, calls[k].at)
           \/ InProgress(a) /\ answers[a] = "INCOMPLETE"
           \/ InProgress(a) /\ answers[a] = "RIGHT" /\ ledger # {}
    /\ Fail(k)

SubmitReply(k) ==
    /\ replies' = [replies EXCEPT ![k] = calls[k].attempt]
    /\ calls' = [calls EXCEPT ![k] = NoCall]
    /\ UNCHANGED <<sessions, answers, clock>>

ReturnGraded(k) ==
    /\ HoldsLocks(k)
    /\ attempts[calls[k].attempt].status \in {"COMPLETED", "FAILED"}
    /\ SubmitReply(k)
    /\ UNCHANGED <<attempts, ledger>>

\* Mutant: without the unique index, a second pass is rewarded again.
GradeAgain(k) ==
    /\ HoldsLocks(k)
    /\ LET a == calls[k].attempt
           passed == answers[a] = "RIGHT"
       IN  /\ InProgress(a)
           /\ ~Overdue(a, calls[k].at)
           /\ answers[a] # "INCOMPLETE"
           /\ attempts' = [attempts EXCEPT ![a] =
                  [@ EXCEPT !.status = IF passed THEN "COMPLETED" ELSE "FAILED",
                            !.submittedAt = calls[k].at, !.completedAt = calls[k].at]]
           /\ ledger' = IF passed THEN ledger \cup {a} ELSE ledger
    /\ SubmitReply(k)

Grade(k) ==
    /\ HoldsLocks(k)
    /\ LET a == calls[k].attempt
           passed == answers[a] = "RIGHT"
       IN  /\ InProgress(a)
           /\ ~Overdue(a, calls[k].at)
           /\ answers[a] # "INCOMPLETE"
           /\ passed => ledger = {}
           /\ attempts' = [attempts EXCEPT ![a] =
                  [@ EXCEPT !.status = IF passed THEN "COMPLETED" ELSE "FAILED",
                            !.submittedAt = calls[k].at, !.completedAt = calls[k].at]]
           /\ ledger' = IF passed THEN ledger \cup {a} ELSE ledger
    /\ SubmitReply(k)

Rollback(k) == calls[k].step # "IDLE" /\ Fail(k)
-----------------------------------------------------------------------------
(* The other handlers and the job, each one step once it has its locks.    *)

\* The expiry that a refused replaceAnswers would make is rolled back.
ReplaceAnswers(a, worth) ==
    /\ CanLock(a)
    /\ InProgress(a)
    /\ ~Overdue(a, clock)
    /\ answers' = [answers EXCEPT ![a] = worth]
    /\ UNCHANGED <<sessions, attempts, ledger, replies, calls, clock>>

\* getAttempt expires what it finds overdue.
GetAttempt(a) ==
    /\ CanLock(a)
    /\ Overdue(a, clock)
    /\ ~Unexpirable(a)
    /\ attempts' = ExpireAll({a})
    /\ UNCHANGED <<sessions, answers, ledger, replies, calls, clock>>

\* One UPDATE statement for all rows: one that a constraint refuses undoes it.
RunCleanup ==
    LET overdue == {a \in Attempts : Overdue(a, clock)}
    IN  /\ overdue # {}
        /\ overdue \cap LockedAttempts = {}
        /\ \A a \in overdue : ~Unexpirable(a)
        /\ attempts' = ExpireAll(overdue)
        /\ UNCHANGED <<sessions, answers, ledger, replies, calls, clock>>

(* The session service, as far as attempts see it.  The recovery job dates *)
(* the end of a silent session back to its last activity plus 120 seconds. *)
OpenSession(s) ==
    /\ sessions[s].status = "NONE"
    /\ sessions' = [sessions EXCEPT ![s] = [@ EXCEPT !.status = "ACTIVE", !.startedAt = clock]]
    /\ UNCHANGED <<attempts, answers, ledger, replies, calls, clock>>

CloseSession(s) ==
    /\ IsOpen(s)
    /\ s \notin LockedSessions
    /\ \E at \in sessions[s].startedAt..clock :
           /\ clock <= at + MaxLag
           /\ sessions' = [sessions EXCEPT ![s] = [@ EXCEPT !.status = "ENDED", !.endedAt = at]]
    /\ UNCHANGED <<attempts, answers, ledger, replies, calls, clock>>

Tick ==
    /\ clock < MaxClock
    /\ clock' = clock + 1
    /\ UNCHANGED <<sessions, attempts, answers, ledger, replies, calls>>

StartAttempt(k) ==
    \/ LockSessions(k) \/ ExpireAttempts(k) \/ CheckPassed(k)
    \/ ReturnActive(k) \/ InsertAttempt(k)
SubmitAttempt(k) == RefuseSubmit(k) \/ ReturnGraded(k) \/ Grade(k)

Next ==
    \/ \E k \in StartKeys : BeginStart(k) \/ StartAttempt(k)
    \/ \E k \in SubmitKeys : SubmitAttempt(k) \/ \E a \in Attempts : BeginSubmit(k, a)
    \/ \E k \in Keys : Rollback(k)
    \/ \E a \in Attempts :
           \/ \E worth \in {"INCOMPLETE", "WRONG", "RIGHT"} : ReplaceAnswers(a, worth)
           \/ GetAttempt(a)
    \/ RunCleanup
    \/ \E s \in Sessions : OpenSession(s) \/ CloseSession(s)
    \/ Tick

Spec == Init /\ [][Next]_vars

(* Transactions run to their end.  The job runs every 30 seconds, and where *)
(* it meets a row that is locked it queues for it: hence strong fairness.   *)
FairSpec ==
    /\ Spec
    /\ \A k \in StartKeys : WF_vars(StartAttempt(k))
    /\ \A k \in SubmitKeys : WF_vars(SubmitAttempt(k))
    /\ SF_vars(RunCleanup)
    /\ WF_vars(Tick)
=============================================================================
