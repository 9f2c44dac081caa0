------------------------- MODULE QuestAttemptsProps -------------------------
(* The properties of QuestAttempts.                                         *)
EXTENDS QuestAttempts

SessionRow == [status : {"NONE", "ACTIVE", "ENDED"}, startedAt : Nat, endedAt : Nat \cup {Null}]
Attempt == [status : {"NONE", "IN_PROGRESS", "COMPLETED", "FAILED", "EXPIRED"},
            session : Sessions \cup {Null}, startedAt : Nat,
            submittedAt : Nat \cup {Null}, completedAt : Nat \cup {Null}]
Call == [step : {"IDLE", "STARTED", "LOCKED", "EXPIRED", "CHECKED", "SUBMITTED"}, at : Nat,
         session : Sessions \cup {Null}, attempt : Attempts \cup {Null},
         locked : SUBSET Sessions, expired : SUBSET Attempts]

\* Every variable keeps its type; the columns of a row fit its status, as
\* ck_quest_attempts_result and ck_quest_attempts_completion_time demand.
RowOK(row) ==
    /\ row.status \in {"NONE", "IN_PROGRESS"} <=> row.completedAt = Null
    /\ row.status \in {"COMPLETED", "FAILED"} <=> row.submittedAt # Null
    /\ row.completedAt # Null => row.completedAt >= row.startedAt
    /\ row.status # "NONE" => row.session # Null
TypeOK ==
    /\ sessions \in [Sessions -> SessionRow]
    /\ attempts \in [Attempts -> Attempt]
    /\ \A a \in Attempts : RowOK(attempts[a])
    /\ answers \in [Attempts -> {"INCOMPLETE", "WRONG", "RIGHT"}]
    /\ ledger \subseteq Attempts
    /\ replies \in [Keys -> Attempts \cup {Null}]
    /\ calls \in [Keys -> Call]
    /\ clock \in Nat

\* startAttempt never runs into uk_quest_attempts_active, which would answer a
\* retry with a 500: at most one attempt is in progress, although the session
\* that serialises starts and submissions may have changed between two starts.
OneAttemptInProgress == \A a, b \in Attempts : InProgress(a) /\ InProgress(b) => a = b

\* A reward and a pass come together, in one transaction and for one attempt
\* only, whatever two submissions and a start do at the same time.
RewardedIffPassed ==
    /\ ledger = Passed
    /\ Cardinality(ledger) <= 1

\* No attempt is graded that was submitted after its session's grace period,
\* although the session may end, and its end be dated back, while the call
\* waits for its locks or after it (DOMAIN_CONTRACTS.md:76).
GradedInGrace ==
    \A a \in Attempts :
        attempts[a].submittedAt # Null /\ ~IsOpen(attempts[a].session)
            => attempts[a].submittedAt <= Deadline(a)

\* An attempt that is overdue does not stay in progress (DATABASE_SCHEMA.md:91):
\* the job expires it unless something else did.
OverdueAttemptsExpire ==
    \A a \in Attempts : Overdue(a, clock) ~> ~InProgress(a)
=============================================================================
