\* Concurrent starts and submissions.
SPECIFICATION Spec
CONSTANTS
    Null = Null
    Sessions = {s1, s2}
    Attempts = {q1, q2}
    StartKeys = {k1, k2}
    SubmitKeys = {m1, m2}
    RetryAllowed = TRUE
    Grace = 1
    MaxLag = 1
    MaxClock = 3
SYMMETRY RowSymmetry
INVARIANTS TypeOK OneAttemptInProgress RewardedIffPassed GradedInGrace
CHECK_DEADLOCK FALSE
