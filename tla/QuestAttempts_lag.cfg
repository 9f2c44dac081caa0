\* The session recovery was down for longer than the grace period.
SPECIFICATION FairSpec
CONSTANTS
    Null = Null
    Sessions = {s1, s2}
    Attempts = {q1, q2}
    StartKeys = {k1}
    SubmitKeys = {m1}
    RetryAllowed = TRUE
    Grace = 1
    MaxLag = 3
    MaxClock = 3
PROPERTY OverdueAttemptsExpire
CHECK_DEADLOCK FALSE
