SPECIFICATION Spec
CONSTANTS
    g1 = g1
    g2 = g2
    s1 = s1
    s2 = s2
    c1 = c1
    c2 = c2
    c3 = c3
    Null = Null
    Identities <- MC_Identities
    FirstIdentity = g1
    States <- MC_States
    FirstRows <- MC_FirstRows
    Calls <- MC_Calls
    StateTtl = 1
    SessionTtl = 2
    Recent = 1
    MaxUsers = 2
    MaxSessions = 4
    MaxCalls = 3
    MaxLost = 1
    MaxClock = 2
INVARIANTS TypeOK StateSpentOnce FailsForCause
PROPERTY LoggedOutStaysOut
SYMMETRY MC_Symmetry
CHECK_DEADLOCK FALSE
