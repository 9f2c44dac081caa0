\* Two hooks, timeouts at will and one kill anywhere.
SPECIFICATION FairSpec
CONSTANTS
    h1 = h1
    h2 = h2
    b1 = b1
    b2 = b2
    Null = Null
    Events <- TwoHooks
    Heartbeats <- AllHeartbeats
    Turn <- OneTurn
    MaxItems = 2
    MaxAttempts = 2
    MaxMishaps = 1
    Faults = {"timeout", "crash"}
INVARIANT InOrder
PROPERTY WorkerDrains
CHECK_DEADLOCK FALSE
