\* A hook and two heartbeats, one mishap anywhere, no timeouts.
SPECIFICATION Spec
CONSTANTS
    h1 = h1
    h2 = h2
    b1 = b1
    b2 = b2
    Null = Null
    Events <- OneHook
    Heartbeats <- AllHeartbeats
    Turn <- OneTurn
    MaxItems = 2
    MaxAttempts = 2
    MaxMishaps = 1
    Faults = {"refuse", "age", "revoke", "crash"}
SYMMETRY Alike
INVARIANTS TypeOK LostOnlyWhenTorn
PROPERTY CheckpointMonotone
CHECK_DEADLOCK FALSE
