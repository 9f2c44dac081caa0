\* A window whose process id is known and one whose is not, and two workers.
SPECIFICATION FairSpec
CONSTANTS
    Null = Null
    Windows = {w1, w2}
    KnownHosts = {w1}
    Turns = {t1, t2}
    Workers = {p1, p2}
    Interval = 1
    Lease = 2
    MaxTurn = 3
    LastHook = 1
    MaxHooks = 2
    MaxKills = 1
    MaxClock = 3
INVARIANTS TypeOK BeatsBounded
PROPERTY WorkersEnd
CHECK_DEADLOCK FALSE
