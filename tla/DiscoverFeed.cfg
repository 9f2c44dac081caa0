\* Every adapter with its four feeds, two API instances and two requests at a time.
SPECIFICATION Spec
CONSTANTS
    Null = Null
    Instances = {i1, i2}
    Requests = {r1, r2}
    Kinds <- AllKinds
    Replies <- SmallReplies
    Pages <- SmallPages
    FeedCount = 4
    Minute = 2
    Waits = {3}
    FreshFor = 2
    MaxStale = 2
    PurgeAge = 3
    Retention = 4
    RefreshTime = 1
    MaxAsked = 3
    MaxFaults = 1
    MaxClock = 5
SYMMETRY Symmetric
INVARIANTS TypeOK UpstreamSpared AnswersInTime
CHECK_DEADLOCK FALSE
