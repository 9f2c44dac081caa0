\* Two tabs, one failed access, one network fault or lost login.
SPECIFICATION FairSpec
CONSTANTS
    Null = Null
    NoRequest = NoRequest
    Tabs = {t1, t2}
    Tab = t1
    Originals <- MC_Originals
    MaxRefusals = 1
    MaxSessions = 3
    PageSize = 1
    MaxTroubles = 1
INVARIANTS TypeOK RecordsSafe ViewComplete
PROPERTY EndedLeave
CHECK_DEADLOCK FALSE
