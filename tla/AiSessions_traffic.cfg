SPECIFICATION FairSpec
CONSTANTS
  d1 = d1
  d2 = d2
  k1 = k1
  t1 = t1
  t2 = t2
  e1 = e1
  e2 = e2
  e3 = e3
  e4 = e4
  e5 = e5
  e6 = e6
  Null = Null
  Sessions = {s1, s2}
  Devices = {d1, d2}
  SessionKeys = {k1}
  TurnKeys = {t1, t2}
  Messages <- MCMessages
  Outcomes = {"ABANDONED"}
  ApiKeys = {}
  HeartbeatTimeout = 1
  ManualTimeout = 2
  DeferredTtl = 1
  MaxEventsPerTurn = 3
  MaxClock = 3
INVARIANTS
  TypeOK
  NothingDeferredAfterStart
  OneStopCompletes
  AbandonedAtDeadline
  LedgerMatchesSession
PROPERTY SilentSessionsEnd
