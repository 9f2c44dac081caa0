SPECIFICATION Spec
CONSTANTS
  d1 = d1
  d2 = d2
  k1 = k1
  t1 = t1
  t2 = t2
  e1 = e1
  e2 = e2
  e3 = e3
  e4 = e4
  e5 = e5
  e6 = e6
  Null = Null
  Sessions = {s1, s2, s3}
  Devices = {d1, d2}
  SessionKeys = {k1}
  TurnKeys = {t1, t2}
  Messages <- ManualMessages
  Outcomes = {"ABANDONED"}
  ApiKeys = {a1, a2}
  HeartbeatTimeout = 1
  ManualTimeout = 2
  DeferredTtl = 1
  MaxEventsPerTurn = 500
  MaxClock = 3
SYMMETRY RowSymmetry
INVARIANTS
  SchemaHolds
  ManualRowPerKey
PROPERTY LifecycleSpec
