SPECIFICATION FairSpec
CONSTANTS
  u = u  v = v  k1 = k1  k2 = k2  s1 = s1  s2 = s2
  Date = {1, 2}
  Value = {u, v}
  Payload <- AllKinds
  Key = {k1, k2}
  Session = {s1, s2}
  Nothing = Nothing
  Dialect = "postgresql"
  MaxRequests = 3
  MaxTime = 0
INVARIANTS TypeOK ChainIsLinked
PROPERTIES SyncTakesEffect ImplementsHistory EveryRequestEnds
CHECK_DEADLOCK FALSE
