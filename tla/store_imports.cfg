SPECIFICATION Spec
CONSTANTS
  u = u  v = v  k1 = k1  k2 = k2  s1 = s1  s2 = s2
  Date = {1, 2}
  Value = {u, v}
  Payload <- Imports
  Key = {k1}
  Session = {s1, s2}
  Nothing = Nothing
  Dialect = "sqlite"
  MaxRequests = 3
  MaxTime = 2
INVARIANTS BatchCountsRows
PROPERTIES SettledReadsAreStable
CHECK_DEADLOCK FALSE
