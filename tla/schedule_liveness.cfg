SPECIFICATION FairSpec
CONSTANTS
  k = k  c1 = c1  c2 = c2  w1 = w1  w2 = w2  g1 = g1  g2 = g2
  Day = 3
  Schedule = {1, 2}
  Client = {c1}
  Worker = {w1, w2}
  Config = {g1}
  CadenceChoice <- EveryOne
  Key = {k}
  Nothing = Nothing
  ClaimLimit = 2
  Dialect = "sqlite"
  MaxVersion = 2
  MaxTime = 1
PROPERTIES DueIsHandled
