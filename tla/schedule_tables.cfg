SPECIFICATION TablesSpec
CONSTANTS
  k = k  c1 = c1  c2 = c2  w1 = w1  w2 = w2  g1 = g1  g2 = g2
  Day = 3
  Schedule = {1}
  Client = {c1}
  Worker = {w1, w2}
  Config = {g1, g2}
  CadenceChoice <- TwoCadences
  Key = {}
  Nothing = Nothing
  ClaimLimit = 1
  Dialect = "sqlite"
  MaxVersion = 3
  MaxTime = 5
INVARIANTS TablesTypeOK RunNowOnce
PROPERTIES OccurrencesAdvance ScheduledRunIsCurrent CoalescesMissedOccurrences
SYMMETRY Alike
