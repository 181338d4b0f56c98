SPECIFICATION Spec
CONSTANTS
  w1 = w1  w2 = w2  idA = idA  idB = idB  p1 = p1  p2 = p2  k1 = k1  k2 = k2
  Process = {w1, w2}
  WorkerId <- SameIds
  Run = {1}
  ConcurrencyKey <- OneKey
  Payload = {p1}
  NoPayload = NoPayload
  NoOwner = NoOwner
  NoToken = NoToken
  MaximumAttempts = 2
  LeaseSeconds = 2
  RetryDelay <- Delays
  ClaimLimit = 1
  Dialect = "sqlite"
  DueLag = 0
  ClockLag = 0
  Horizon = 1
  MaxTime = 4
  MaxCrashes = 0
INVARIANTS NoConcurrentExecution
SYMMETRY Alike
