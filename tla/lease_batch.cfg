SPECIFICATION Spec
CONSTANTS
  w1 = w1  w2 = w2  idA = idA  idB = idB  p1 = p1  p2 = p2  k1 = k1  k2 = k2
  Process = {w1, w2}
  WorkerId <- SameIds
  Run = {1, 2, 3}
  ConcurrencyKey <- MixedKeys
  Payload = {p1}
  NoPayload = NoPayload
  NoOwner = NoOwner
  NoToken = NoToken
  MaximumAttempts = 1
  LeaseSeconds = 1
  RetryDelay <- Delays
  ClaimLimit = 3
  Dialect = "postgresql"
  DueLag = 0
  ClockLag = 0
  Horizon = 0
  MaxTime = 2
  MaxCrashes = 0
INVARIANTS OneRunningPerKey OverlapOnlyAfterExpiry
PROPERTIES ImplementsLifecycle
SYMMETRY Alike
