SPECIFICATION Spec
CONSTANTS
  w1 = w1  w2 = w2  idA = idA  idB = idB  p1 = p1  p2 = p2  k1 = k1  k2 = k2
  Process = {w1, w2}
  WorkerId <- SameIds
  Run = {1}
  ConcurrencyKey <- OneKey
  Payload = {p1, p2}
  NoPayload = NoPayload
  NoOwner = NoOwner
  NoToken = NoToken
  MaximumAttempts = 2
  LeaseSeconds = 1
  RetryDelay <- Delays
  ClaimLimit = 1
  Dialect = "sqlite"
  DueLag = 1
  ClockLag = 1
  Horizon = 2
  MaxTime = 4
  MaxCrashes = 1
INVARIANTS TypeOK RowChecks GenerationHeldOnce CallsWithinAttempts SuccessHasBatch FailureIsJustified
PROPERTIES CompletedIsImmutable LiveLeaseIsRespected ImportedOnce
SYMMETRY Alike
