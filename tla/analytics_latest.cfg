SPECIFICATION Spec
CONSTANTS
  Client = {"a", "b"}
  MaxTime = 1
  MaxRevisions = 1
  MaxLock = 1
  MaxRuns = 2
INVARIANTS LatestHasNewestCutoff
CHECK_DEADLOCK FALSE
