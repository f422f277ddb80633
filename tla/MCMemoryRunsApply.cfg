\* Two lives of a backend, two receipts, two runs; every fault once.
SPECIFICATION FairSpec
CONSTANTS
  p1 = p1
  p2 = p2
  Processes <- TwoProcesses
  None = None
  MaxReceipts = 2
  MaxRuns = 2
  MaxStale = 2
  MaxRounds = 2
  MaxEvents = 2
INVARIANTS TypeOK OneMemoryEach OneTurn
PROPERTIES LateResultsRefused NothingLeftBehind FailedRangeHeld ImplementsLedger RunsSettle
CHECK_DEADLOCK FALSE
