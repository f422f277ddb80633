\* One backend, one receipt: the transaction that gives the slot back fails.
SPECIFICATION ShutdownSpec
CONSTANTS
  p1 = p1
  p2 = p2
  Processes <- OneProcess
  None = None
  MaxReceipts = 1
  MaxRuns = 1
  MaxStale = 3
  MaxRounds = 3
  MaxEvents = 1
PROPERTY TurnReturned
CHECK_DEADLOCK FALSE
