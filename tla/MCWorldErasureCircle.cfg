\* One worker, no fault, a beat and the post it published.
SPECIFICATION Spec
CONSTANTS
  w1 = w1
  w2 = w2
  Workers <- OneWorker
  None = None
  Rows <- TwoRows
  Links <- Circle
  Nullable <- Circle
  Jobs = {}
  FileRows = {}
  Store <- NoStores
  MaxFailures = 3
  MaxEvents = 0
INVARIANT CyclesBroken
CHECK_DEADLOCK FALSE
