\* Two lives of the worker, a chain of rows with every kind of copy; a fault of any kind.
SPECIFICATION FairSpec
CONSTANTS
  w1 = w1
  w2 = w2
  Workers <- TwoWorkers
  None = None
  Rows <- ThreeRows
  Links <- Chain
  Nullable = {}
  Jobs = {2}
  FileRows = {2}
  Store <- Stores
  MaxFailures = 2
  MaxEvents = 1
INVARIANTS TypeOK CompletedMeansErased AckedStaysErased
PROPERTIES OthersFilesKept ErasureEnds
CHECK_DEADLOCK FALSE
