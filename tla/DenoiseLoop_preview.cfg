\* Requests for previews, through both loops.
CONSTANTS
  Subjects = {"loops"}
  Tensors = {"x", "y", "dense"}
  Operators <- MCOperators
  MaxOps = 2
  Caches = {"slot"}
  CacheTensor <- MCCacheTensor
  KeepsBatch = {}
  Sources = {"x", "y"}
  MaxBatches = 2
  MaxViews = 2
  Graphs <- MCGraphs
  Requests <- MCRequests
SPECIFICATION Spec
INVARIANTS
  PreviewNeverFailsTheRun
CHECK_DEADLOCK FALSE
