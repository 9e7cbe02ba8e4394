\* Batches: two of up to two operators on two tensors, and one cache.  The graphs end.
CONSTANTS
  Subjects = {"batches", "graphs", "loops"}
  Tensors = {"x", "y", "dense"}
  Operators <- MCOperators
  MaxOps = 2
  Caches = {"slot"}
  CacheTensor <- MCCacheTensor
  KeepsBatch = {}
  Sources = {"x", "y"}
  MaxBatches = 2
  MaxViews = 2
  Graphs <- MCGraphs
  Requests <- MCRequests
SPECIFICATION Spec
INVARIANTS
  TypeOK
  AccessesOrdered
  NothingStale
  LoopsAgree
  StagesRunAlike
CHECK_DEADLOCK FALSE
