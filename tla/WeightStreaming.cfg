SPECIFICATION FairSpec
CONSTANTS
  Clients = {"transformer", "encoder", "uploader", "load"}
  NumBlocks = 3
  CacheSpans <- MCCacheSpans
  MaxSequences = 2
  MaxForwards = 3
  NumLayers = 3
  MaxLoads = 2
  MaxEncodes = 2
  StageUnits = 2
  TensorSizes = {1, 3}
  MaxTensors = 3
  BlockSizes <- MCBlockSizes
  FixedBytes = 1
  Budgets = {0, 6, 9, 100}
  Unlimited = 1000
INVARIANTS
  TypeOK
  StreamsAreOrdered
  LoadsCompleteOrRetries
PROPERTY CallsEnd
CHECK_DEADLOCK FALSE
