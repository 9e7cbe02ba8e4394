\* The cuBLAS attention against what its comment says of the accumulator.
CONSTANTS
  Resources = {"barriers"}
  MaxFrames = 3
  Capacity = 2
  None = None
  Threads = {t1, t2}
  Buffers = {b1}
  MaxInFlight = 2
  MaxValue = 3
  GroupThreads = 4
  WarpThreads = 2
  TileKeys = 4
  TileRows = 2
  CoopSize = 2
  HeadDim = 2
  Under = 6
  HalfUnder = 3
  KernelCases <- MCGemmCases
  Handles = {h1}
  Sessions = {default, private}
  DefaultSession = default
  Modes = {"generate", "upscale"}
  Failures = {"RUNTIME"}
  Checkpoints = 1
SPECIFICATION MCSpec
INVARIANTS
  NeverAddsUnrescaled
CHECK_DEADLOCK FALSE
