\* Up to three frames through queues of two; two threads, two slots and three submissions; kernels over
\* five or six keys; one generation and two threads that call.  Children may hang, and a destroyed
\* context or the bound on submissions stops the slots; a kernel ends.
CONSTANTS
  Resources = {"queues", "slots", "barriers", "calls"}
  MaxFrames = 3
  Capacity = 2
  None = None
  Threads = {t1, t2}
  Buffers = {b1}
  MaxInFlight = 2
  MaxValue = 3
  GroupThreads = 4
  WarpThreads = 2
  TileKeys = 4
  TileRows = 2
  CoopSize = 2
  HeadDim = 2
  Under = 6
  HalfUnder = 3
  KernelCases <- MCKernelCases
  Handles = {h1}
  Sessions = {default, private}
  DefaultSession = default
  Modes = {"generate", "upscale"}
  Failures = {"RUNTIME"}
  Checkpoints = 1
SPECIFICATION MCSpec
INVARIANTS
  TypeOK
  VideoIsComplete
  EndsWell
  SlotsKept
  KernelsAttend
PROPERTIES
  CommandEnds
  WaitsEnd
  RunsEndAndRelease
  CallsReturn
CHECK_DEADLOCK FALSE
