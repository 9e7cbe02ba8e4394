\* Three buffers of every kind fragment and refill two blocks of eight units; two processes that save
\* and read one archive and die; two threads that share one fingerprint entry between two
\* files; documents that grow by four symbols; texts of the tokenizer's splits and merges; weights of
\* every format as their file may hold them; and stacks of two formats, in rows below, at and
\* above a chunk.
CONSTANTS
  Subjects = {"pool", "archives", "fingerprints", "json", "tokenizer", "weights", "memory"}
  b1 = b1
  b2 = b2
  b3 = b3
  Buffers = {b1, b2, b3}
  BlockIds = {1, 2}
  BlockBytes = 8
  HeapBytes = 256
  Atom = 2
  MemoryTypes <- MCMemoryTypes
  Requests <- MixedRequests
  s1 = s1
  s2 = s2
  r1 = r1
  ArchiveSavers = {s1, s2}
  ArchiveReaders = {r1}
  ProcessOf <- MCProcessOf
  MaxSaves = 3
  Blank = Blank
  Callers = {t1, t2}
  Paths = {p1, p2}
  MaxEntries = 1
  MaxWrites = 2
  Missing = Missing
  Beginnings <- MCBeginnings
  Growth = 4
  MaxDepth = 1
  Letters = {"s", "r", "e"}
  Numbers = {"1"}
  Newlines = {"n"}
  Blanks = {" ", "t"}
  Marks = {"!", "'"}
  Space = " "
  Apostrophe = "'"
  Contractions <- MCContractions
  Shifted <- MCShifted
  IdSlack = 4
  Samples <- MCSamples
  H3Tokens <- MCH3Tokens
  FirstH3Id = 20
  Archives <- MCArchives
  HeadDim = 2
  PackOf = 4
  NvBlock = 8
  TileRows = 4
  LaneRows = 2
  TileCols = 2
  NfBlock = 4
  NfNested = 2
  RotationGroup = 16
  Hidden = 672
  Inner = 896
  Ffn = 1792
  TextDim = 640
  TimestepDim = 336
  ScratchAlign = 4
  RowChunk = 256
  GroupColumns = 32
  NativeRows = 1024
  Stacks <- MCStacks
  Prompts = {0, 1, 300}
  Videos = {0, 1, 700}
  Timesteps = {1, 4}
SPECIFICATION Spec
SYMMETRY Symmetry
INVARIANTS
  TypeOK
  PoolIsSound
  FingerprintIsCurrent
  TextIsReadRight
  CheckpointReadRight
  ArenaSuffices
PROPERTY ReplacesAtomically
CHECK_DEADLOCK FALSE
