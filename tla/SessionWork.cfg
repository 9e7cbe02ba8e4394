\* Three runs, between which files change; requests two settings away from five to begin with; and sequences packed, cut
\* into chunks and put on a canvas.
CONSTANTS
  Subjects = {"requests", "runs", "packing"}
  Files = {"a", "vae", "encoder", "tokenizer"}
  Contents = {1, 2}
  Requests <- MCRequests
  MaxRuns = 3
  Faults = {}
  None = None
  Hosts <- MCHosts
  Starts <- MCStarts
  ImageLimit = 2
  MediaLimit = 2
  MaxSettings = 2
  NoRequest = NoRequest
  Jobs <- MCJobs
  TimeLevels = {0, 1, 2, 3}
  Bands <- MCBands
  VideoChannels = 2
SPECIFICATION Spec
INVARIANTS
  TypeOK
  CachesMatchKeys
  UsesOwnInputs
  OnlyKnownLateRefusals
  DistilledKeepsItsRecipe
  PacksRight
CHECK_DEADLOCK FALSE
