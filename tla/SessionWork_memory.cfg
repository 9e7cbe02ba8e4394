\* Copying the embedding runs out of memory.
CONSTANTS
  Subjects = {"runs"}
  Files = {"a", "b", "vae", "encoder", "tokenizer"}
  Contents = {1, 2}
  Requests <- MCFewRequests
  MaxRuns = 3
  Faults = {"memory"}
  None = None
  Hosts <- MCHosts
  Starts <- MCStarts
  ImageLimit = 2
  MediaLimit = 2
  MaxSettings = 2
  NoRequest = NoRequest
  Jobs = {}
  TimeLevels = {0, 1, 2, 3}
  Bands <- MCBands
  VideoChannels = 2
SPECIFICATION Spec
INVARIANTS
  PromptMatchesKey
