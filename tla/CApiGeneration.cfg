\* Two host threads, two generations, one private session besides the default one.
CONSTANTS
  h1 = h1
  h2 = h2
  t1 = t1
  t2 = t2
  default = default
  private = private
  None = None
  Handles = {h1, h2}
  Threads = {t1, t2}
  Sessions = {default, private}
  DefaultSession = default
  Modes = {"generate", "upscale"}
  Failures = {"RUNTIME"}
  Checkpoints = 1
SPECIFICATION Spec
SYMMETRY Symmetry
INVARIANTS
  TypeOK
  ClaimHasOneOwner
  StartableOnceDone
  RefusedOnlyByClear
  ErrorReadableOnceTerminal
  FreedHandleUnused
  BorrowedSamplesStay
PROPERTIES
  OutcomeIsFinal
  SerialSpec
