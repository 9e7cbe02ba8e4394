\* A waiter against the worker that finishes.
CONSTANTS
  h1 = h1
  h2 = h2
  t1 = t1
  t2 = t2
  default = default
  private = private
  None = None
  Handles = {h1}
  Threads = {t1}
  Sessions = {default}
  DefaultSession = default
  Modes = {"generate"}
  Failures = {"RUNTIME"}
  Checkpoints = 1
SPECIFICATION Spec
PROPERTIES
  WaitForeverReturnsTerminal
