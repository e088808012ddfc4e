SPECIFICATION Spec
CONSTANTS
  Chunks = {"text"}
  MayTimeout <- NoTimeouts
  MayDie = {}
  MaxChunks = 2
  MaxSamples = 1
INVARIANT EverythingForwarded
CHECK_DEADLOCK FALSE
