SPECIFICATION Spec
CONSTANTS
  Tokens = {0, 1}
  Stop = 0
  Prompt <- McPrompt
  GenBegin = 2
  Cached = {0, 1}
  PfChunk = 2
  TimeSlice = 1
  NCtx = 7
  Kinds <- McKinds
INVARIANTS MTypeOK Settled NextnAligned WithinContext
PROPERTY ImplementsGreedy
CHECK_DEADLOCK FALSE
