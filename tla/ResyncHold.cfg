SPECIFICATION Spec
CONSTANTS
  Delay = 1
  Lead = 2
  CrcEvery = 2
  CrcSlots = 2
  PendMax = 2
  NChunks = 2
  ChunkSize = 2
  ReadMax = 2
  MaxTick = 6
  MaxGlitches = 1
  Mortal = FALSE
INVARIANTS
  ResumesAlike
CHECK_DEADLOCK FALSE
