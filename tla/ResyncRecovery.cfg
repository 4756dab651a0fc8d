SPECIFICATION FairSpec
CONSTANTS
  Delay = 1
  Lead = 2
  CrcEvery = 2
  CrcSlots = 2
  PendMax = 2
  NChunks = 2
  ChunkSize = 2
  ReadMax = 2
  MaxTick = 5
  MaxGlitches = 1
  Mortal = TRUE
INVARIANTS
  TypeOK
  SameStory
  WholeImage
  NoticedDivergence
  PushesBounded
PROPERTIES
  HoldEnds
CHECK_DEADLOCK FALSE
