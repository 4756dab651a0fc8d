CONSTANTS
  Seats = 2
  PerIP = 8
  ListMax = 8
  CrcCap = 4
  SeedSet = {1, 2}
  Cases <- Claimed
SPECIFICATION Spec
INVARIANTS
  GateTrusts
  Catches
  TranscriptsAgree
CHECK_DEADLOCK FALSE
