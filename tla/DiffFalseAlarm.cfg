CONSTANTS
  Seats = 2
  PerIP = 8
  ListMax = 8
  CrcCap = 4
  SeedSet = {1, 2}
  Cases <- Correct
SPECIFICATION Spec
INVARIANT
  AnythingElseIsReal
CHECK_DEADLOCK FALSE
