CONSTANTS
  Consoles = {c1, c2, c3}
  MaxUp = 1
  MaxFaults = 1
SPECIFICATION FairSpec
INVARIANTS
  TypeOK
  ScreenTruth
  SeatsAgree
PROPERTIES
  StartedMeets
CHECK_DEADLOCK FALSE
