SPECIFICATION FairSpec
CONSTANTS
  WordSize = 10
  RingSize = 5
  Delay = 1
  Timeout = 2
  MaxTicks = 11
  Faulty = {0}
INVARIANTS
  TypeOK
  InputAgreement
  RightInputs
  BoundedDrift
  NoMutualStall
PROPERTIES
  ImplementsSharedMatch
  SurvivorEnds
CHECK_DEADLOCK FALSE
