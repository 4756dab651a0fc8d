\* The console's receive and send path with one abandoned or refused
\* transaction and one reset.
CONSTANTS
  ByteSize = 3
  RingSize = 7
  RxSize = 4
  ReadMax = 4
  MaxLen = 2
  Lens <- MCLens
  Script <- MCScript
  MaxWrites = 2
  MaxFaults = 1
  MaxResets = 1
SPECIFICATION FairSpec
INVARIANTS
  TypeOK
  RingHolds
  FramesIntact
  WritesIntact
PROPERTIES
  AllRead
CHECK_DEADLOCK FALSE
