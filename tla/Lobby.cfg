SPECIFICATION FairSpec
CONSTANTS
  Counts = {0, 1, 2}
  Nothing = Nothing
INVARIANTS
  TypeOK
  NoLostWakeup
PROPERTIES
  OncePerSecond
  SaysGoodbye
  Published
CHECK_DEADLOCK FALSE
