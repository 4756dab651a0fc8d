CONSTANTS
  Consoles = {c1, c2, c3}
  MaxUp = 1
  MaxFaults = 1
SPECIFICATION Spec
INVARIANTS
  BackInLobby
CHECK_DEADLOCK FALSE
