SPECIFICATION Spec
CONSTANTS
  Clients = {a, b, c}
  Names = {k, m, n}
  MaxSeats = 3
  Builds <- Served
  None = None
SYMMETRY Symmetry
INVARIANTS
  TypeOK
  Directory
  RoomsSound
  ToldTruth
  CountCurrent
PROPERTIES
  AnyDropEndsMatch
