SPECIFICATION Spec
CONSTANTS
  Clients = {a, b, c}
  Names = {m, n}
  MaxSeats = 2
  Builds <- Renaming
  None = None
SYMMETRY Symmetry
INVARIANTS
  Directory
