SPECIFICATION Spec
CONSTANTS
  Names = {h1, h2}
  Unreadable = Unreadable
  None = None
  SameSecond = FALSE
  DiskFaults = TRUE
  MaxSecond = 3
SYMMETRY NameSymmetry
INVARIANTS
  TypeOK
  Recoverable
