SPECIFICATION Spec
CONSTANTS
  Names = {h1, h2}
  Unreadable = Unreadable
  None = None
  SameSecond = TRUE
  DiskFaults = FALSE
  MaxSecond = 3
SYMMETRY NameSymmetry
INVARIANT Recoverable
