SPECIFICATION Spec
CONSTANTS
  c1 = c1  c2 = c2
  w1 = w1  w2 = w2  noid = noid
  s1 = s1  s2 = s2
  Conns = {c1, c2}
  Workspaces = {w1, w2}
  Sessions = {s1, s2}
  Paths <- MCPaths
  Covers <- MCCovers
  None = None
  Folders <- MCFolders
  FolderOf <- MCFolderOf
  Inside <- MCInside
  Listed <- MCListed
  OldFolders <- MCOldFolders
  OldSessions <- MCOldSessions
  Kinds = {"shell", "reply"}
  SameMilli = FALSE
  WriteFaults = TRUE
  UnlinkFaults = FALSE
  MaxClock = 3
SYMMETRY PairSymmetry
INVARIANTS
  TypeOK
  OnceIsSingleUse
  OnceInv
  AlwaysInv
  ConsentInv
PROPERTIES
  NoAskAfterAlways
  ImplementsLedger
