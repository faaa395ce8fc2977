SPECIFICATION Spec
CONSTANTS
  c1 = c1  c2 = c2
  w1 = w1  w2 = w2  noid = noid
  s1 = s1  s2 = s2
  Conns = {c1, c2}
  Workspaces = {w1, noid}
  Sessions = {s1}
  Paths <- MCPaths
  Covers <- MCCovers
  None = None
  Folders <- MCFolders
  FolderOf <- MCFolderOf
  Inside <- MCInside
  Listed <- MCListed
  OldFolders <- MCOldFolders
  OldSessions <- MCOldSessions
  Kinds = {"shell", "reply", "workspace", "session"}
  SameMilli = FALSE
  WriteFaults = FALSE
  UnlinkFaults = FALSE
  MaxClock = 2
SYMMETRY ConnSymmetry
INVARIANTS
  NoRunWithoutConsent
  NothingComesBack
