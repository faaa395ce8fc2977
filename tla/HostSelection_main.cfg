SPECIFICATION Spec
CONSTANTS
  Workspaces = {w1, w2}
  Labels = {"gpu"}
  Configs <- MCConfigs
  None = None
SYMMETRY WorkspaceSymmetry
INVARIANTS
  TypeOK
  LeasesAreUses
PROPERTIES
  OwnersRelease
  KeepsItsHost
  RefusedOnlyIfTaken
  ImplementsTable
