SPECIFICATION Spec
CONSTANTS
  Tasks = {t1, t2}
  Hosts = {h1}
  Workspaces = {w1, w2}
  Tunnels = {n1, n2, n3}
  None = None
  Unknown = Unknown
  Tools = {"create", "status", "remove"}
  Faults = {"tunnel"}
SYMMETRY Interchangeable
INVARIANT OneWorkspacePerHost
