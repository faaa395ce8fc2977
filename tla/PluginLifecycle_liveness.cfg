SPECIFICATION FairSpec
CONSTANTS
  Tasks = {t1, t2}
  Hosts = {h1}
  Workspaces = {w1}
  Tunnels = {n1}
  None = None
  Unknown = Unknown
  Tools <- AllTools
  Faults = {"tunnel", "stall"}
PROPERTY InvocationEnds
