SPECIFICATION Spec
CONSTANTS
  Tasks = {t1}
  Hosts = {h1, h2}
  Workspaces = {w1, w2, w3}
  Tunnels = {n1, n2, n3}
  None = None
  Unknown = Unknown
  Tools <- AllTools
  Faults = {"tunnel", "reboot", "slow", "stall", "restart"}
SYMMETRY Interchangeable
INVARIANTS
  TypeOK
  BoundIsLeased
  LeaseAccounted
PROPERTY HealthyStays
