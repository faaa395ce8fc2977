SPECIFICATION Spec
CONSTANTS
  Tasks = {t1, t2}
  Hosts = {h1, h2}
  Workspaces = {w1, w2, w3}
  Tunnels = {n1, n2, n3}
  None = None
  Unknown = Unknown
  Tools = {"create", "configure", "abandon", "remove", "disconnect"}
  Faults = {"reboot", "slow", "restart", "cut"}
SYMMETRY Interchangeable
INVARIANTS
  BoundIsLeased
  SoleUser
  LeaseInv
PROPERTY NoTakeover
