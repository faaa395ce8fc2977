SPECIFICATION Spec
CONSTANTS
  w1 = w1  w2 = w2  w3 = w3
  h1 = h1  h2 = h2
  Workspaces = {w1, w2, w3}
  Harness = {w2}
  Hosts = {h1, h2}
  HostOf <- MCHostOf
  First = 1
  Last = 3
  InitialPort <- MCInitialPort
  Pids = {n1, n2, n3}
  Starts = 2
  Earlier = Earlier
  Left = {h1}
  None = None
  StrangerPorts = {3}
  Faults <- AllFaults
SYMMETRY PidSymmetry
INVARIANTS
  TypeOK
  TokenInForce
  TokenInv
  Accounted
PROPERTIES
  EveryPortTried
  CallAdvances
CHECK_DEADLOCK FALSE
