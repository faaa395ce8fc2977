SPECIFICATION FairSpec
CONSTANTS
  Requests = {r1}
  Others = {s1}
  Clients = {c1, c2}
  BufSize = 1
  WriteFaults = TRUE
INVARIANTS
  TypeOK
  NothingMissed
  NoGhost
PROPERTIES
  PublishEnds
  GoneForgotten
CHECK_DEADLOCK FALSE
