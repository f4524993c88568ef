SPECIFICATION FairSpec
CONSTANTS
  Client = {c1, c2}
  Channel = {h1}
  Addr = {a1, a2}
  None = None
INVARIANTS
  GoneLeavesNothing
  ReverseLookupSound
  AtMostOneLatePacket
PROPERTIES
  TasksFinish
  BecomesReachable
CHECK_DEADLOCK FALSE
