SPECIFICATION Spec
CONSTANTS
  Channel = {h1}
  Peer = {p1}
  Slots = 1
  MaxRecv = 1
  InboxCap = 1
  None = None
INVARIANTS
  StreamOutlivesUse
