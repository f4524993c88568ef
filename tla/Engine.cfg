SPECIFICATION Spec
CONSTANTS
  Channel = {h1, h2}
  Peer = {p1, p2}
  Slots = 2
  MaxRecv = 1
  InboxCap = 1
  None = None
SYMMETRY Symmetry
INVARIANTS
  TransmitOnlyInChannel
  AtMostOneStrayFrame
  UncutFrameKeepsItsChannel
  OneStreamPerPeer
  FrameReachesItsStream
PROPERTIES
  ImplementsCalls
