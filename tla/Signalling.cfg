SPECIFICATION RosterSpec
CONSTANTS
  Client = {c1, c2}
  Channel = {h1, h2}
  Addr = {}
  None = None
SYMMETRY Symmetry
INVARIANTS
  TypeOK
  MembershipAgrees
  EveryMemberAnnounced
  SpeechIsShown
PROPERTIES
  ImplementsBoard
CHECK_DEADLOCK FALSE
