SPECIFICATION Spec
CONSTANTS
  Channel = {h1, h2}
  None = None
  Level = {0, 100}
  MaxQueue = 3
SYMMETRY Symmetry
INVARIANTS
  OnAirIsShown
  TalkGoesWherePressed
  SilenceIsShown
  MuteHolds
  ServerAgrees
CHECK_DEADLOCK FALSE
