SPECIFICATION Spec
CONSTANTS
  Channel = {h1, h2}
  Job = {j1, j2}
  None = None
INVARIANTS
  TalkEndsUnlessRushed
  ScreenAgreesUnlessRushed
  ConnectButtonReturns
CHECK_DEADLOCK FALSE
