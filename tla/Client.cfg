SPECIFICATION Spec
CONSTANTS
  Connector = {k1, k2}
  None = None
INVARIANTS
  ButtonsSettle
  OneConnectorUntilLost
  HarmNeedsLossOrHaste
CHECK_DEADLOCK FALSE
