SPECIFICATION Spec
CONSTANTS
  Connector = {k1, k2}
  None = None
INVARIANTS
  UiNeverHangs
CHECK_DEADLOCK FALSE
