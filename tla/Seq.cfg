SPECIFICATION LinkSpec
CONSTANTS
  W = 64
  Window = 3
  Firsts = {0, 20}
  MaxSent = 4
  Interval = 2
  MaxTime = 6
INVARIANTS
  LossNotOverstated
  LossExact
  RttSound
CHECK_DEADLOCK FALSE
