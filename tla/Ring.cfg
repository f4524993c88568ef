SPECIFICATION Spec
CONSTANTS
  Cap = 4
  Frame = {f, g}
  Silence = Silence
  MaxBatch = 3
INVARIANTS
  NoTornFrame
PROPERTIES
  ImplementsQueue
