SPECIFICATION Spec
CONSTANTS
  Slots = 5
  MaxDepth = 3
  TargetDepth = 2
  Wrap = 8
  Frame = {f, g}
  Silence = Silence
INVARIANTS
  LevelExact
  NeverTooFull
PROPERTIES
  ImplementsQueue
