SPECIFICATION Spec
CONSTANTS
  Player = {x, y}
  HP = 3
  Damage = 2
  HoldTicks = 2
  SafeTicks = 1
  GameTicks = 4
  None = None
SYMMETRY Interchangeable
INVARIANTS
  QueueInOrder
  FireOnce
  FutureIsFresh
PROPERTY
  FragsSound
CHECK_DEADLOCK FALSE
