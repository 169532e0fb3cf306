SPECIFICATION Spec
CONSTANTS
  Player = {x, y}
  HP = 3
  Damage = 2
  HoldTicks = 1
  SafeTicks = 1
  GameTicks = 4
  None = None
PROPERTY
  NoStaleInput
CHECK_DEADLOCK FALSE
