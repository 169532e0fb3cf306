SPECIFICATION Spec
CONSTANTS
  Full = 2
  Limit = 1
  HoldTicks = 1
  Gravity = 190
  JumpSpeed = 1550
  SimpleGravity = 49
  SpawnHeight = 800
  Place <- MCPlace
  SpawnPlace <- Ledge
  Backend = {"simple", "physx"}
  View = {"left"}
  None = None
INVARIANTS
  PoseAgrees
  StopsSoon
PROPERTIES
  AirborneLands
  JumpsWhenAsked
  ViewFollows
CHECK_DEADLOCK FALSE
