SPECIFICATION Spec
CONSTANTS
  Device = {d1, d2}
  User = {u1}
  UserOf <- TwoDevices
  Second = 2
  TokenExpire = 1
  RefreshExpire = 2
  Faults = TRUE
  MaxTime = 4
  None = None
  d1 = d1
  d2 = d2
  u1 = u1
SYMMETRY Interchangeable
INVARIANTS
  GivenIsKnown
  KnownToTheLast
CHECK_DEADLOCK FALSE
