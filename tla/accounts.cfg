SPECIFICATION Spec
CONSTANTS
  Caller = {c1, c2}
  Settlers = {c1, c2}
  Email = {e1, e2}
  Game = {g1, g2}
  Gun = {1}
  Prices = {1300}
  MaxUsers = 2
  Level <- MCLevel
  StartCoins = 1000
SYMMETRY Interchangeable
INVARIANTS
  AnswersTrue
  SettledOnce
  CoinsAccounted
  GunOnce
PROPERTIES
  OwnedUnlessPaid
  LevelFollowsExp
CHECK_DEADLOCK FALSE
