SPECIFICATION SystemSpec
CONSTANTS
  Request = {q1, q2, q3}
  Player = {p1, p2, p3}
  Mode = {alpha, beta}
  NumServers = 2
  MaxRooms = 1
  MaxPlayers = 2
  Expire = 2
  Second = 3
  MaxTime = 3
  NumIDs = 2
  MaxLives = 1
  None = None
SYMMETRY Interchangeable
INVARIANTS
  SeatsBounded
  IndexAgrees
  ToldHolds
PROPERTIES
  SharedByName
  RefusalExplained
  ImplementLobbies
CHECK_DEADLOCK FALSE
