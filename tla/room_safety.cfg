SPECIFICATION Spec
CONSTANTS
  Room = {r1}
  Player = {p1, p2, p3}
  Caller = {c1, c2}
  MaxPlayers = 2
  NumSpawns = 2
  QueueCap = 2
  GameTicks = 2
SYMMETRY Interchangeable
INVARIANTS
  RosterSound
  FullRoomStarted
  NoSlotLeak
PROPERTIES
  ImplementsGame
