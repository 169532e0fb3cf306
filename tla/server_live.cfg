SPECIFICATION FairSpec
CONSTANTS
  Room = {r1}
  Player = {p1, p2}
  Session = {s1, s2, s3}
  RoomID = {a}
  Token <- SecondLogin
  MaxPlayers = 2
  NumSpawns = 2
  QueueCap = 1
  GameTicks = 1
  MaxRooms = 1
  MaxMessages = 1
  NoRoom = NoRoom
  NoID = NoID
  p1 = p1
  p2 = p2
  s1 = s1
  s2 = s2
  s3 = s3
  a = a
  b = b
INVARIANTS
  OnlyDropsOrphan
  EntriesOwned
PROPERTIES
  JoinAnswered
  GamesConclude
  ClosedPlayerLeaves
  HandlersReturn
CHECK_DEADLOCK FALSE
