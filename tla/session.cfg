SPECIFICATION FairSpec
CONSTANTS
  WriteQueueSize = 2
  MaxSnapshots = 4
INVARIANTS
  NewestKept
  EndedMeansClosed
PROPERTIES
  CloseEndsSession
  StopEndsSession
CHECK_DEADLOCK FALSE
