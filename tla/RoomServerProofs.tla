-------------------------- MODULE RoomServerProofs --------------------------
(***************************************************************************)
(* Theorems about a server of any number of sessions, rooms, room ids and    *)
(* players.                                                                *)
(***************************************************************************)
EXTENDS RoomServer, SequenceTheorems, TLAPS

-----------------------------------------------------------------------------
(* Types of what the manager and the handlers keep.                        *)

ManagerTyped ==
  /\ loop \in [Room -> {"none", "running", "finishing", "exited"}]
  /\ idOf \in [Room -> RoomID \cup {NoID}]
  /\ rooms \in [RoomID -> Room \cup {NoRoom}]
  /\ playerRooms \in [Player -> RoomID \cup {NoID}]
  /\ bound \in [Session -> (Player \X RoomID) \cup {Unbound}]
  /\ op \in [Session -> Op]

\* Handlers that have looked the room up.
InRoom == [at : {"join", "joining", "record", "leaving", "asking"},
           player : Player, id : RoomID, room : Room]
Creating == [at : {"create"}, player : Player, id : RoomID]

LEMMA OpCases ==
  ASSUME ManagerTyped, NEW s \in Session
  PROVE  /\ op[s].at \in {"idle", "create"} \/ op[s] \in InRoom
         /\ op[s].at = "create" => op[s] \in Creating
<1>1. op[s] \in Op
  BY DEF ManagerTyped
<1>2. CASE op[s] \in [at : {"idle"}]
  BY <1>2
<1>3. CASE op[s] \in Creating
  BY <1>3 DEF Creating
<1>4. CASE op[s] \in InRoom
  BY <1>4 DEF InRoom
<1> QED
  BY <1>1, <1>2, <1>3, <1>4 DEF Op, InRoom, Creating

LEMMA InRoomMoves ==
  ASSUME NEW o \in InRoom, NEW step \in {"joining", "record"}
  PROVE  [o EXCEPT !.at = step] \in InRoom
BY DEF InRoom

LEMMA GotoTyped ==
  ASSUME ManagerTyped, NEW s \in Session, NEW o, Goto(s, o),
         o = Idle \/ o \in Creating \/ o \in InRoom
  PROVE  op' \in [Session -> Op]
<1>1. o \in Op
  BY DEF Idle, Op, Creating, InRoom
<1> QED
  BY <1>1 DEF ManagerTyped, Goto

\* What a step of a room's goroutine does to the loops: none starts.
LEMMA LoopOnlyEnds ==
  ASSUME ManagerTyped, NEW r \in Room, R!LoopStep(r)
  PROVE  /\ loop' \in [Room -> {"none", "running", "finishing", "exited"}]
         /\ \A q \in Room : loop'[q] = "running" => loop[q] = "running"
<1>1. CASE R!HandleEvent(r) \/ R!ReleaseJoinSlot(r)
  <2>1. UNCHANGED loop
    BY <1>1 DEF R!HandleEvent, R!HandleJoin, R!HandleLeave, R!HandleInput,
                R!ReleaseJoinSlot, R!loopVars
  <2> QED
    BY <2>1 DEF ManagerTyped
<1>2. CASE R!Tick(r)
  BY <1>2 DEF R!Tick, ManagerTyped
<1>3. CASE R!FinishExit(r) \/ R!StopExit(r)
  BY <1>3 DEF R!FinishExit, R!StopExit, ManagerTyped
<1> QED
  BY <1>1, <1>2, <1>3 DEF R!LoopStep

-----------------------------------------------------------------------------
(* What each action does to loop, idOf, rooms and op.                      *)

LEMMA JoinRoomTyped ==
  ASSUME RoomServerAssumption, ManagerTyped,
         NEW s \in Session, NEW p \in Player, NEW i \in RoomID, JoinRoom(s, p, i)
  PROVE  op' \in [Session -> Op]
<1>1. CASE rooms[i] = NoRoom
  <2>1. [at |-> "create", player |-> p, id |-> i] \in Creating
    BY DEF Creating
  <2> QED
    BY <1>1, <2>1, GotoTyped DEF JoinRoom
<1>2. CASE rooms[i] # NoRoom
  <2>1. [at |-> "join", player |-> p, id |-> i, room |-> rooms[i]] \in InRoom
    BY <1>2 DEF InRoom, ManagerTyped
  <2> QED
    BY <1>2, <2>1, GotoTyped DEF JoinRoom
<1> QED
  BY <1>1, <1>2

LEMMA FindRoomTyped ==
  ASSUME RoomServerAssumption, ManagerTyped, NEW s \in Session, FindRoom(s)
  PROVE  op' \in [Session -> Op]
<1>1. op[s] \in Creating /\ rooms[op[s].id] # NoRoom
  BY OpCases DEF FindRoom, FoundRoom
<1>2. [at |-> "join", player |-> op[s].player, id |-> op[s].id,
       room |-> rooms[op[s].id]] \in InRoom
  BY <1>1 DEF Creating, InRoom, ManagerTyped
<1> QED
  BY <1>2, GotoTyped DEF FindRoom

\* The room that is made has an id that had no room.
LEMMA CreateRoomFacts ==
  ASSUME RoomServerAssumption, ManagerTyped, NEW s \in Session, NEW r \in Room,
         CreateRoom(s, r)
  PROVE  \E i \in RoomID :
           /\ rooms[i] = NoRoom
           /\ loop[r] = "none"
           /\ loop' = [loop EXCEPT ![r] = "running"]
           /\ idOf' = [idOf EXCEPT ![r] = i]
           /\ rooms' = [rooms EXCEPT ![i] = r]
           /\ op' \in [Session -> Op]
<1>1. op[s] \in Creating /\ rooms[op[s].id] = NoRoom
  BY OpCases DEF CreateRoom, FoundRoom
<1>2. op[s].id \in RoomID /\ op[s].player \in Player
  BY <1>1 DEF Creating
<1>3. [at |-> "join", player |-> op[s].player, id |-> op[s].id, room |-> r]
        \in InRoom
  BY <1>2 DEF InRoom
<1>4. op' \in [Session -> Op]
  BY <1>3, GotoTyped DEF CreateRoom
<1>5. loop[r] = "none" /\ loop' = [loop EXCEPT ![r] = "running"]
  BY DEF CreateRoom, R!Start
<1> QED
  BY <1>1, <1>2, <1>4, <1>5 DEF CreateRoom

\* What LeaveRoom leaves behind.
LEMMA LeaveRoomTyped ==
  ASSUME RoomServerAssumption, ManagerTyped, NEW s \in Session,
         bound[s] # Unbound, LeaveRoom(s)
  PROVE  /\ playerRooms' \in [Player -> RoomID \cup {NoID}]
         /\ bound' \in [Session -> (Player \X RoomID) \cup {Unbound}]
         /\ op' \in [Session -> Op]
         /\ UNCHANGED <<loop, idOf, rooms>>
<1> DEFINE p == bound[s][1]
           i == bound[s][2]
           target == IF StaleLeave(p, i) \/ playerRooms[p] = NoID
                     THEN NoRoom ELSE rooms[playerRooms[p]]
           next == IF target = NoRoom THEN Idle
                   ELSE [at |-> "leaving", player |-> p, id |-> i, room |-> target]
<1>1. p \in Player /\ i \in RoomID
  BY DEF ManagerTyped
<1>2. target \in Room \cup {NoRoom}
  BY <1>1 DEF ManagerTyped, StaleLeave
<1>3. next = Idle \/ next \in InRoom
  BY <1>1, <1>2 DEF InRoom
<1>4. Goto(s, next)
  BY DEF LeaveRoom
<1> HIDE DEF next
<1>5. op' \in [Session -> Op]
  BY <1>3, <1>4, GotoTyped
<1>6. playerRooms' \in [Player -> RoomID \cup {NoID}]
  BY <1>1 DEF LeaveRoom, ManagerTyped
<1>7. bound' \in [Session -> (Player \X RoomID) \cup {Unbound}]
  BY DEF LeaveRoom, ManagerTyped
<1> QED
  BY <1>5, <1>6, <1>7 DEF LeaveRoom, roomVars

LEMMA FinishRoomTyped ==
  ASSUME RoomServerAssumption, ManagerTyped, NEW r \in Room, FinishRoom(r)
  PROVE  /\ rooms' \in [RoomID -> Room \cup {NoRoom}]
         /\ playerRooms' \in [Player -> RoomID \cup {NoID}]
         /\ rooms' = rooms \/ rooms' = RoomsWithout(r)
         /\ UNCHANGED <<loop, idOf, bound, op>>
<1>1. RoomsWithout(r) \in [RoomID -> Room \cup {NoRoom}]
  BY DEF RoomsWithout, ManagerTyped
<1>2. UNCHANGED <<loop, idOf, bound, op>>
  BY DEF FinishRoom, roomVars, sessionVars
<1>3. CASE players[r] = {}
  BY <1>2, <1>3 DEF FinishRoom, ManagerTyped
<1>4. CASE players[r] # {}
  BY <1>1, <1>2, <1>4 DEF FinishRoom, ManagerTyped
<1> QED
  BY <1>3, <1>4

\* A handler on its way through JoinRoom.
LEMMA JoiningTyped ==
  ASSUME RoomServerAssumption, ManagerTyped, NEW s \in Session,
         EnterJoin(s) \/ JoinStep(s) \/ RecordPlayer(s)
  PROVE  /\ playerRooms' \in [Player -> RoomID \cup {NoID}]
         /\ bound' \in [Session -> (Player \X RoomID) \cup {Unbound}]
         /\ op' \in [Session -> Op]
         /\ UNCHANGED <<loop, idOf, rooms>>
<1>1. CASE EnterJoin(s)
  <2>1. op[s] \in InRoom
    BY <1>1, OpCases DEF EnterJoin
  <2>2. op' \in [Session -> Op]
    BY <1>1, <2>1, InRoomMoves, GotoTyped DEF EnterJoin
  <2> QED
    BY <1>1, <2>2 DEF EnterJoin, R!JoinCheck, R!loopVars, managerVars, ManagerTyped
<1>2. CASE JoinStep(s)
  <2>1. UNCHANGED <<loop, managerVars, bound>>
    BY <1>2 DEF JoinStep, R!JoinReserve, R!JoinPushFails, R!JoinPush, R!JoinUndo,
                R!loopVars
  <2>2. CASE UNCHANGED op
    BY <2>1, <2>2 DEF managerVars, ManagerTyped
  <2>3. CASE Goto(s, Idle)
    <3>1. op' \in [Session -> Op]
      BY <2>3, GotoTyped
    <3> QED
      BY <2>1, <3>1 DEF managerVars, ManagerTyped
  <2>4. CASE Goto(s, [op[s] EXCEPT !.at = "record"])
    <3>1. op[s] \in InRoom
      BY <1>2, OpCases DEF JoinStep
    <3>2. op' \in [Session -> Op]
      BY <2>4, <3>1, InRoomMoves, GotoTyped
    <3> QED
      BY <2>1, <3>2 DEF managerVars, ManagerTyped
  <2> QED
    BY <1>2, <2>2, <2>3, <2>4 DEF JoinStep
<1>3. CASE RecordPlayer(s)
  <2>1. op[s] \in InRoom
    BY <1>3, OpCases DEF RecordPlayer
  <2>2. op[s].player \in Player /\ op[s].id \in RoomID
    BY <2>1 DEF InRoom
  <2>3. op' \in [Session -> Op]
    BY <1>3, GotoTyped DEF RecordPlayer
  <2> QED
    BY <1>3, <2>2, <2>3 DEF RecordPlayer, roomVars, ManagerTyped
<1> QED
  BY <1>1, <1>2, <1>3

-----------------------------------------------------------------------------
(* The types are inductive, and only a few steps touch the index of rooms.  *)

LEMMA HandlerTyped ==
  ASSUME RoomServerAssumption, ManagerTyped, NEW s \in Session, HandlerStep(s)
  PROVE  /\ ManagerTyped'
         /\ UNCHANGED <<loop, idOf, rooms>> \/ \E r \in Room : CreateRoom(s, r)
<1>1. CASE FindRoom(s)
  <2>1. op' \in [Session -> Op]
    BY <1>1, FindRoomTyped
  <2> QED
    BY <1>1, <2>1 DEF FindRoom, roomVars, managerVars, ManagerTyped
<1>2. CASE CreateFails(s) \/ JoinRefused(s) \/ StatsReturn(s)
  <2>1. UNCHANGED <<roomVars, managerVars, bound>> /\ Goto(s, Idle)
    BY <1>2 DEF CreateFails, JoinRefused, StatsReturn
  <2>2. op' \in [Session -> Op]
    BY <2>1, GotoTyped
  <2> QED
    BY <2>1, <2>2 DEF roomVars, managerVars, ManagerTyped
<1>3. ASSUME NEW r \in Room, CreateRoom(s, r)
      PROVE  ManagerTyped'
  <2>1. PICK i \in RoomID : /\ loop' = [loop EXCEPT ![r] = "running"]
                            /\ idOf' = [idOf EXCEPT ![r] = i]
                            /\ rooms' = [rooms EXCEPT ![i] = r]
                            /\ op' \in [Session -> Op]
    BY <1>3, CreateRoomFacts
  <2>2. /\ loop' \in [Room -> {"none", "running", "finishing", "exited"}]
        /\ idOf' \in [Room -> RoomID \cup {NoID}]
        /\ rooms' \in [RoomID -> Room \cup {NoRoom}]
    BY <2>1 DEF ManagerTyped
  <2> QED
    BY <1>3, <2>1, <2>2 DEF CreateRoom, ManagerTyped
<1>4. CASE EnterJoin(s) \/ JoinStep(s) \/ RecordPlayer(s)
  BY <1>4, JoiningTyped DEF ManagerTyped
<1>5. CASE PushLeave(s)
  <2>1. UNCHANGED <<loop, managerVars>> /\ Goto(s, Idle) /\ LeftBy(s)
    BY <1>5 DEF PushLeave, R!Leave, R!loopVars, roomVars
  <2>2. op' \in [Session -> Op]
    BY <2>1, GotoTyped
  <2>3. bound' \in [Session -> (Player \X RoomID) \cup {Unbound}]
    BY <2>1 DEF LeftBy, ManagerTyped
  <2> QED
    BY <2>1, <2>2, <2>3 DEF managerVars, ManagerTyped
<1> QED
  BY <1>1, <1>2, <1>3, <1>4, <1>5 DEF HandlerStep, managerVars, roomVars,
     FindRoom, CreateFails, JoinRefused, StatsReturn, PushLeave, R!Leave, R!loopVars

\* A message of a session, or its end.
LEMMA MessageTyped ==
  ASSUME RoomServerAssumption, ManagerTyped, NEW s \in Session,
         \/ \E p \in Player, i \in RoomID : JoinRoom(s, p, i)
         \/ AskToLeave(s) \/ Close(s) \/ PlayerInput(s) \/ AskStats(s)
  PROVE  ManagerTyped' /\ UNCHANGED <<loop, idOf, rooms>>
<1>1. ASSUME NEW p \in Player, NEW i \in RoomID, JoinRoom(s, p, i)
      PROVE  ManagerTyped' /\ UNCHANGED <<loop, idOf, rooms>>
  <2>1. op' \in [Session -> Op]
    BY <1>1, JoinRoomTyped
  <2> QED
    BY <1>1, <2>1 DEF JoinRoom, roomVars, managerVars, ManagerTyped
<1>2. CASE bound[s] # Unbound /\ LeaveRoom(s)
  BY <1>2, LeaveRoomTyped DEF ManagerTyped
<1>3. CASE UNCHANGED <<roomVars, managerVars, bound, op>>
  BY <1>3 DEF roomVars, managerVars, ManagerTyped
<1>4. CASE PlayerInput(s)
  BY <1>4 DEF PlayerInput, PushToRoom, R!PushInput, R!loopVars, managerVars,
              ManagerTyped
<1>5. CASE AskStats(s)
  <2> DEFINE i == playerRooms[bound[s][1]]
  <2>1. UNCHANGED <<loop, managerVars, bound>>
    BY <1>5 DEF AskStats, PushToRoom, R!PushInput, R!loopVars
  <2>2. bound[s] \in Player \X RoomID
    BY <1>5 DEF AskStats, ManagerTyped
  <2>3. i \in RoomID /\ rooms[i] \in Room
    BY <1>5, <2>2 DEF AskStats, PushToRoom, ManagerTyped
  <2>4. [at |-> "asking", player |-> bound[s][1], id |-> bound[s][2],
         room |-> rooms[i]] \in InRoom
    BY <2>2, <2>3 DEF InRoom
  <2>5. op' \in [Session -> Op]
    BY <1>5, <2>4, GotoTyped DEF AskStats
  <2> QED
    BY <2>1, <2>5 DEF managerVars, ManagerTyped
<1> QED
  BY <1>1, <1>2, <1>3, <1>4, <1>5 DEF AskToLeave, Close

\* A step of a room, or of the server itself.
LEMMA RoomTyped ==
  ASSUME RoomServerAssumption, ManagerTyped, NEW r \in Room,
         RoomStep(r) \/ StopRoom(r) \/ Shutdown
  PROVE  /\ ManagerTyped'
         /\ UNCHANGED <<idOf, rooms>>
         /\ \A q \in Room : loop'[q] = "running" => loop[q] = "running"
<1>1. UNCHANGED <<managerVars, sessionVars>>
  BY DEF RoomStep, StopRoom, Shutdown, othersVars
<1>2. CASE RoomStep(r)
  BY <1>1, <1>2, LoopOnlyEnds
     DEF RoomStep, managerVars, sessionVars, ManagerTyped
<1>3. CASE StopRoom(r) \/ Shutdown
  <2>1. UNCHANGED loop
    BY <1>3 DEF StopRoom, Shutdown, R!Stop, roomVars
  <2> QED
    BY <1>1, <2>1 DEF managerVars, sessionVars, ManagerTyped
<1> QED
  BY <1>2, <1>3

LEMMA ManagerStep ==
  ASSUME RoomServerAssumption, ManagerTyped, [Next]_vars
  PROVE  ManagerTyped'
<1>1. CASE UNCHANGED vars
  BY <1>1 DEF vars, roomVars, othersVars, managerVars, sessionVars, ManagerTyped
<1>2. ASSUME NEW r \in Room, FinishRoom(r)
      PROVE  ManagerTyped'
  BY <1>2, FinishRoomTyped DEF ManagerTyped
<1>3. CASE Shutdown
  BY <1>3 DEF Shutdown, roomVars, managerVars, sessionVars, ManagerTyped
<1> QED
  BY <1>1, <1>2, <1>3, HandlerTyped, MessageTyped, RoomTyped,
     RoomServerAssumption DEF Next

LEMMA ManagerAlwaysTyped ==
  ASSUME RoomServerAssumption
  PROVE  Spec => []ManagerTyped
<1>1. Init => ManagerTyped
  BY DEF Init, R!Init, ManagerTyped, Op, Idle
<1>2. ManagerTyped /\ [Next]_vars => ManagerTyped'
  BY RoomServerAssumption, ManagerStep
<1> QED
  BY <1>1, <1>2, PTL DEF Spec

-----------------------------------------------------------------------------
(* The index of rooms.                                                     *)

\* RunningIsIndexed, and that the id it looks under is a real one.
IndexInv ==
  \A r \in Room : loop[r] = "running" =>
    /\ idOf[r] \in RoomID
    /\ rooms[idOf[r]] = r

\* A room is made under an id that has none, so that no running room loses its
\* place in the index to it.
LEMMA CreateKeepsIndex ==
  ASSUME RoomServerAssumption, ManagerTyped, IndexInv,
         NEW s \in Session, NEW r \in Room, CreateRoom(s, r)
  PROVE  IndexInv'
<1>1. PICK i \in RoomID : /\ rooms[i] = NoRoom
                          /\ loop' = [loop EXCEPT ![r] = "running"]
                          /\ idOf' = [idOf EXCEPT ![r] = i]
                          /\ rooms' = [rooms EXCEPT ![i] = r]
  BY CreateRoomFacts
<1>2. idOf'[r] = i /\ rooms'[i] = r
  BY <1>1 DEF ManagerTyped
<1>3. ASSUME NEW q \in Room \ {r}, loop'[q] = "running"
      PROVE  idOf'[q] \in RoomID /\ rooms'[idOf'[q]] = q
  <2>1. loop[q] = "running" /\ idOf'[q] = idOf[q]
    BY <1>1, <1>3 DEF ManagerTyped
  <2>2. idOf[q] \in RoomID /\ rooms[idOf[q]] = q
    BY <2>1 DEF IndexInv
  <2>3. idOf[q] # i
    BY <1>1, <2>2 DEF RoomServerAssumption
  <2> QED
    BY <1>1, <2>1, <2>2, <2>3 DEF ManagerTyped
<1> QED
  BY <1>2, <1>3 DEF IndexInv

\* finishRoom takes the entry of a room whose loop has ended, and of no other.
LEMMA FinishKeepsIndex ==
  ASSUME RoomServerAssumption, ManagerTyped, IndexInv, NEW r \in Room, FinishRoom(r)
  PROVE  IndexInv'
<1>1. CASE UNCHANGED rooms
  BY <1>1, FinishRoomTyped DEF IndexInv
<1>2. CASE rooms' = RoomsWithout(r)
  <2>1. loop[r] # "running" /\ UNCHANGED <<loop, idOf>>
    BY FinishRoomTyped DEF FinishRoom
  <2>2. \A q \in Room \ {r} : loop[q] = "running" => rooms'[idOf[q]] = q
    BY <1>2 DEF IndexInv, RoomsWithout
  <2> QED
    BY <2>1, <2>2 DEF IndexInv
<1> QED
  BY <1>1, <1>2, FinishRoomTyped

\* However any number of sessions race in getOrCreateRoom, while rooms finish, stop
\* and are made anew under old ids: the room that runs is the one the manager
\* finds under its id (getOrCreateRoom, finishRoom).
THEOREM RunningAlwaysIndexed == Spec => []RunningIsIndexed
<1>1. Init => IndexInv
  BY DEF Init, R!Init, IndexInv
<1>2. ASSUME ManagerTyped, IndexInv, [Next]_vars
      PROVE  IndexInv'
  <2> USE <1>2, RoomServerAssumption
  <2>1. CASE UNCHANGED <<loop, idOf, rooms>>
    BY <2>1 DEF IndexInv
  <2>2. CASE UNCHANGED <<idOf, rooms>>
             /\ \A q \in Room : loop'[q] = "running" => loop[q] = "running"
    BY <2>2 DEF IndexInv
  <2>3. CASE UNCHANGED vars
    BY <2>1, <2>3 DEF vars, roomVars, othersVars, managerVars
  <2>4. CASE Shutdown
    BY <2>1, <2>4 DEF Shutdown, roomVars, managerVars
  <2> QED
    BY <2>1, <2>2, <2>3, <2>4, HandlerTyped, MessageTyped, RoomTyped,
       CreateKeepsIndex, FinishKeepsIndex DEF Next
<1>3. IndexInv => RunningIsIndexed
  BY DEF IndexInv, RunningIsIndexed
<1> QED
  BY <1>1, <1>2, <1>3, ManagerAlwaysTyped, RoomServerAssumption, PTL DEF Spec

-----------------------------------------------------------------------------
(* The rooms of a server are Rooms.                                        *)

LEMMA HandlerImplements ==
  ASSUME RoomServerAssumption, ManagerTyped, NEW s \in Session, HandlerStep(s)
  PROVE  R!Next \/ UNCHANGED roomVars
<1>1. CASE FindRoom(s) \/ CreateFails(s) \/ JoinRefused(s) \/ RecordPlayer(s)
           \/ StatsReturn(s)
  BY <1>1 DEF FindRoom, CreateFails, JoinRefused, RecordPlayer, StatsReturn
<1>2. ASSUME NEW r \in Room, CreateRoom(s, r)
      PROVE  R!Next
  BY <1>2 DEF CreateRoom, R!Next
<1>3. CASE EnterJoin(s)
  <2>1. op[s].room \in Room /\ op[s].player \in Player
    BY <1>3, OpCases DEF EnterJoin, InRoom
  <2> QED
    BY <1>3, <2>1 DEF EnterJoin, R!Next
<1>4. CASE JoinStep(s)
  BY <1>4 DEF JoinStep, R!Next, R!CallStep
<1>5. CASE PushLeave(s)
  <2>1. op[s].room \in Room /\ op[s].player \in Player
    BY <1>5, OpCases DEF PushLeave, InRoom
  <2> QED
    BY <1>5, <2>1 DEF PushLeave, R!Next
<1> QED
  BY <1>1, <1>2, <1>3, <1>4, <1>5 DEF HandlerStep

LEMMA MessageImplements ==
  ASSUME RoomServerAssumption, ManagerTyped, NEW s \in Session,
         \/ \E p \in Player, i \in RoomID : JoinRoom(s, p, i)
         \/ AskToLeave(s) \/ Close(s) \/ PlayerInput(s) \/ AskStats(s)
  PROVE  R!Next \/ UNCHANGED roomVars
<1>1. CASE \/ \E p \in Player, i \in RoomID : JoinRoom(s, p, i)
           \/ AskToLeave(s) \/ Close(s)
  BY <1>1 DEF JoinRoom, AskToLeave, Close, LeaveRoom
<1>2. CASE bound[s] # Unbound /\ PushToRoom(s)
  <2> DEFINE i == playerRooms[bound[s][1]]
  <2>1. bound[s][1] \in Player
    BY <1>2 DEF ManagerTyped
  <2>2. rooms[i] \in Room
    BY <1>2, <2>1 DEF PushToRoom, ManagerTyped
  <2> QED
    BY <1>2, <2>2 DEF PushToRoom, R!Next
<1> QED
  BY <1>1, <1>2 DEF PlayerInput, AskStats

\* Every step of the server, its sessions and its manager is a step of Room, whose
\* actions they are built from, or leaves the rooms alone.  So the theorems about Room
\* with any callers apply to the rooms of a server.
LEMMA StepsAreRoomSteps == Spec => R!Spec
<1>1. Init => R!Init
  BY DEF Init
<1>2. ASSUME ManagerTyped, [Next]_vars
      PROVE  R!Next \/ UNCHANGED roomVars
  <2>1. CASE UNCHANGED vars
    BY <2>1 DEF vars
  <2>2. ASSUME NEW r \in Room, FinishRoom(r) \/ RoomStep(r) \/ StopRoom(r)
        PROVE  R!Next \/ UNCHANGED roomVars
    BY <2>2 DEF FinishRoom, RoomStep, StopRoom, R!Next
  <2>3. CASE Shutdown
    BY <2>3 DEF Shutdown
  <2> QED
    BY <1>2, <2>1, <2>2, <2>3, HandlerImplements, MessageImplements,
       RoomServerAssumption DEF Next
<1>3. ManagerTyped /\ [Next]_vars => [R!Next]_(R!vars)
  BY <1>2 DEF roomVars, R!vars
<1> QED
  BY <1>1, <1>3, ManagerAlwaysTyped, RoomServerAssumption, PTL
     DEF Spec, R!Spec

-----------------------------------------------------------------------------
(* What is proved of Room holds of a server's rooms.  RP has the theorems    *)
(* about Room, for callers that are sessions; R is the Room of the server.   *)

RP == INSTANCE RoomProofs WITH Caller <- Session

\* The instances bring their own names for finite sets and their sizes.
LEMMA SameSizes ==
  ASSUME NEW S
  PROVE  /\ RP!IsFiniteSet(S) <=> IsFiniteSet(S)
         /\ R!Cardinality(S) = Cardinality(S)
         /\ RP!Cardinality(S) = Cardinality(S)
<1>1. /\ RP!IsFiniteSet(S) <=> IsFiniteSet(S)
      /\ R!IsFiniteSet(S) <=> IsFiniteSet(S)
  BY Zenon DEF RP!IsFiniteSet, R!IsFiniteSet, IsFiniteSet
<1>2. R!Cardinality(S) = Cardinality(S)
  BY <1>1, Zenon DEF R!Cardinality, Cardinality
<1>3. RP!Cardinality(S) = Cardinality(S)
  BY <1>1, Zenon DEF RP!Cardinality, Cardinality
<1> QED
  BY <1>1, <1>2, <1>3

\* What Room assumes of its constants is assumed of a server's.
LEMMA TheRoomsAssumption == RP!RoomAssumption
<1>1. RP!IsFiniteSet(Player)
  BY SameSizes, RoomServerAssumption DEF RoomServerAssumption
<1> QED
  BY <1>1, RoomServerAssumption DEF RP!RoomAssumption

\* Definition by definition, the two instances of Room are the same.
LEMMA SameInit == R!Init <=> RP!Init
BY DEF R!Init, RP!Init

LEMMA SameCaller ==
  ASSUME NEW c \in Session, NEW r \in Room, NEW p \in Player
  PROVE  /\ R!JoinCheck(c, r, p) <=> RP!JoinCheck(c, r, p)
         /\ R!Leave(c, r, p) <=> RP!Leave(c, r, p)
<1>1. R!InCall(c) <=> RP!InCall(c)
  BY DEF R!InCall, RP!InCall
<1>2. R!CanPush(r) <=> RP!CanPush(r)
  BY DEF R!CanPush, RP!CanPush
<1>3. R!JoinCheck(c, r, p) <=> RP!JoinCheck(c, r, p)
  BY <1>1, Zenon DEF R!JoinCheck, RP!JoinCheck, R!loopVars, RP!loopVars
<1>4. R!Leave(c, r, p) <=> RP!Leave(c, r, p)
  BY <1>1, <1>2, Zenon DEF R!Leave, RP!Leave, R!loopVars, RP!loopVars
<1> QED
  BY <1>3, <1>4

LEMMA SamePush ==
  ASSUME NEW c \in Session, NEW r \in Room
  PROVE  R!PushInput(c, r) <=> RP!PushInput(c, r)
<1>1. R!InCall(c) <=> RP!InCall(c)
  BY DEF R!InCall, RP!InCall
<1>2. R!CanPush(r) <=> RP!CanPush(r)
  BY DEF R!CanPush, RP!CanPush
<1> QED
  BY <1>1, <1>2, Zenon DEF R!PushInput, RP!PushInput, R!loopVars, RP!loopVars

LEMMA SameCall ==
  ASSUME NEW k
  PROVE  R!CallStep(k) <=> RP!CallStep(k)
<1>2. R!CanPush(k.room) <=> RP!CanPush(k.room)
  BY DEF R!CanPush, RP!CanPush
<1>3. R!JoinReserve(k) <=> RP!JoinReserve(k)
  BY Zenon DEF R!JoinReserve, RP!JoinReserve, R!loopVars, RP!loopVars, R!Advance, RP!Advance
<1>4. R!JoinPush(k) <=> RP!JoinPush(k)
  BY <1>2, Zenon DEF R!JoinPush, RP!JoinPush, R!loopVars, RP!loopVars
<1>5. R!JoinPushFails(k) <=> RP!JoinPushFails(k)
  BY <1>2, Zenon DEF R!JoinPushFails, RP!JoinPushFails, R!loopVars, RP!loopVars, R!Advance, RP!Advance
<1>6. R!JoinUndo(k) <=> RP!JoinUndo(k)
  BY Zenon DEF R!JoinUndo, RP!JoinUndo, R!loopVars, RP!loopVars
<1> QED
  BY <1>3, <1>4, <1>5, <1>6, Zenon DEF R!CallStep, RP!CallStep

LEMMA SameTakes ==
  ASSUME NEW r \in Room, NEW t
  PROVE  R!Takes(r, t) <=> RP!Takes(r, t)
BY Zenon DEF R!Takes, RP!Takes

LEMMA SameJoin ==
  ASSUME NEW r \in Room
  PROVE  /\ R!HandleJoin(r) <=> RP!HandleJoin(r)
         /\ \A p : R!JoinRefused(r, p) <=> RP!JoinRefused(r, p)
         /\ \A e : R!AcceptJoin(r, e) <=> RP!AcceptJoin(r, e)
<1>1. ASSUME NEW t PROVE R!Takes(r, t) <=> RP!Takes(r, t)
  BY SameTakes
<1>2. R!FreeSpawns(r) = RP!FreeSpawns(r)
  BY Zenon DEF R!FreeSpawns, RP!FreeSpawns
<1>3. R!NextSpawn(r) = RP!NextSpawn(r)
  BY <1>2, Zenon DEF R!NextSpawn, RP!NextSpawn
<1>4. ASSUME NEW p PROVE R!JoinRefused(r, p) <=> RP!JoinRefused(r, p)
  <2>1. R!Cardinality(players[r]) = RP!Cardinality(players[r])
    BY SameSizes
  <2> QED
    BY <1>2, <2>1, Zenon DEF R!JoinRefused, RP!JoinRefused
<1>5. ASSUME NEW e PROVE R!RefuseJoin(r, e) <=> RP!RefuseJoin(r, e)
  BY Zenon DEF R!RefuseJoin, RP!RefuseJoin
<1>6. ASSUME NEW e PROVE R!AcceptJoin(r, e) <=> RP!AcceptJoin(r, e)
  <2>1. R!StartsGame(r, players[r] \cup {e.player}) <=> RP!StartsGame(r, players[r] \cup {e.player})
    BY SameSizes DEF R!StartsGame, RP!StartsGame
  <2>2. R!GameLength = RP!GameLength
    BY DEF R!GameLength, RP!GameLength
  <2> QED
    BY <1>3, <2>1, <2>2, Zenon DEF R!AcceptJoin, RP!AcceptJoin
<1>7. R!HandleJoin(r) <=> RP!HandleJoin(r)
  BY <1>1, <1>4, <1>5, <1>6, Zenon DEF R!HandleJoin, RP!HandleJoin
<1> QED
  BY <1>4, <1>6, <1>7

LEMMA SameLoop ==
  ASSUME NEW r \in Room
  PROVE  R!LoopStep(r) <=> RP!LoopStep(r)
<1>1. ASSUME NEW t PROVE R!Takes(r, t) <=> RP!Takes(r, t)
  BY SameTakes
<1>2. R!HandleJoin(r) <=> RP!HandleJoin(r)
  BY SameJoin
<1>3. R!HandleLeave(r) <=> RP!HandleLeave(r)
  <2>1. R!Cardinality(players[r] \ {Head(events[r]).player})
          = RP!Cardinality(players[r] \ {Head(events[r]).player})
    BY SameSizes
  <2> QED
    BY <1>1, <2>1, Zenon DEF R!HandleLeave, RP!HandleLeave
<1>4. R!HandleInput(r) <=> RP!HandleInput(r)
  BY <1>1, Zenon DEF R!HandleInput, RP!HandleInput, R!loopVars, RP!loopVars
<1>5. R!ReleaseJoinSlot(r) <=> RP!ReleaseJoinSlot(r)
  BY Zenon DEF R!ReleaseJoinSlot, RP!ReleaseJoinSlot
<1>6. R!Tick(r) <=> RP!Tick(r)
  BY Zenon DEF R!Tick, RP!Tick, R!ShouldFinish, RP!ShouldFinish
<1>7. R!FinishExit(r) <=> RP!FinishExit(r)
  BY Zenon DEF R!FinishExit, RP!FinishExit
<1>8. R!StopExit(r) <=> RP!StopExit(r)
  BY Zenon DEF R!StopExit, RP!StopExit
<1> QED
  BY <1>2, <1>3, <1>4, <1>5, <1>6, <1>7, <1>8, Zenon
     DEF R!LoopStep, RP!LoopStep, R!HandleEvent, RP!HandleEvent

LEMMA SameNext == [R!Next]_(R!vars) <=> [RP!Next]_(RP!vars)
<1>1. ASSUME NEW r \in Room
      PROVE (R!Start(r) <=> RP!Start(r)) /\ (R!Stop(r) <=> RP!Stop(r))
  BY Zenon DEF R!Start, RP!Start, R!Stop, RP!Stop
<1>2. R!Next <=> RP!Next
  <2>1. (\E r \in Room : R!Start(r) \/ R!Stop(r) \/ R!LoopStep(r))
        <=> (\E r \in Room : RP!Start(r) \/ RP!Stop(r) \/ RP!LoopStep(r))
    BY <1>1, SameLoop, Zenon
  <2>2. (\E c \in Session, r \in Room, p \in Player : R!JoinCheck(c, r, p) \/ R!Leave(c, r, p))
        <=> (\E c \in Session, r \in Room, p \in Player : RP!JoinCheck(c, r, p) \/ RP!Leave(c, r, p))
    BY SameCaller, Zenon
  <2>3. (\E k \in calls : R!CallStep(k)) <=> (\E k \in calls : RP!CallStep(k))
    BY SameCall, Zenon
  <2>4. ASSUME NEW c \in Session, NEW r \in Room
        PROVE  R!PushInput(c, r) <=> RP!PushInput(c, r)
    BY SamePush, Zenon
  <2> QED
    BY <2>1, <2>2, <2>3, <2>4, Zenon DEF R!Next, RP!Next
<1>3. (UNCHANGED R!vars) <=> (UNCHANGED RP!vars)
  BY Zenon DEF R!vars, RP!vars
<1> QED
  BY <1>2, <1>3

LEMMA SameSpec == R!Spec <=> RP!Spec
BY SameInit, SameNext, PTL DEF R!Spec, RP!Spec

LEMMA SameTypes == R!TypeOK <=> RP!TypeOK
BY Zenon DEF R!TypeOK, RP!TypeOK, R!Event, RP!Event, R!JoinEvent, RP!JoinEvent,
   R!LeaveEvent, RP!LeaveEvent, R!InputEvent, RP!InputEvent, R!Call, RP!Call

\* Whatever its sessions and its manager do, the rooms of a server keep their rosters
\* within their seats, full ones have started, and no failed join or leave costs a
\* seat (handleJoinEvent, handleLeave, Join, as JoinRoom and LeaveRoom call them).
THEOREM ServerRoomsSound ==
  Spec => [](R!TypeOK /\ R!RosterSound /\ R!FullRoomStarted /\ R!NoSlotLeak)
<1>1. RP!TypeOK => R!TypeOK
  BY SameTypes
<1>2. RP!RosterSound => R!RosterSound
  BY SameSizes DEF RP!RosterSound, R!RosterSound
<1>3. RP!FullRoomStarted => R!FullRoomStarted
  BY SameSizes DEF RP!FullRoomStarted, R!FullRoomStarted
<1>4. RP!NoSlotLeak => R!NoSlotLeak
  BY SameSizes DEF RP!NoSlotLeak, R!NoSlotLeak, RP!PendingJoins, R!PendingJoins,
     RP!Promised, R!Promised
<1> QED
  BY <1>1, <1>2, <1>3, <1>4, StepsAreRoomSteps, SameSpec, TheRoomsAssumption,
     RP!TypeCorrect, RP!RosterCorrect, RP!FullRoomCorrect, RP!NoSlotLeakCorrect, PTL

\* Nobody gets into a room of a server whose game has started.
THEOREM ServerRostersFreeze == Spec => R!RosterFrozen
<1> DEFINE Frozen(r) == /\ gameStarted[r] => players'[r] \subseteq players[r]
                        /\ loop[r] \in {"finishing", "exited"} => players'[r] = players[r]
<1>1. [\A r \in Room : Frozen(r)]_(RP!vars) => [\A r \in Room : Frozen(r)]_(R!vars)
  BY Zenon DEF R!vars, RP!vars
<1> QED
  BY <1>1, StepsAreRoomSteps, SameSpec, TheRoomsAssumption, RP!RosterFreezes, PTL
     DEF R!RosterFrozen, RP!RosterFrozen

\* The Games of the two instances are the same.
LEMMA SameLife ==
  ASSUME NEW r \in Room
  PROVE  /\ R!Life(r)!Init <=> RP!Life(r)!Init
         /\ R!Life(r)!Next <=> RP!Life(r)!Next
         /\ UNCHANGED <<R!Phase(r), players[r]>> <=> UNCHANGED <<RP!Phase(r), players[r]>>
<1>1. R!Phase(r) = RP!Phase(r) /\ R!Phase(r)' = RP!Phase(r)'
  BY Zenon DEF R!Phase, RP!Phase
<1>2. R!Life(r)!Init <=> RP!Life(r)!Init
  BY <1>1, Zenon DEF R!Life!Init, RP!Life!Init
<1>3. ASSUME NEW S
      PROVE  R!Life(r)!Cardinality(S) = RP!Life(r)!Cardinality(S)
  BY Zenon DEF R!Life!Cardinality, RP!Life!Cardinality, R!Life!IsFiniteSet, RP!Life!IsFiniteSet
<1>4. ASSUME NEW p \in Player
      PROVE  R!Life(r)!Enter(p) <=> RP!Life(r)!Enter(p)
  BY <1>1, <1>3, Zenon DEF R!Life!Enter, RP!Life!Enter
<1>5. ASSUME NEW p \in Player
      PROVE  R!Life(r)!Quit(p) <=> RP!Life(r)!Quit(p)
  BY <1>1, Zenon DEF R!Life!Quit, RP!Life!Quit
<1>6. (R!Life(r)!TimeUp <=> RP!Life(r)!TimeUp) /\ (R!Life(r)!Abort <=> RP!Life(r)!Abort)
  BY <1>1, Zenon DEF R!Life!TimeUp, RP!Life!TimeUp, R!Life!Abort, RP!Life!Abort
<1>7. R!Life(r)!Next <=> RP!Life(r)!Next
  BY <1>4, <1>5, <1>6, Zenon DEF R!Life!Next, RP!Life!Next
<1> QED
  BY <1>1, <1>2, <1>7, Zenon

\* Every room of a server, with the sessions, manager and callbacks of the code around
\* it, is a Game: the promise of a room survives its use by JoinRoom, LeaveRoom,
\* finishRoom and the shutdown of the server.
THEOREM ServerRoomsAreGames == Spec => R!ImplementsGame
<1> DEFINE Step  == \A r \in Room : R!Life(r)!Next \/ UNCHANGED <<R!Phase(r), players[r]>>
           PStep == \A r \in Room : RP!Life(r)!Next \/ UNCHANGED <<RP!Phase(r), players[r]>>
<1>1. (\A r \in Room : RP!Life(r)!Init) => (\A r \in Room : R!Life(r)!Init)
  BY SameLife, Zenon
<1>2. [PStep]_(RP!vars) => [Step]_(R!vars)
  <2>1. PStep => Step
    BY SameLife, Zenon
  <2> HIDE DEF Step, PStep
  <2> QED
    BY <2>1, Zenon DEF R!vars, RP!vars
<1>3. R!ImplementsGame <=> (\A r \in Room : R!Life(r)!Init) /\ [][Step]_(R!vars)
  BY DEF R!ImplementsGame
<1>4. RP!ImplementsGame <=> (\A r \in Room : RP!Life(r)!Init) /\ [][PStep]_(RP!vars)
  BY DEF RP!ImplementsGame
<1> HIDE DEF Step, PStep
<1> QED
  BY <1>1, <1>2, <1>3, <1>4, StepsAreRoomSteps, SameSpec, TheRoomsAssumption,
     RP!RoomImplementsGame, PTL

-----------------------------------------------------------------------------
(* Which room a player is in.                                              *)

Removes(p) == playerRooms[p] # NoID /\ playerRooms'[p] = NoID

\* Who may: a session bound to the player in its room, or the end of the room.
Owned(p) ==
  \/ \E s \in Session : /\ bound[s] = <<p, playerRooms[p]>>
                        /\ <<open'[s], bound'[s], op'[s]>>
                             # <<open[s], bound[s], op[s]>>
  \/ \E r \in Room : /\ idOf[r] = playerRooms[p]
                     /\ cleaned'[r] # cleaned[r]

EntryStep == \A p \in Player : Removes(p) => Owned(p)

OpenTyped == open \in [Session -> BOOLEAN] /\ cleaned \in [Room -> BOOLEAN]

\* LeaveRoom's critical section removes an entry only if it is that of the
\* session, which moves on.
LEMMA LeaveRemovesOwn ==
  ASSUME RoomServerAssumption, ManagerTyped, NEW s \in Session, NEW p \in Player,
         bound[s] # Unbound, Ready(s), LeaveRoom(s), Removes(p),
         open' = open \/ open' = [open EXCEPT ![s] = FALSE],
         DOMAIN open = Session
  PROVE  /\ bound[s] = <<p, playerRooms[p]>>
         /\ <<open'[s], bound'[s], op'[s]>> # <<open[s], bound[s], op[s]>>
<1> DEFINE q == bound[s][1]
           i == bound[s][2]
           target == IF StaleLeave(q, i) \/ playerRooms[q] = NoID
                     THEN NoRoom ELSE rooms[playerRooms[q]]
<1>1. bound[s] = <<q, i>> /\ q \in Player /\ i \in RoomID
  BY DEF ManagerTyped
<1>2. playerRooms' = [playerRooms EXCEPT ![q] = NoID] /\ ~StaleLeave(q, i)
  BY DEF LeaveRoom, Removes
<1>3. p = q
  BY <1>1, <1>2 DEF ManagerTyped, Removes
<1>4. playerRooms[p] = i
  BY <1>2, <1>3 DEF StaleLeave, Removes
<1>5. CASE target # NoRoom
  <2>1. op'[s].at = "leaving"
    BY <1>5 DEF LeaveRoom, Goto, ManagerTyped
  <2> QED
    BY <1>1, <1>3, <1>4, <2>1 DEF Ready
<1>6. CASE target = NoRoom /\ open'[s]
  <2>1. bound'[s] = Unbound
    BY <1>6 DEF LeaveRoom, ManagerTyped
  <2> QED
    BY <1>1, <1>3, <1>4, <2>1
<1>7. CASE target = NoRoom /\ ~open'[s]
  <2>1. open'[s] # open[s]
    BY <1>7 DEF Ready
  <2> QED
    BY <1>1, <1>3, <1>4, <2>1
<1> QED
  BY <1>5, <1>6, <1>7

LEMMA OpenAlwaysTyped == Spec => []OpenTyped
<1> USE DEF OpenTyped
<1>1. Init => OpenTyped
  BY DEF Init
<1>2. OpenTyped /\ [Next]_vars => OpenTyped'
  <2> SUFFICES ASSUME OpenTyped, [Next]_vars PROVE OpenTyped'
    OBVIOUS
  <2>1. CASE UNCHANGED <<open, cleaned>>
    BY <2>1
  <2>2. ASSUME NEW s \in Session, Close(s)
        PROVE  OpenTyped'
    BY <2>2 DEF Close, LeaveRoom, managerVars
  <2>3. ASSUME NEW r \in Room, FinishRoom(r)
        PROVE  OpenTyped'
    BY <2>3 DEF FinishRoom, sessionVars
  <2>4. ASSUME NEW s \in Session, HandlerStep(s)
        PROVE  UNCHANGED <<open, cleaned>>
    BY <2>4 DEF HandlerStep, FindRoom, CreateFails, CreateRoom, JoinRefused,
       EnterJoin, JoinStep, RecordPlayer, PushLeave, StatsReturn, managerVars
  <2>5. ASSUME NEW s \in Session,
               \/ \E p \in Player, i \in RoomID : JoinRoom(s, p, i)
               \/ AskToLeave(s) \/ PlayerInput(s) \/ AskStats(s)
        PROVE  UNCHANGED <<open, cleaned>>
    BY <2>5 DEF JoinRoom, AskToLeave, LeaveRoom, PlayerInput, AskStats, managerVars
  <2>6. ASSUME NEW r \in Room, RoomStep(r) \/ StopRoom(r)
        PROVE  UNCHANGED <<open, cleaned>>
    BY <2>6 DEF RoomStep, StopRoom, othersVars, managerVars, sessionVars
  <2>7. CASE Shutdown
    BY <2>7 DEF Shutdown, managerVars, sessionVars
  <2> QED
    BY <2>1, <2>2, <2>3, <2>4, <2>5, <2>6, <2>7
       DEF Next, vars, othersVars, managerVars, sessionVars
<1> HIDE DEF OpenTyped
<1> QED
  BY <1>1, <1>2, PTL DEF Spec

\* The tallies of a session's messages and of lost leave events.
Tallies ==
  /\ sent \in [Session -> 0..MaxMessages]
  /\ down \in BOOLEAN
  /\ dropped \in [Room -> SUBSET Player]

LEMMA TalliesStep ==
  ASSUME RoomServerAssumption, ManagerTyped, Tallies, [Next]_vars
  PROVE  Tallies'
<1> USE DEF Tallies
<1>1. CASE UNCHANGED <<sent, down, dropped>>
  BY <1>1
<1>2. ASSUME NEW s \in Session,
             \/ \E p \in Player, i \in RoomID : JoinRoom(s, p, i)
             \/ AskToLeave(s) \/ PlayerInput(s) \/ AskStats(s)
      PROVE  Tallies'
  <2>1. Receives(s) /\ UNCHANGED <<down, dropped>>
    BY <1>2 DEF JoinRoom, AskToLeave, LeaveRoom, PlayerInput, AskStats
  <2>2. sent[s] + 1 \in 0..MaxMessages
    BY <2>1, RoomServerAssumption DEF Receives, RoomServerAssumption
  <2> QED
    BY <2>1, <2>2 DEF Receives
<1>3. ASSUME NEW s \in Session, HandlerStep(s), ~PushLeave(s)
      PROVE  UNCHANGED <<sent, down, dropped>>
  BY <1>3 DEF HandlerStep, FindRoom, CreateFails, CreateRoom, JoinRefused,
     EnterJoin, JoinStep, RecordPlayer, StatsReturn
<1>4. ASSUME NEW s \in Session, PushLeave(s)
      PROVE  Tallies'
  <2>1. op[s].room \in Room /\ op[s].player \in Player
    BY <1>4, OpCases DEF PushLeave, InRoom
  <2> QED
    BY <1>4, <2>1 DEF PushLeave
<1>5. ASSUME NEW s \in Session, Close(s)
      PROVE  UNCHANGED <<sent, down, dropped>>
  BY <1>5 DEF Close, LeaveRoom
<1>6. ASSUME NEW r \in Room, FinishRoom(r) \/ RoomStep(r) \/ StopRoom(r)
      PROVE  UNCHANGED <<sent, down, dropped>>
  BY <1>6 DEF FinishRoom, RoomStep, StopRoom, othersVars, sessionVars
<1>7. CASE Shutdown
  BY <1>7 DEF Shutdown, sessionVars
<1> QED
  BY <1>1, <1>2, <1>3, <1>4, <1>5, <1>6, <1>7
     DEF Next, vars, othersVars, sessionVars

\* Every reachable state of a server is well typed, its rooms included.
THEOREM ServerAlwaysTyped == Spec => []TypeOK
<1>1. Init => Tallies
  <2>1. 0 \in 0..MaxMessages
    BY RoomServerAssumption
  <2> QED
    BY <2>1 DEF Init, Tallies
<1>2. ManagerTyped /\ Tallies /\ [Next]_vars => Tallies'
  BY RoomServerAssumption, TalliesStep
<1>3. R!TypeOK /\ ManagerTyped /\ OpenTyped /\ Tallies => TypeOK
  BY DEF TypeOK, ManagerTyped, OpenTyped, Tallies
<1> QED
  BY <1>1, <1>2, <1>3, ManagerAlwaysTyped, OpenAlwaysTyped, ServerRoomsSound,
     RoomServerAssumption, PTL DEF Spec

\* With any number of connections per player, lost, closed late or made anew, the
\* manager forgets which room a player is in only on behalf of a session that is
\* bound to that very room, or with the end of its game (LeaveRoom, finishRoom).
THEOREM EntriesRemovedByOwners == Spec => EntryRemovedByOwner
<1>1. ASSUME ManagerTyped, OpenTyped, [Next]_vars, NEW p \in Player, Removes(p)
      PROVE  Owned(p)
  <2> USE <1>1, RoomServerAssumption DEF OpenTyped
  <2>1. ~UNCHANGED playerRooms
    BY DEF Removes
  <2>2. ASSUME NEW s \in Session, AskToLeave(s) \/ Close(s)
        PROVE  Owned(p)
    <3>1. /\ bound[s] # Unbound /\ Ready(s) /\ LeaveRoom(s)
          /\ open' = open \/ open' = [open EXCEPT ![s] = FALSE]
      BY <2>1, <2>2 DEF AskToLeave, Close, Receives, managerVars
    <3> QED
      BY <3>1, LeaveRemovesOwn DEF Owned
  <2>3. ASSUME NEW r \in Room, FinishRoom(r)
        PROVE  Owned(p)
    <3>1. cleaned'[r] # cleaned[r]
      BY <2>3 DEF FinishRoom
    <3>2. idOf[r] = playerRooms[p]
      BY <2>1, <2>3 DEF FinishRoom, Removes
    <3> QED
      BY <3>1, <3>2 DEF Owned
  <2>4. ASSUME NEW s \in Session, RecordPlayer(s)
        PROVE  FALSE
    <3>1. op[s].id \in RoomID
      BY <2>4, OpCases DEF RecordPlayer, InRoom
    <3> QED
      BY <2>4, <3>1 DEF RecordPlayer, Removes, ManagerTyped, RoomServerAssumption
  <2>5. ASSUME NEW s \in Session, HandlerStep(s), ~RecordPlayer(s)
        PROVE  UNCHANGED playerRooms
    BY <2>5 DEF HandlerStep, FindRoom, CreateFails, CreateRoom, JoinRefused,
       EnterJoin, JoinStep, PushLeave, StatsReturn, managerVars
  <2>6. ASSUME NEW s \in Session,
               \/ \E q \in Player, i \in RoomID : JoinRoom(s, q, i)
               \/ PlayerInput(s) \/ AskStats(s)
        PROVE  UNCHANGED playerRooms
    BY <2>6 DEF JoinRoom, PlayerInput, AskStats, managerVars
  <2>7. ASSUME NEW r \in Room, RoomStep(r) \/ StopRoom(r)
        PROVE  UNCHANGED playerRooms
    BY <2>7 DEF RoomStep, StopRoom, othersVars, managerVars
  <2>8. ASSUME Shutdown
        PROVE  UNCHANGED playerRooms
    BY <2>8 DEF Shutdown, managerVars
  <2>9. ~UNCHANGED vars
    BY <2>1 DEF vars, othersVars, managerVars
  <2>10. \/ \E s \in Session :
             \/ AskToLeave(s) \/ Close(s)
             \/ \E q \in Player, i \in RoomID : JoinRoom(s, q, i)
             \/ PlayerInput(s) \/ AskStats(s)
             \/ HandlerStep(s)
         \/ \E r \in Room : FinishRoom(r) \/ RoomStep(r) \/ StopRoom(r)
         \/ Shutdown
    BY <2>9 DEF Next
  <2> QED
    BY <2>1, <2>2, <2>3, <2>4, <2>5, <2>6, <2>7, <2>8, <2>10
<1>2. ManagerTyped /\ OpenTyped /\ [Next]_vars => [EntryStep]_vars
  BY <1>1 DEF EntryStep
<1> QED
  BY <1>2, ManagerAlwaysTyped, OpenAlwaysTyped, RoomServerAssumption, PTL
     DEF Spec, EntryRemovedByOwner, EntryStep, Removes, Owned

-----------------------------------------------------------------------------
(* Who takes a member out of its room.                                     *)

Joins(e, p) == e.type = "join" /\ e.player = p
Leaves(e, p) == e.type = "leave" /\ e.player = p

\* Whether p, member or not, is a member when the room has handled all of queue.
EndsIn(queue, member, p) ==
  \/ member /\ \A j \in DOMAIN queue : ~Leaves(queue[j], p)
  \/ \E i \in DOMAIN queue :
       /\ Joins(queue[i], p)
       /\ \A j \in DOMAIN queue : j > i => ~Leaves(queue[j], p)

\* An event put into the channel that lets nobody in.
LEMMA EndsInAppend ==
  ASSUME NEW q \in Seq(R!Event), NEW e \in R!Event, NEW member, NEW p,
         ~Joins(e, p), EndsIn(Append(q, e), member, p)
  PROVE  EndsIn(q, member, p) /\ ~Leaves(e, p)
<1> DEFINE n == Len(q)
           a == Append(q, e)
<1>1. /\ n \in Nat /\ DOMAIN q = 1..n /\ DOMAIN a = 1..(n + 1)
      /\ a[n + 1] = e /\ \A j \in 1..n : a[j] = q[j]
  BY AppendProperties, LenProperties
<1>2. EndsIn(a, member, p)
  OBVIOUS
<1> HIDE DEF n, a
<1>3. n + 1 \in DOMAIN a /\ \A j \in DOMAIN q : j \in DOMAIN a /\ j # n + 1 /\ a[j] = q[j]
  BY <1>1
<1>4. CASE member /\ \A j \in DOMAIN a : ~Leaves(a[j], p)
  BY <1>1, <1>3, <1>4 DEF EndsIn
<1>5. ASSUME NEW i \in DOMAIN a, Joins(a[i], p),
             \A j \in DOMAIN a : j > i => ~Leaves(a[j], p)
      PROVE  EndsIn(q, member, p) /\ ~Leaves(e, p)
  <2>1. i # n + 1
    BY <1>1, <1>5
  <2>2. i \in DOMAIN q /\ n + 1 > i
    BY <1>1, <2>1
  <2>3. ~Leaves(e, p)
    BY <1>1, <1>3, <1>5, <2>2
  <2>4. Joins(q[i], p) /\ \A j \in DOMAIN q : j > i => ~Leaves(q[j], p)
    BY <1>3, <1>5, <2>2
  <2> QED
    BY <2>2, <2>3, <2>4 DEF EndsIn
<1> QED
  BY <1>2, <1>4, <1>5 DEF EndsIn

\* The room handles the first event: a join may let its player in, a leave takes
\* it out.
LEMMA EndsInTail ==
  ASSUME NEW q \in Seq(R!Event), q # <<>>, NEW member, NEW now, NEW p,
         now => member \/ Joins(Head(q), p),
         Leaves(Head(q), p) => ~now,
         EndsIn(Tail(q), now, p)
  PROVE  EndsIn(q, member, p)
<1> DEFINE n == Len(q)
           t == Tail(q)
<1>1. /\ n \in Nat \ {0} /\ DOMAIN q = 1..n /\ DOMAIN t = 1..(n - 1)
      /\ Head(q) = q[1] /\ \A j \in 1..(n - 1) : t[j] = q[j + 1]
  <2>1. n \in Nat /\ DOMAIN q = 1..n /\ n # 0
    BY LenProperties, EmptySeq
  <2>2. t \in Seq(R!Event) /\ Len(t) = n - 1 /\ \A j \in 1..Len(t) : t[j] = q[j + 1]
    BY HeadTailProperties
  <2> QED
    BY <2>1, <2>2, LenProperties, HeadTailProperties
<1>2. EndsIn(t, now, p)
  OBVIOUS
<1> HIDE DEF n, t
<1>3. \A j \in DOMAIN q : j = 1 \/ (j - 1 \in DOMAIN t /\ q[j] = t[j - 1])
  BY <1>1
<1>4. CASE now /\ \A j \in DOMAIN t : ~Leaves(t[j], p)
  <2>1. \A j \in DOMAIN q : ~Leaves(q[j], p)
    BY <1>1, <1>3, <1>4
  <2>2. CASE member
    BY <2>1, <2>2 DEF EndsIn
  <2>3. CASE Joins(Head(q), p)
    BY <1>1, <2>1, <2>3 DEF EndsIn
  <2> QED
    BY <1>4, <2>2, <2>3
<1>5. ASSUME NEW i \in DOMAIN t, Joins(t[i], p),
             \A j \in DOMAIN t : j > i => ~Leaves(t[j], p)
      PROVE  EndsIn(q, member, p)
  <2>1. i + 1 \in DOMAIN q /\ Joins(q[i + 1], p)
    BY <1>1, <1>5
  <2>2. ASSUME NEW j \in DOMAIN q, j > i + 1
        PROVE  ~Leaves(q[j], p)
    <3>1. i \in Nat /\ j \in Nat /\ j # 1 /\ j - 1 > i
      BY <1>1, <2>2
    <3>2. j - 1 \in DOMAIN t /\ q[j] = t[j - 1]
      BY <1>3, <3>1
    <3> QED
      BY <1>5, <3>1, <3>2
  <2> QED
    BY <2>1, <2>2 DEF EndsIn
<1> QED
  BY <1>2, <1>4, <1>5 DEF EndsIn

\* A leave in the channel is somebody who will take the player out.
LEMMA LeaveIsOwner ==
  ASSUME NEW e \in R!Event, NEW p, Leaves(e, p)
  PROVE  e = [type |-> "leave", player |-> p]
BY DEF R!Event, R!JoinEvent, R!LeaveEvent, R!InputEvent, Leaves

LEMMA JoinNamesPlayer ==
  ASSUME NEW e \in R!Event, e.type = "join"
  PROVE  e.player \in Player
BY DEF R!Event, R!JoinEvent, R!LeaveEvent, R!InputEvent

-----------------------------------------------------------------------------
(* Types of the rooms' channels and rosters.                               *)

QueueTyped ==
  /\ events \in [Room -> Seq(R!Event)]
  /\ players \in [Room -> SUBSET Player]
  /\ calls \in SUBSET R!Call
  /\ dropped \in [Room -> SUBSET Player]

\* Room r has handled its first event.
Handled(r) ==
  /\ loop[r] = "running"
  /\ events[r] # <<>>
  /\ events'[r] = Tail(events[r])
  /\ \A p \in Player : /\ p \in players'[r] => p \in players[r] \/ Joins(Head(events[r]), p)
                       /\ Leaves(Head(events[r]), p) => p \notin players'[r]

SameQueue(r) == events'[r] = events[r] /\ players'[r] = players[r]

LEMMA TakesEffect ==
  ASSUME QueueTyped, NEW r \in Room, NEW t, R!Takes(r, t)
  PROVE  /\ Head(events[r]) \in R!Event /\ Head(events[r]).type = t
         /\ events' \in [Room -> Seq(R!Event)]
         /\ loop[r] = "running" /\ events[r] # <<>> /\ events'[r] = Tail(events[r])
         /\ \A q \in Room \ {r} : events'[q] = events[q]
<1>1. events[r] \in Seq(R!Event) /\ events[r] # <<>>
  BY DEF QueueTyped, R!Takes
<1>2. Head(events[r]) \in R!Event /\ Tail(events[r]) \in Seq(R!Event)
  BY <1>1, HeadTailProperties
<1> QED
  BY <1>1, <1>2 DEF R!Takes, QueueTyped

\* Of a step of a room's goroutine, only handleJoinEvent and handleLeave touch the
\* roster, each for the player of the event it takes.
LEMMA LoopEffect ==
  ASSUME QueueTyped, NEW r \in Room, R!LoopStep(r)
  PROVE  /\ events' \in [Room -> Seq(R!Event)]
         /\ players' \in [Room -> SUBSET Player]
         /\ calls' = calls
         /\ \A q \in Room : SameQueue(q) \/ Handled(q)
<1> DEFINE e == Head(events[r])
           Roster == /\ players' \in [Room -> SUBSET Player]
                     /\ \A q \in Room \ {r} : players'[q] = players[q]
                     /\ \A p \in Player :
                          /\ p \in players'[r] => p \in players[r] \/ Joins(e, p)
                          /\ Leaves(e, p) => p \notin players'[r]
           Goal == /\ events' \in [Room -> Seq(R!Event)]
                   /\ players' \in [Room -> SUBSET Player]
                   /\ \A q \in Room : SameQueue(q) \/ Handled(q)
<1>1. ASSUME NEW t, R!Takes(r, t), Roster
      PROVE  Goal
  <2>1. /\ events' \in [Room -> Seq(R!Event)]
        /\ loop[r] = "running" /\ events[r] # <<>> /\ events'[r] = Tail(events[r])
        /\ \A q \in Room \ {r} : events'[q] = events[q]
    BY <1>1, TakesEffect
  <2>2. Handled(r)
    BY <1>1, <2>1 DEF Handled
  <2> QED
    BY <1>1, <2>1, <2>2 DEF SameQueue
<1>2. ASSUME R!HandleJoin(r)
      PROVE  Goal
  <2>1. R!Takes(r, "join")
    BY <1>2 DEF R!HandleJoin
  <2>2. e \in R!Event /\ e.type = "join" /\ e.player \in Player
    BY <2>1, TakesEffect, JoinNamesPlayer
  <2>3. \A p \in Player : ~Leaves(e, p)
    BY <2>2 DEF Leaves
  <2>4. ASSUME players' = players
        PROVE  Roster
    BY <2>3, <2>4 DEF QueueTyped
  <2>5. ASSUME players' = [players EXCEPT ![r] = players[r] \cup {e.player}]
        PROVE  Roster
    <3>1. players' \in [Room -> SUBSET Player]
      BY <2>2, <2>5 DEF QueueTyped
    <3>2. players'[r] = players[r] \cup {e.player}
            /\ \A q \in Room \ {r} : players'[q] = players[q]
      BY <2>5 DEF QueueTyped
    <3> QED
      BY <2>2, <2>3, <3>1, <3>2 DEF Joins
  <2>6. \/ players' = players
        \/ players' = [players EXCEPT ![r] = players[r] \cup {e.player}]
    BY <1>2 DEF R!HandleJoin, R!RefuseJoin, R!AcceptJoin
  <2> HIDE DEF e, Roster, Goal
  <2> QED
    BY <1>1, <2>1, <2>4, <2>5, <2>6
<1>3. ASSUME R!HandleLeave(r)
      PROVE  Goal
  <2>1. R!Takes(r, "leave")
    BY <1>3 DEF R!HandleLeave
  <2>2. ASSUME players' = players, e.player \notin players[r]
        PROVE  Roster
    BY <2>2 DEF QueueTyped, Leaves
  <2>3. ASSUME players' = [players EXCEPT ![r] = @ \ {e.player}]
        PROVE  Roster
    <3>1. players' \in [Room -> SUBSET Player]
      BY <2>3 DEF QueueTyped
    <3>2. players'[r] = players[r] \ {e.player}
            /\ \A q \in Room \ {r} : players'[q] = players[q]
      BY <2>3 DEF QueueTyped
    <3> QED
      BY <3>1, <3>2 DEF Leaves
  <2>4. \/ players' = players /\ e.player \notin players[r]
        \/ players' = [players EXCEPT ![r] = @ \ {e.player}]
    BY <1>3 DEF R!HandleLeave
  <2> HIDE DEF e, Roster, Goal
  <2> QED
    BY <1>1, <2>1, <2>2, <2>3, <2>4
<1>4. ASSUME R!HandleInput(r)
      PROVE  Goal
  <2>1. R!Takes(r, "input") /\ players' = players
    BY <1>4 DEF R!HandleInput, R!loopVars
  <2>2. e.type = "input"
    BY <2>1, TakesEffect
  <2>3. Roster
    BY <2>1, <2>2 DEF QueueTyped, Leaves
  <2> HIDE DEF e, Roster, Goal
  <2> QED
    BY <1>1, <2>1, <2>3
<1>5. ASSUME UNCHANGED <<events, players>>
      PROVE  Goal
  BY <1>5 DEF QueueTyped, SameQueue
<1>6. calls' = calls
  BY DEF R!LoopStep, R!HandleEvent, R!HandleJoin, R!HandleLeave, R!HandleInput,
         R!ReleaseJoinSlot, R!Tick, R!FinishExit, R!StopExit
<1> QED
  BY <1>2, <1>3, <1>4, <1>5, <1>6
     DEF R!LoopStep, R!HandleEvent, R!ReleaseJoinSlot, R!Tick, R!FinishExit, R!StopExit

\* An event put into the channel of room r.
Pushed(r, e) == events' = [events EXCEPT ![r] = Append(@, e)]

LEMMA PushEffect ==
  ASSUME QueueTyped, NEW r \in Room, NEW e \in R!Event, Pushed(r, e)
  PROVE  /\ events' \in [Room -> Seq(R!Event)]
         /\ events'[r] = Append(events[r], e)
         /\ \A q \in Room \ {r} : events'[q] = events[q]
<1>1. Append(events[r], e) \in Seq(R!Event)
  BY AppendProperties DEF QueueTyped
<1> QED
  BY <1>1 DEF Pushed, QueueTyped

-----------------------------------------------------------------------------
(* What the handler of a session may turn to.                              *)

\* It has found, in the index, the room of the id that it is about.
Found(s) ==
  /\ op'[s].id \in RoomID
  /\ rooms[op'[s].id] # NoRoom
  /\ op'[s].room = rooms[op'[s].id]

SameErrand(s) == op'[s].player = op[s].player /\ op'[s].id = op[s].id

Begins(s) ==
  /\ op[s].at = "idle" /\ open[s]
  /\ <<s, op'[s].player, op'[s].id>> \in Token
  /\ op'[s].at = "create" \/ (op'[s].at = "join" /\ Found(s))

Finds(s) ==
  /\ op[s].at = "create" /\ op'[s].at = "join"
  /\ Found(s) /\ SameErrand(s)

Moves(s) ==
  /\ \/ op[s].at = "join" /\ op'[s].at = "joining"
     \/ op[s].at = "joining" /\ op'[s].at = "record"
  /\ SameErrand(s) /\ op'[s].room = op[s].room

\* For the player it is bound to.
Asks(s) ==
  /\ op[s].at = "idle" /\ open[s] /\ op'[s].at = "asking"
  /\ bound[s] # Unbound /\ bound[s] = <<op'[s].player, op'[s].id>>

StartsLeaving(s) ==
  /\ op[s].at = "idle" /\ op'[s].at = "leaving"
  /\ bound[s] # Unbound /\ bound[s] = <<op'[s].player, op'[s].id>>
  /\ bound' = bound
  /\ Found(s)

\* All that a step of session s does with its own handler, a new room apart.
Turns(s) ==
  /\ \A t \in Session \ {s} : op'[t] = op[t]
  /\ \/ op'[s] = op[s] \/ op'[s].at = "idle"
     \/ Begins(s) \/ Finds(s) \/ Moves(s) \/ Asks(s) \/ StartsLeaving(s)

LEMMA GotoEffect ==
  ASSUME ManagerTyped, NEW s \in Session, NEW o, Goto(s, o)
  PROVE  op'[s] = o /\ \A t \in Session \ {s} : op'[t] = op[t]
BY DEF ManagerTyped, Goto

LEMMA InRoomFields ==
  ASSUME NEW o \in InRoom, NEW step
  PROVE  LET m == [o EXCEPT !.at = step]
         IN  m.at = step /\ m.player = o.player /\ m.id = o.id /\ m.room = o.room
BY DEF InRoom

LEMMA JoinRoomTurns ==
  ASSUME ManagerTyped, NEW s \in Session, NEW p \in Player, NEW i \in RoomID,
         JoinRoom(s, p, i)
  PROVE  Turns(s) /\ op'[s].at # "leaving"
<1> DEFINE o == IF rooms[i] = NoRoom
                THEN [at |-> "create", player |-> p, id |-> i]
                ELSE [at |-> "join", player |-> p, id |-> i, room |-> rooms[i]]
<1>1. Goto(s, o) /\ op[s].at = "idle" /\ open[s] /\ <<s, p, i>> \in Token
  BY DEF JoinRoom, Receives, Ready
<1>2. /\ o.player = p /\ o.id = i
      /\ o.at = "create" \/ (o.at = "join" /\ rooms[i] # NoRoom /\ o.room = rooms[i])
  OBVIOUS
<1> HIDE DEF o
<1>3. op'[s] = o /\ \A t \in Session \ {s} : op'[t] = op[t]
  BY <1>1, GotoEffect
<1> QED
  BY <1>1, <1>2, <1>3 DEF Turns, Begins, Found

LEMMA FindRoomTurns ==
  ASSUME ManagerTyped, NEW s \in Session, FindRoom(s)
  PROVE  Turns(s) /\ op'[s].at # "leaving"
<1> DEFINE o == [at |-> "join", player |-> op[s].player, id |-> op[s].id,
                 room |-> rooms[op[s].id]]
<1>1. Goto(s, o) /\ op[s].at = "create" /\ rooms[op[s].id] # NoRoom
  BY DEF FindRoom, FoundRoom
<1>2. o.at = "join" /\ o.player = op[s].player /\ o.id = op[s].id
        /\ o.room = rooms[op[s].id]
  OBVIOUS
<1>3. op[s].id \in RoomID
  BY <1>1, OpCases DEF Creating
<1> HIDE DEF o
<1>4. op'[s] = o /\ \A t \in Session \ {s} : op'[t] = op[t]
  BY <1>1, GotoEffect
<1> QED
  BY <1>1, <1>2, <1>3, <1>4 DEF Turns, Finds, Found, SameErrand

LEMMA MoveTurns ==
  ASSUME ManagerTyped, NEW s \in Session,
         NEW step, Goto(s, [op[s] EXCEPT !.at = step]),
         \/ op[s].at = "join" /\ step = "joining"
         \/ op[s].at = "joining" /\ step = "record"
  PROVE  Turns(s) /\ Moves(s)
<1>1. op[s] \in InRoom
  BY OpCases
<1>2. /\ op'[s] = [op[s] EXCEPT !.at = step]
      /\ \A t \in Session \ {s} : op'[t] = op[t]
  BY GotoEffect
<1>3. /\ op'[s].at = step /\ op'[s].player = op[s].player
      /\ op'[s].id = op[s].id /\ op'[s].room = op[s].room
  BY <1>1, <1>2, InRoomFields
<1> QED
  BY <1>2, <1>3 DEF Turns, Moves, SameErrand

LEMMA RestTurns ==
  ASSUME ManagerTyped, NEW s \in Session, Goto(s, Idle)
  PROVE  Turns(s) /\ op'[s].at = "idle"
BY GotoEffect DEF Turns, Idle

LEMMA AskTurns ==
  ASSUME ManagerTyped, NEW s \in Session, AskStats(s)
  PROVE  Turns(s) /\ op'[s].at # "leaving"
<1> DEFINE o == [at |-> "asking", player |-> bound[s][1], id |-> bound[s][2],
                 room |-> rooms[playerRooms[bound[s][1]]]]
<1>1. /\ Goto(s, o) /\ op[s].at = "idle" /\ open[s]
      /\ bound[s] # Unbound /\ bound[s] \in Player \X RoomID
  BY DEF AskStats, Receives, Ready, ManagerTyped
<1>2. o.at = "asking" /\ o.player = bound[s][1] /\ o.id = bound[s][2]
  OBVIOUS
<1> HIDE DEF o
<1>3. op'[s] = o /\ \A t \in Session \ {s} : op'[t] = op[t]
  BY <1>1, GotoEffect
<1> QED
  BY <1>1, <1>2, <1>3 DEF Turns, Asks

\* LeaveRoom finds the room that the session is bound to, or has nothing to do:
\* the player's entry is gone or another room's, or its room is.
LEMMA LeaveRoomTurns ==
  ASSUME RoomServerAssumption, ManagerTyped, NEW s \in Session,
         bound[s] # Unbound, Ready(s), LeaveRoom(s)
  PROVE  LET p == bound[s][1]
             i == bound[s][2]
         IN /\ Turns(s)
            /\ p \in Player /\ i \in RoomID /\ bound[s] = <<p, i>>
            /\ UNCHANGED <<roomVars, idOf, rooms, cleaned, dropped>>
            /\ \/ /\ playerRooms[p] \notin {NoID, i}
                  /\ playerRooms' = playerRooms
                  /\ op'[s].at = "idle"
               \/ /\ playerRooms[p] \in {NoID, i}
                  /\ playerRooms' = [playerRooms EXCEPT ![p] = NoID]
                  /\ \/ StartsLeaving(s) /\ playerRooms[p] = i
                     \/ op'[s].at = "idle"
                          /\ (playerRooms[p] = NoID \/ rooms[i] = NoRoom)
            /\ \A t \in Session \ {s} : bound'[t] = bound[t]
            /\ bound'[s] \in {bound[s], Unbound}
<1> DEFINE p == bound[s][1]
           i == bound[s][2]
           current == playerRooms[p]
           target == IF StaleLeave(p, i) \/ current = NoID THEN NoRoom ELSE rooms[current]
           o == [at |-> "leaving", player |-> p, id |-> i, room |-> target]
<1>1. p \in Player /\ i \in RoomID /\ bound[s] = <<p, i>> /\ i # NoID
  BY DEF ManagerTyped, RoomServerAssumption
<1>2. op[s].at = "idle"
  BY DEF Ready
<1>3. UNCHANGED <<roomVars, idOf, rooms, cleaned, dropped>>
  BY DEF LeaveRoom
<1>4. /\ \A t \in Session \ {s} : bound'[t] = bound[t]
      /\ bound'[s] \in {bound[s], Unbound}
      /\ target # NoRoom => bound' = bound
  BY DEF LeaveRoom, ManagerTyped
<1>5. playerRooms' = IF StaleLeave(p, i) THEN playerRooms
                     ELSE [playerRooms EXCEPT ![p] = NoID]
  BY DEF LeaveRoom
<1>6. StaleLeave(p, i) <=> playerRooms[p] \notin {NoID, i}
  BY DEF StaleLeave
<1>7. CASE target = NoRoom
  <2>1. Goto(s, Idle)
    BY <1>7 DEF LeaveRoom
  <2>2. Turns(s) /\ op'[s].at = "idle"
    BY <2>1, RestTurns
  <2>3. ~StaleLeave(p, i) => current = NoID \/ rooms[i] = NoRoom
    BY <1>6, <1>7
  <2> HIDE DEF p, i, current, target, o
  <2> QED
    BY <1>1, <1>3, <1>4, <1>5, <1>6, <2>2, <2>3 DEF p, i, current
<1>8. CASE target # NoRoom
  <2>1. Goto(s, o)
    BY <1>8 DEF LeaveRoom
  <2>2. o.at = "leaving" /\ o.player = p /\ o.id = i /\ o.room = target
    OBVIOUS
  <2>3. ~StaleLeave(p, i) /\ current = i /\ target = rooms[i]
    BY <1>6, <1>8
  <2> HIDE DEF o
  <2>4. op'[s] = o /\ \A t \in Session \ {s} : op'[t] = op[t]
    BY <2>1, GotoEffect
  <2>5. StartsLeaving(s)
    BY <1>1, <1>2, <1>4, <1>8, <2>2, <2>3, <2>4 DEF StartsLeaving, Found
  <2>6. Turns(s)
    BY <2>4, <2>5 DEF Turns
  <2> HIDE DEF p, i, current, target
  <2> QED
    BY <1>1, <1>3, <1>4, <1>5, <1>6, <2>3, <2>5, <2>6 DEF p, i, current
<1> QED
  BY <1>7, <1>8

\* A message of session s, its end, or a step of its handler.
Message(s) ==
  \/ \E p \in Player, i \in RoomID : JoinRoom(s, p, i)
  \/ AskToLeave(s) \/ Close(s) \/ PlayerInput(s) \/ AskStats(s)

LEMMA SessionTurns ==
  ASSUME RoomServerAssumption, ManagerTyped, NEW s \in Session,
         Message(s) \/ HandlerStep(s)
  PROVE  \/ Turns(s) /\ UNCHANGED <<loop, idOf, rooms, cleaned, players>>
         \/ \E r \in Room : CreateRoom(s, r)
<1> DEFINE Frame == UNCHANGED <<loop, idOf, rooms, cleaned, players>>
<1>1. CASE \E p \in Player, i \in RoomID : JoinRoom(s, p, i)
  BY <1>1, JoinRoomTurns DEF JoinRoom, roomVars, managerVars
<1>2. CASE bound[s] # Unbound /\ Ready(s) /\ LeaveRoom(s)
  BY <1>2, LeaveRoomTurns DEF roomVars
<1>3. CASE UNCHANGED <<roomVars, managerVars, op>>
  BY <1>3 DEF Turns, roomVars, managerVars
<1>4. CASE PlayerInput(s)
  BY <1>4 DEF PlayerInput, PushToRoom, R!PushInput, R!loopVars, Turns, managerVars
<1>5. CASE AskStats(s)
  <2>1. Frame
    BY <1>5 DEF AskStats, PushToRoom, R!PushInput, R!loopVars, managerVars
  <2> QED
    BY <1>5, <2>1, AskTurns
<1>6. CASE FindRoom(s)
  BY <1>6, FindRoomTurns DEF FindRoom, roomVars, managerVars
<1>7. CASE CreateFails(s) \/ JoinRefused(s) \/ StatsReturn(s)
  BY <1>7, RestTurns DEF CreateFails, JoinRefused, StatsReturn, roomVars, managerVars
<1>8. CASE EnterJoin(s)
  <2>1. Frame
    BY <1>8 DEF EnterJoin, R!JoinCheck, R!loopVars, managerVars
  <2> QED
    BY <1>8, <2>1, MoveTurns DEF EnterJoin
<1>9. CASE JoinStep(s)
  <2>1. Frame
    BY <1>9 DEF JoinStep, R!JoinReserve, R!JoinPushFails, R!JoinPush, R!JoinUndo,
                R!loopVars, managerVars
  <2>2. \/ op' = op \/ Goto(s, Idle)
        \/ op[s].at = "joining" /\ Goto(s, [op[s] EXCEPT !.at = "record"])
    BY <1>9 DEF JoinStep
  <2> QED
    BY <2>1, <2>2, RestTurns, MoveTurns DEF Turns
<1>10. CASE RecordPlayer(s)
  BY <1>10, RestTurns DEF RecordPlayer, roomVars
<1>11. CASE PushLeave(s)
  <2>1. Frame /\ Goto(s, Idle)
    BY <1>11 DEF PushLeave, R!Leave, R!loopVars, roomVars, managerVars
  <2> QED
    BY <2>1, RestTurns
<1> QED
  BY <1>1, <1>2, <1>3, <1>4, <1>5, <1>6, <1>7, <1>8, <1>9, <1>10, <1>11
     DEF Message, HandlerStep, AskToLeave, Close, Receives

-----------------------------------------------------------------------------
(* The rooms that handlers and the index hold on to.                       *)

\* A handler holds a room that was made under the id it is about.
HoldsRoom(s) ==
  op[s].at \in {"join", "joining", "record", "leaving"} =>
    /\ op[s].room \in Room /\ loop[op[s].room] # "none"
    /\ idOf[op[s].room] = op[s].id

\* So does the index, also of a room that is over.
IndexBack ==
  \A i \in RoomID : rooms[i] # NoRoom => loop[rooms[i]] # "none" /\ idOf[rooms[i]] = i

\* A room keeps its place in the index until finishRoom takes it.
KeepsPlace(r) ==
  loop[r] = "running" \/ (loop[r] = "finishing" /\ ~cleaned[r])
    => idOf[r] \in RoomID /\ rooms[idOf[r]] = r

Places ==
  /\ \A s \in Session : HoldsRoom(s)
  /\ IndexBack
  /\ \A r \in Room : KeepsPlace(r)

LEMMA TurnsKeepPlaces ==
  ASSUME RoomServerAssumption, ManagerTyped, Places, NEW s \in Session, Turns(s),
         UNCHANGED <<loop, idOf, rooms, cleaned>>
  PROVE  Places'
<1>1. HoldsRoom(s)'
  <2>1. CASE op'[s] = op[s] \/ op'[s].at \in {"idle", "asking", "create"}
    BY <2>1 DEF Places, HoldsRoom
  <2>2. CASE Found(s)
    BY <2>2 DEF Found, Places, IndexBack, HoldsRoom, ManagerTyped
  <2>3. CASE Moves(s)
    BY <2>3 DEF Moves, SameErrand, Places, HoldsRoom
  <2> QED
    BY <2>1, <2>2, <2>3 DEF Turns, Begins, Finds, Asks, StartsLeaving
<1>2. ASSUME NEW t \in Session \ {s}
      PROVE  HoldsRoom(t)'
  BY <1>2 DEF Turns, Places, HoldsRoom
<1>3. IndexBack' /\ \A r \in Room : KeepsPlace(r)'
  BY DEF Places, IndexBack, KeepsPlace
<1> QED
  BY <1>1, <1>2, <1>3 DEF Places

\* What a handler that makes a room does with it.
LEMMA CreateEffect ==
  ASSUME RoomServerAssumption, ManagerTyped, NEW s \in Session, NEW r \in Room,
         CreateRoom(s, r)
  PROVE  /\ op[s].at = "create" /\ op'[s].at = "join" /\ SameErrand(s)
         /\ op'[s].room = r /\ op[s].id \in RoomID /\ rooms[op[s].id] = NoRoom
         /\ \A t \in Session \ {s} : op'[t] = op[t]
         /\ loop[r] = "none" /\ loop' = [loop EXCEPT ![r] = "running"]
         /\ idOf' = [idOf EXCEPT ![r] = op[s].id]
         /\ rooms' = [rooms EXCEPT ![op[s].id] = r]
         /\ UNCHANGED <<playerRooms, cleaned, open, bound, dropped, events, players, calls>>
<1> DEFINE o == [at |-> "join", player |-> op[s].player, id |-> op[s].id, room |-> r]
<1>1. Goto(s, o) /\ op[s].at = "create" /\ rooms[op[s].id] = NoRoom
  BY DEF CreateRoom, FoundRoom
<1>2. o.at = "join" /\ o.player = op[s].player /\ o.id = op[s].id /\ o.room = r
  OBVIOUS
<1> HIDE DEF o
<1>3. op'[s] = o /\ \A t \in Session \ {s} : op'[t] = op[t]
  BY <1>1, GotoEffect
<1>4. op[s].id \in RoomID
  BY <1>1, OpCases DEF Creating
<1> QED
  BY <1>1, <1>2, <1>3, <1>4 DEF CreateRoom, R!Start, SameErrand

LEMMA CreateKeepsPlaces ==
  ASSUME RoomServerAssumption, ManagerTyped, Places, NEW s \in Session, NEW r \in Room,
         CreateRoom(s, r)
  PROVE  Places'
<1>1. /\ op'[s].at = "join" /\ op'[s].room = r /\ op'[s].id = op[s].id
      /\ op[s].id \in RoomID /\ rooms[op[s].id] = NoRoom /\ loop[r] = "none"
      /\ \A t \in Session \ {s} : op'[t] = op[t]
      /\ cleaned' = cleaned
  BY CreateEffect DEF SameErrand
<1>2. /\ loop'[r] = "running" /\ \A q \in Room \ {r} : loop'[q] = loop[q]
      /\ idOf'[r] = op[s].id /\ \A q \in Room \ {r} : idOf'[q] = idOf[q]
      /\ rooms'[op[s].id] = r /\ \A i \in RoomID \ {op[s].id} : rooms'[i] = rooms[i]
  BY <1>1, CreateEffect DEF ManagerTyped
<1>3. HoldsRoom(s)'
  BY <1>1, <1>2 DEF HoldsRoom
<1>4. ASSUME NEW t \in Session \ {s}
      PROVE  HoldsRoom(t)'
  <2> SUFFICES ASSUME op[t].at \in {"join", "joining", "record", "leaving"}
               PROVE  /\ op[t].room \in Room /\ loop'[op[t].room] # "none"
                      /\ idOf'[op[t].room] = op[t].id
    BY <1>1 DEF HoldsRoom
  <2>1. /\ op[t].room \in Room /\ loop[op[t].room] # "none"
        /\ idOf[op[t].room] = op[t].id
    BY DEF Places, HoldsRoom
  <2>2. op[t].room # r
    BY <1>1, <2>1
  <2> QED
    BY <1>2, <2>1, <2>2
<1>5. IndexBack'
  <2> SUFFICES ASSUME NEW i \in RoomID, rooms'[i] # NoRoom
               PROVE  loop'[rooms'[i]] # "none" /\ idOf'[rooms'[i]] = i
    BY DEF IndexBack
  <2>1. CASE i = op[s].id
    BY <1>2, <2>1
  <2>2. CASE i # op[s].id
    <3>1. rooms'[i] = rooms[i] /\ rooms[i] \in Room
      BY <1>2, <2>2 DEF ManagerTyped
    <3>2. loop[rooms[i]] # "none" /\ idOf[rooms[i]] = i
      BY <3>1 DEF Places, IndexBack
    <3>3. rooms[i] # r
      BY <1>1, <3>2
    <3> QED
      BY <1>2, <3>1, <3>2, <3>3
  <2> QED
    BY <2>1, <2>2
<1>6. ASSUME NEW q \in Room
      PROVE  KeepsPlace(q)'
  <2>1. CASE q = r
    BY <1>1, <1>2, <2>1 DEF KeepsPlace
  <2>2. CASE q # r
    <3> SUFFICES ASSUME loop[q] = "running" \/ (loop[q] = "finishing" /\ ~cleaned[q])
                 PROVE  idOf[q] \in RoomID /\ rooms'[idOf[q]] = q
      BY <1>1, <1>2, <2>2 DEF KeepsPlace
    <3>1. idOf[q] \in RoomID /\ rooms[idOf[q]] = q
      BY DEF Places, KeepsPlace
    <3>2. idOf[q] # op[s].id
      BY <1>1, <3>1 DEF RoomServerAssumption
    <3> QED
      BY <1>2, <3>1, <3>2
  <2> QED
    BY <2>1, <2>2
<1> QED
  BY <1>3, <1>4, <1>5, <1>6 DEF Places

LEMMA FinishKeepsPlaces ==
  ASSUME RoomServerAssumption, ManagerTyped, OpenTyped, Places, NEW r \in Room,
         FinishRoom(r)
  PROVE  Places'
<1>1. UNCHANGED <<loop, idOf, op>> /\ loop[r] = "finishing"
        /\ cleaned' = [cleaned EXCEPT ![r] = TRUE]
  BY DEF FinishRoom, roomVars, sessionVars
<1>2. /\ \A i \in RoomID : rooms'[i] \in {rooms[i], NoRoom}
      /\ \A q \in Room \ {r} : \A i \in RoomID : rooms[i] = q => rooms'[i] = q
  <2>1. CASE rooms' = rooms
    BY <2>1
  <2>2. CASE rooms' = RoomsWithout(r)
    BY <2>2 DEF RoomsWithout
  <2> QED
    BY <2>1, <2>2, FinishRoomTyped
<1>3. IndexBack' /\ \A s \in Session : HoldsRoom(s)'
  BY <1>1, <1>2 DEF Places, IndexBack, HoldsRoom
<1>4. ASSUME NEW q \in Room
      PROVE  KeepsPlace(q)'
  <2>1. CASE q = r
    BY <1>1, <2>1 DEF KeepsPlace, OpenTyped
  <2>2. CASE q # r
    <3>1. cleaned'[q] = cleaned[q]
      BY <1>1, <2>2 DEF OpenTyped
    <3> QED
      BY <1>1, <1>2, <2>2, <3>1 DEF Places, KeepsPlace
  <2> QED
    BY <2>1, <2>2
<1> QED
  BY <1>3, <1>4 DEF Places

\* A step of a room's goroutine.
LEMMA LoopMoves ==
  ASSUME ManagerTyped, NEW r \in Room, RoomStep(r)
  PROVE  /\ \A q \in Room \ {r} : loop'[q] = loop[q]
         /\ \/ loop'[r] = loop[r]
            \/ loop[r] = "running" /\ loop'[r] \in {"finishing", "exited"}
            \/ loop[r] = "finishing" /\ loop'[r] = "exited"
         /\ UNCHANGED othersVars
<1>1. CASE R!HandleEvent(r) \/ R!ReleaseJoinSlot(r)
  <2>1. UNCHANGED loop
    BY <1>1 DEF R!HandleEvent, R!HandleJoin, R!HandleLeave, R!HandleInput,
                R!ReleaseJoinSlot, R!loopVars
  <2> QED
    BY <2>1 DEF RoomStep
<1>2. CASE R!Tick(r)
  BY <1>2 DEF R!Tick, RoomStep, ManagerTyped
<1>3. CASE R!FinishExit(r) \/ R!StopExit(r)
  BY <1>3 DEF R!FinishExit, R!StopExit, RoomStep, ManagerTyped
<1> QED
  BY <1>1, <1>2, <1>3 DEF RoomStep, R!LoopStep

LEMMA RoomKeepsPlaces ==
  ASSUME ManagerTyped, Places, NEW r \in Room, RoomStep(r)
  PROVE  Places'
<1>1. UNCHANGED <<idOf, rooms, cleaned, op>>
  BY LoopMoves DEF othersVars, managerVars, sessionVars
<1>2. ASSUME NEW q \in Room
      PROVE  /\ loop[q] # "none" => loop'[q] # "none"
             /\ loop'[q] = "running" => loop[q] = "running"
             /\ loop'[q] = "finishing" => loop[q] \in {"running", "finishing"}
  BY LoopMoves
<1>3. IndexBack' /\ \A s \in Session : HoldsRoom(s)'
  BY <1>1, <1>2 DEF Places, IndexBack, HoldsRoom, ManagerTyped
<1>4. ASSUME NEW q \in Room
      PROVE  KeepsPlace(q)'
  BY <1>1, <1>2 DEF Places, KeepsPlace
<1> QED
  BY <1>3, <1>4 DEF Places

LEMMA PlacesStep ==
  ASSUME RoomServerAssumption, ManagerTyped, OpenTyped, Places, [Next]_vars
  PROVE  Places'
<1>1. CASE UNCHANGED <<loop, idOf, rooms, cleaned, op>>
  BY <1>1 DEF Places, HoldsRoom, IndexBack, KeepsPlace
<1>2. ASSUME NEW s \in Session, Message(s) \/ HandlerStep(s)
      PROVE  Places'
  BY <1>2, SessionTurns, TurnsKeepPlaces, CreateKeepsPlaces, RoomServerAssumption
<1>3. ASSUME NEW r \in Room, FinishRoom(r) \/ RoomStep(r)
      PROVE  Places'
  BY <1>3, FinishKeepsPlaces, RoomKeepsPlaces, RoomServerAssumption
<1>4. CASE UNCHANGED vars
  BY <1>1, <1>4 DEF vars, roomVars, othersVars, managerVars, sessionVars
<1>5. ASSUME NEW r \in Room, StopRoom(r)
      PROVE  Places'
  BY <1>1, <1>5 DEF StopRoom, R!Stop, managerVars, sessionVars
<1>6. CASE Shutdown
  BY <1>1, <1>6 DEF Shutdown, roomVars, managerVars, sessionVars
<1> QED
  BY <1>2, <1>3, <1>4, <1>5, <1>6 DEF Next, Message

-----------------------------------------------------------------------------
(* Tokens, and handlers at work.                                           *)

\* What a session asks for is on a token of its own.
Entitled(s) ==
  /\ bound[s] # Unbound => <<s, bound[s][1], bound[s][2]>> \in Token
  /\ op[s].at # "idle" => <<s, op[s].player, op[s].id>> \in Token

\* The read loop of a session waits for its handler, but for the leave at its end.
AtWork(s) == op[s].at \notin {"idle", "leaving"} => open[s]

Errands ==
  /\ \A s \in Session : Entitled(s) /\ AtWork(s)
  /\ \A p \in Player : playerRooms[p] # NoID =>
       \E s \in Session : <<s, p, playerRooms[p]>> \in Token

\* What a step may do to the bindings, the entries of players and open sessions.
LEMMA BindingEffect ==
  ASSUME RoomServerAssumption, ManagerTyped, OpenTyped, NEW s \in Session,
         Message(s) \/ HandlerStep(s)
  PROVE  /\ \A t \in Session \ {s} : bound'[t] = bound[t] /\ open'[t] = open[t]
         /\ \/ bound'[s] \in {bound[s], Unbound}
            \/ op[s].at = "record" /\ bound'[s] = <<op[s].player, op[s].id>>
         /\ open'[s] = open[s] \/ (op'[s].at \in {"idle", "leaving"} /\ op[s].at = "idle")
         /\ \A p \in Player :
              \/ playerRooms'[p] \in {playerRooms[p], NoID}
              \/ op[s].at = "record" /\ op[s].player = p /\ playerRooms'[p] = op[s].id
<1>1. CASE UNCHANGED <<playerRooms, open, bound>>
  BY <1>1
<1>2. CASE RecordPlayer(s)
  BY <1>2 DEF RecordPlayer, ManagerTyped
<1>3. CASE PushLeave(s)
  BY <1>3 DEF PushLeave, LeftBy, managerVars, ManagerTyped
<1>4. ASSUME bound[s] # Unbound, Ready(s), LeaveRoom(s)
      PROVE  /\ bound'[s] \in {bound[s], Unbound} /\ op[s].at = "idle"
             /\ \A t \in Session \ {s} : bound'[t] = bound[t]
             /\ op'[s].at \in {"idle", "leaving"}
             /\ \A p \in Player : playerRooms'[p] \in {playerRooms[p], NoID}
  BY <1>4, LeaveRoomTurns DEF Ready, StartsLeaving, ManagerTyped
<1>5. CASE AskToLeave(s)
  BY <1>4, <1>5 DEF AskToLeave, Receives
<1>6. CASE Close(s) /\ bound[s] # Unbound
  BY <1>4, <1>6 DEF Close, OpenTyped
<1>7. CASE Close(s) /\ bound[s] = Unbound
  BY <1>7 DEF Close, OpenTyped, managerVars, Ready
<1>8. CASE \/ \E p \in Player, i \in RoomID : JoinRoom(s, p, i)
           \/ PlayerInput(s) \/ AskStats(s)
  BY <1>1, <1>8 DEF JoinRoom, PlayerInput, AskStats, managerVars
<1>9. CASE HandlerStep(s) /\ ~RecordPlayer(s) /\ ~PushLeave(s)
  BY <1>1, <1>9 DEF HandlerStep, FindRoom, CreateFails, CreateRoom, JoinRefused,
     EnterJoin, JoinStep, StatsReturn, managerVars
<1> QED
  BY <1>2, <1>3, <1>5, <1>6, <1>7, <1>8, <1>9 DEF Message

LEMMA SessionKeepsErrands ==
  ASSUME RoomServerAssumption, ManagerTyped, OpenTyped, Errands, NEW s \in Session,
         Message(s) \/ HandlerStep(s)
  PROVE  Errands'
<1>1. /\ \A t \in Session \ {s} : op'[t] = op[t] /\ bound'[t] = bound[t] /\ open'[t] = open[t]
  BY BindingEffect, SessionTurns, CreateEffect DEF Turns
<1>2. Entitled(s) /\ AtWork(s)
  BY DEF Errands
<1>3. op'[s].at # "idle" => <<s, op'[s].player, op'[s].id>> \in Token
  <2>1. CASE op'[s] = op[s] \/ op'[s].at = "idle"
    BY <1>2, <2>1 DEF Entitled
  <2>2. CASE op[s].at # "idle" /\ SameErrand(s)
    BY <1>2, <2>2 DEF Entitled, SameErrand
  <2>3. CASE bound[s] # Unbound /\ bound[s] = <<op'[s].player, op'[s].id>>
    BY <1>2, <2>3 DEF Entitled
  <2> QED
    BY <2>1, <2>2, <2>3, SessionTurns, CreateEffect, RoomServerAssumption
       DEF Turns, Begins, Finds, Moves, Asks, StartsLeaving
<1>4. bound'[s] # Unbound => <<s, bound'[s][1], bound'[s][2]>> \in Token
  BY <1>2, BindingEffect, RoomServerAssumption DEF Entitled
<1>5. AtWork(s)'
  BY <1>2, BindingEffect, SessionTurns, CreateEffect, RoomServerAssumption
     DEF AtWork, Turns, Begins, Finds, Moves, Asks, StartsLeaving
<1>6. ASSUME NEW p \in Player, playerRooms'[p] # NoID
      PROVE  \E t \in Session : <<t, p, playerRooms'[p]>> \in Token
  <2>1. CASE playerRooms'[p] = playerRooms[p]
    BY <1>6, <2>1 DEF Errands
  <2>2. CASE op[s].at = "record" /\ op[s].player = p /\ playerRooms'[p] = op[s].id
    BY <1>2, <2>2 DEF Entitled
  <2> QED
    BY <1>6, <2>1, <2>2, BindingEffect, RoomServerAssumption
<1> QED
  BY <1>1, <1>3, <1>4, <1>5, <1>6 DEF Errands, Entitled, AtWork

LEMMA ErrandsStep ==
  ASSUME RoomServerAssumption, ManagerTyped, OpenTyped, Errands, [Next]_vars
  PROVE  Errands'
<1>1. CASE UNCHANGED <<sessionVars, playerRooms>>
  BY <1>1 DEF sessionVars, Errands, Entitled, AtWork
<1>2. ASSUME NEW r \in Room, FinishRoom(r)
      PROVE  Errands'
  <2>1. UNCHANGED sessionVars /\ \A p \in Player : playerRooms'[p] \in {playerRooms[p], NoID}
    BY <1>2 DEF FinishRoom
  <2> QED
    BY <2>1 DEF sessionVars, Errands, Entitled, AtWork
<1>3. ASSUME NEW r \in Room, RoomStep(r) \/ StopRoom(r)
      PROVE  Errands'
  BY <1>1, <1>3 DEF RoomStep, StopRoom, othersVars, managerVars
<1>4. CASE Shutdown \/ UNCHANGED vars
  BY <1>1, <1>4 DEF Shutdown, vars, othersVars, managerVars
<1> QED
  BY <1>2, <1>3, <1>4, SessionKeepsErrands, RoomServerAssumption DEF Next, Message

-----------------------------------------------------------------------------
(* The channels of rooms, and the calls of Room.Join.                      *)

\* A handler in Room.Join has at most one call, which is about its own errand.
CallsMatch ==
  /\ \A k \in calls : /\ op[k.caller].at = "joining"
                      /\ op[k.caller].player = k.player
                      /\ op[k.caller].room = k.room
  /\ \A k, l \in calls : k.caller = l.caller => k = l

NewEmpty == \A r \in Room : loop[r] = "none" => events[r] = <<>> /\ players[r] = {}

Queues == QueueTyped /\ NewEmpty /\ CallsMatch

CallersAre == \A k \in calls : k \in R!Call /\ k.caller \in Session

LEMMA CallersSessions == ASSUME QueueTyped PROVE CallersAre
BY DEF QueueTyped, CallersAre, R!Call

\* Steps outside Room.Join.
LEMMA CallsKept ==
  ASSUME Queues, calls' = calls,
         \A t \in Session : op'[t] = op[t] \/ op[t].at # "joining"
  PROVE  CallsMatch'
<1>1. CallersAre
  BY CallersSessions DEF Queues
<1>2. \A k \in calls : op'[k.caller] = op[k.caller]
  BY <1>1 DEF CallersAre, Queues, CallsMatch
<1> QED
  BY <1>2 DEF Queues, CallsMatch

\* Steps that leave channels and rosters alone; a room may start.
LEMMA QueuesKept ==
  ASSUME Queues, UNCHANGED <<events, players, calls>>,
         \A r \in Room : loop'[r] = "none" => loop[r] = "none",
         dropped' \in [Room -> SUBSET Player],
         \A t \in Session : op'[t] = op[t] \/ op[t].at # "joining"
  PROVE  Queues'
<1>1. CallsMatch'
  BY CallsKept
<1> QED
  BY <1>1 DEF Queues, QueueTyped, NewEmpty

\* An event is put into the channel of a room that exists.
LEMMA QueuesPush ==
  ASSUME QueueTyped, NewEmpty, NEW r \in Room, NEW e \in R!Event, Pushed(r, e),
         loop[r] # "none", UNCHANGED <<loop, players, dropped>>,
         calls' \in SUBSET R!Call
  PROVE  QueueTyped' /\ NewEmpty'
<1>1. /\ events' \in [Room -> Seq(R!Event)]
      /\ \A q \in Room \ {r} : events'[q] = events[q]
  BY PushEffect
<1> QED
  BY <1>1 DEF QueueTyped, NewEmpty

LEMMA InputPushes ==
  ASSUME ManagerTyped, NEW s \in Session, bound[s] # Unbound, PushToRoom(s)
  PROVE  \E r \in Room :
           /\ Pushed(r, [type |-> "input"]) /\ loop[r] # "none"
           /\ UNCHANGED <<loop, players, calls>>
<1> DEFINE i == playerRooms[bound[s][1]]
<1>1. bound[s][1] \in Player
  BY DEF ManagerTyped
<1>2. rooms[i] \in Room
  BY <1>1 DEF PushToRoom, ManagerTyped
<1> QED
  BY <1>2 DEF PushToRoom, R!PushInput, R!loopVars, Pushed

LEMMA InputEventTyped == [type |-> "input"] \in R!Event
BY DEF R!Event, R!InputEvent

LEMMA JoinKeepsQueues ==
  ASSUME RoomServerAssumption, ManagerTyped, Queues, Places, NEW s \in Session,
         EnterJoin(s) \/ JoinStep(s)
  PROVE  Queues'
<1>1. CallersAre /\ QueueTyped /\ NewEmpty /\ CallsMatch
  BY CallersSessions DEF Queues
<1>2. CASE EnterJoin(s)
  <2> DEFINE k == [caller |-> s, room |-> op[s].room, player |-> op[s].player,
                   at |-> "checked"]
  <2>1. /\ op[s].at = "join" /\ Goto(s, [op[s] EXCEPT !.at = "joining"])
        /\ calls' = calls \cup {k} /\ ~R!InCall(s)
        /\ UNCHANGED <<loop, events, players, dropped>>
    BY <1>2 DEF EnterJoin, R!JoinCheck, R!loopVars
  <2>2. op[s] \in InRoom
    BY <2>1, OpCases
  <2>3. k \in R!Call /\ k.caller = s /\ k.room = op[s].room /\ k.player = op[s].player
    BY <2>2 DEF InRoom, R!Call
  <2> HIDE DEF k
  <2>4. op'[s] = [op[s] EXCEPT !.at = "joining"] /\ \A t \in Session \ {s} : op'[t] = op[t]
    BY <2>1, GotoEffect
  <2>5. op'[s].at = "joining" /\ op'[s].player = op[s].player /\ op'[s].room = op[s].room
    BY <2>2, <2>4, InRoomFields
  <2>6. \A l \in calls : l.caller \in Session \ {s}
    BY <1>1, <2>1 DEF CallersAre, R!InCall
  <2>7. CallsMatch'
    <3>1. \A l \in calls' : /\ op'[l.caller].at = "joining"
                           /\ op'[l.caller].player = l.player
                           /\ op'[l.caller].room = l.room
      <4>1. \A l \in calls : op'[l.caller] = op[l.caller]
        BY <2>4, <2>6
      <4> QED
        BY <1>1, <2>1, <2>3, <2>5, <4>1 DEF CallsMatch
    <3>2. \A l, m \in calls' : l.caller = m.caller => l = m
      BY <1>1, <2>1, <2>3, <2>6 DEF CallsMatch
    <3> QED
      BY <3>1, <3>2 DEF CallsMatch
  <2> QED
    BY <1>1, <2>1, <2>3, <2>7 DEF Queues, QueueTyped, NewEmpty
<1>3. ASSUME NEW k \in calls, k.caller = s, NEW step, R!Advance(k, step),
             step \in {"reserved", "undo"}, op' = op,
             UNCHANGED <<loop, events, players, dropped>>
      PROVE  Queues'
  <2> DEFINE n == [k EXCEPT !.at = step]
  <2>1. calls' = (calls \ {k}) \cup {n}
    BY <1>3 DEF R!Advance
  <2>2. k \in R!Call
    BY <1>1 DEF CallersAre
  <2>3. n \in R!Call /\ n.caller = k.caller /\ n.player = k.player /\ n.room = k.room
    BY <1>3, <2>2 DEF R!Call
  <2> HIDE DEF n
  <2>4. CallsMatch'
    <3>1. \A l \in calls' : /\ op[l.caller].at = "joining"
                           /\ op[l.caller].player = l.player
                           /\ op[l.caller].room = l.room
      BY <1>1, <2>1, <2>3 DEF CallsMatch
    <3>2. \A l, m \in calls' : l.caller = m.caller => l = m
      BY <1>1, <2>1, <2>3 DEF CallsMatch
    <3> QED
      BY <1>3, <3>1, <3>2 DEF CallsMatch
  <2> QED
    BY <1>1, <1>3, <2>1, <2>3, <2>4 DEF Queues, QueueTyped, NewEmpty
<1>4. ASSUME NEW k \in calls, k.caller = s, calls' = calls \ {k},
             \A t \in Session \ {s} : op'[t] = op[t]
      PROVE  CallsMatch' /\ calls' \in SUBSET R!Call
  <2>1. \A l \in calls' : l \in calls /\ l.caller \in Session \ {s}
    BY <1>1, <1>4 DEF CallersAre, CallsMatch
  <2> QED
    BY <1>1, <1>4, <2>1 DEF CallsMatch, QueueTyped
<1>5. ASSUME NEW k \in calls, k.caller = s, R!JoinPush(k), dropped' = dropped,
             Goto(s, [op[s] EXCEPT !.at = "record"])
      PROVE  Queues'
  <2> DEFINE e == [type |-> "join", player |-> k.player, from |-> k.caller]
  <2>1. Pushed(k.room, e) /\ calls' = calls \ {k} /\ UNCHANGED <<loop, players>>
    BY <1>5 DEF R!JoinPush, R!loopVars, Pushed
  <2>2. k.room \in Room /\ e \in R!Event
    BY <1>1 DEF CallersAre, R!Call, R!Event, R!JoinEvent
  <2>3. loop[k.room] # "none"
    BY <1>1, <1>5 DEF CallsMatch, Places, HoldsRoom
  <2> HIDE DEF e
  <2>4. CallsMatch' /\ calls' \in SUBSET R!Call
    BY <1>4, <1>5, <2>1, GotoEffect
  <2> QED
    BY <1>1, <1>5, <2>1, <2>2, <2>3, <2>4, QueuesPush DEF Queues
<1>6. ASSUME NEW k \in calls, k.caller = s, R!JoinUndo(k), dropped' = dropped, Goto(s, Idle)
      PROVE  Queues'
  <2>1. calls' = calls \ {k} /\ UNCHANGED <<loop, players, events>>
    BY <1>6 DEF R!JoinUndo, R!loopVars
  <2>2. CallsMatch' /\ calls' \in SUBSET R!Call
    BY <1>4, <1>6, <2>1, GotoEffect
  <2> QED
    BY <1>1, <1>6, <2>1, <2>2 DEF Queues, QueueTyped, NewEmpty
<1>7. CASE JoinStep(s)
  <2>1. dropped' = dropped
    BY <1>7 DEF JoinStep
  <2>2. PICK k \in calls :
          /\ k.caller = s
          /\ \/ (R!JoinReserve(k) \/ R!JoinPushFails(k)) /\ op' = op
             \/ R!JoinPush(k) /\ Goto(s, [op[s] EXCEPT !.at = "record"])
             \/ R!JoinUndo(k) /\ Goto(s, Idle)
    BY <1>7 DEF JoinStep
  <2>3. CASE (R!JoinReserve(k) \/ R!JoinPushFails(k)) /\ op' = op
    <3>1. \E step \in {"reserved", "undo"} : R!Advance(k, step)
      BY <2>3 DEF R!JoinReserve, R!JoinPushFails
    <3>2. UNCHANGED <<loop, events, players>>
      BY <2>3 DEF R!JoinReserve, R!JoinPushFails, R!loopVars
    <3> QED
      BY <1>3, <2>1, <2>2, <2>3, <3>1, <3>2
  <2> QED
    BY <1>5, <1>6, <2>1, <2>2, <2>3
<1> QED
  BY <1>2, <1>7

LEMMA HandlerKeepsQueues ==
  ASSUME RoomServerAssumption, ManagerTyped, Queues, Places, NEW s \in Session,
         HandlerStep(s)
  PROVE  Queues'
<1>1. QueueTyped /\ NewEmpty
  BY DEF Queues
<1>2. CASE FindRoom(s) \/ CreateFails(s) \/ JoinRefused(s) \/ RecordPlayer(s)
           \/ StatsReturn(s)
  <2>1. /\ UNCHANGED <<roomVars, dropped>> /\ op[s].at # "joining"
        /\ \A t \in Session \ {s} : op'[t] = op[t]
    BY <1>2, GotoEffect DEF FindRoom, CreateFails, JoinRefused, RecordPlayer, StatsReturn
  <2> QED
    BY <1>1, <2>1, QueuesKept DEF roomVars, QueueTyped
<1>3. ASSUME NEW r \in Room, CreateRoom(s, r)
      PROVE  Queues'
  <2>1. /\ op[s].at # "joining" /\ \A t \in Session \ {s} : op'[t] = op[t]
        /\ loop' = [loop EXCEPT ![r] = "running"]
        /\ UNCHANGED <<events, players, calls, dropped>>
    BY <1>3, CreateEffect, RoomServerAssumption
  <2>2. \A q \in Room : loop'[q] = "none" => loop[q] = "none"
    BY <2>1 DEF ManagerTyped
  <2> QED
    BY <1>1, <2>1, <2>2, QueuesKept DEF QueueTyped
<1>4. CASE PushLeave(s)
  <2>1. /\ op[s].at = "leaving" /\ \A t \in Session \ {s} : op'[t] = op[t]
    BY <1>4, GotoEffect DEF PushLeave
  <2>2. op[s].room \in Room /\ op[s].player \in Player
    BY <2>1, OpCases DEF InRoom
  <2>3. CASE R!Leave(s, op[s].room, op[s].player) /\ dropped' = dropped
    <3> DEFINE e == [type |-> "leave", player |-> op[s].player]
    <3>1. e \in R!Event
      BY <2>2 DEF R!Event, R!LeaveEvent
    <3>2. /\ Pushed(op[s].room, e) /\ loop[op[s].room] # "none"
          /\ UNCHANGED <<loop, players, calls>>
      BY <2>3 DEF R!Leave, R!loopVars, Pushed
    <3>3. CallsMatch'
      BY <2>1, <3>2, CallsKept
    <3> HIDE DEF e
    <3>4. calls' \in SUBSET R!Call
      BY <1>1, <3>2 DEF QueueTyped
    <3> QED
      BY <1>1, <2>2, <2>3, <3>1, <3>2, <3>3, <3>4, QueuesPush DEF Queues
  <2>4. CASE /\ dropped' = [dropped EXCEPT ![op[s].room] = @ \cup {op[s].player}]
             /\ UNCHANGED roomVars
    <3>1. dropped' \in [Room -> SUBSET Player]
      BY <1>1, <2>2, <2>4 DEF QueueTyped
    <3> QED
      BY <2>1, <2>4, <3>1, QueuesKept DEF roomVars
  <2> QED
    BY <1>4, <2>3, <2>4 DEF PushLeave
<1> QED
  BY <1>2, <1>3, <1>4, JoinKeepsQueues, RoomServerAssumption DEF HandlerStep

LEMMA MessageKeepsQueues ==
  ASSUME RoomServerAssumption, ManagerTyped, Queues, NEW s \in Session, Message(s)
  PROVE  Queues'
<1>1. QueueTyped /\ NewEmpty
  BY DEF Queues
<1>2. ASSUME UNCHANGED <<roomVars, dropped>>, op[s].at = "idle",
             \A t \in Session \ {s} : op'[t] = op[t]
      PROVE  Queues'
  BY <1>1, <1>2, QueuesKept DEF roomVars, QueueTyped
<1>3. ASSUME bound[s] # Unbound, Ready(s), LeaveRoom(s)
      PROVE  Queues'
  BY <1>2, <1>3, LeaveRoomTurns, RoomServerAssumption DEF Turns, Ready
<1>4. ASSUME NEW p \in Player, NEW i \in RoomID, JoinRoom(s, p, i)
      PROVE  Queues'
  BY <1>2, <1>4, JoinRoomTurns DEF Turns, JoinRoom, Receives, Ready
<1>5. CASE Close(s) /\ bound[s] = Unbound
  BY <1>2, <1>5 DEF Close, Ready
<1>6. CASE PlayerInput(s) \/ AskStats(s)
  <2>1. /\ bound[s] # Unbound /\ PushToRoom(s) /\ dropped' = dropped /\ op[s].at = "idle"
        /\ \A t \in Session \ {s} : op'[t] = op[t]
    BY <1>6, AskTurns DEF PlayerInput, AskStats, Receives, Ready, Turns
  <2>2. PICK r \in Room : /\ Pushed(r, [type |-> "input"]) /\ loop[r] # "none"
                          /\ UNCHANGED <<loop, players, calls>>
    BY <2>1, InputPushes
  <2>3. CallsMatch'
    BY <2>1, <2>2, CallsKept
  <2>4. calls' \in SUBSET R!Call
    BY <1>1, <2>2 DEF QueueTyped
  <2> QED
    BY <1>1, <2>1, <2>2, <2>3, <2>4, QueuesPush, InputEventTyped DEF Queues
<1> QED
  BY <1>3, <1>4, <1>5, <1>6 DEF Message, AskToLeave, Close, Receives

LEMMA QueuesStep ==
  ASSUME RoomServerAssumption, ManagerTyped, Queues, Places, [Next]_vars
  PROVE  Queues'
<1>1. QueueTyped /\ NewEmpty
  BY DEF Queues
<1>2. CASE UNCHANGED <<loop, events, players, calls, dropped, op>>
  BY <1>1, <1>2, QueuesKept DEF QueueTyped
<1>3. ASSUME NEW r \in Room, RoomStep(r)
      PROVE  Queues'
  <2>1. /\ events' \in [Room -> Seq(R!Event)] /\ players' \in [Room -> SUBSET Player]
        /\ calls' = calls /\ \A q \in Room : SameQueue(q) \/ Handled(q)
    BY <1>1, <1>3, LoopEffect DEF RoomStep
  <2>2. op' = op /\ dropped' = dropped
    BY <1>3, LoopMoves DEF othersVars, sessionVars
  <2>3. CallsMatch'
    BY <2>1, <2>2, CallsKept
  <2>4. ASSUME NEW q \in Room, loop'[q] = "none"
        PROVE  events'[q] = <<>> /\ players'[q] = {}
    <3>1. loop[q] = "none"
      BY <1>3, <2>4, LoopMoves
    <3> QED
      BY <1>1, <2>1, <3>1 DEF NewEmpty, SameQueue, Handled
  <2> QED
    BY <1>1, <2>1, <2>2, <2>3, <2>4 DEF Queues, QueueTyped, NewEmpty
<1>4. ASSUME NEW r \in Room, FinishRoom(r) \/ StopRoom(r)
      PROVE  Queues'
  BY <1>2, <1>4 DEF FinishRoom, StopRoom, R!Stop, roomVars, sessionVars
<1>5. CASE Shutdown \/ UNCHANGED vars
  BY <1>2, <1>5 DEF Shutdown, vars, roomVars, othersVars, sessionVars
<1> QED
  BY <1>3, <1>4, <1>5, HandlerKeepsQueues, MessageKeepsQueues, RoomServerAssumption
     DEF Next, Message

-----------------------------------------------------------------------------
(* Nobody is left behind.                                                  *)

\* Every session is for one player, and every player for one room, as with a
\* matcher that sends a player back to the room it was given.  A player with two
\* rooms may be left behind in the first: LeaveRoom takes its leave for stale.
KeepsToOne ==
  \A t, u \in Token : /\ t[1] = u[1] => t[2] = u[2]
                      /\ t[2] = u[2] => t[3] = u[3]

\* Player p will be in room r when its channel has been handled.
Staying(p, r) == EndsIn(events[r], p \in players[r], p)

\* Session t will take p out of r when it is over: a binding counts for as long as
\* LeaveRoom finds the player's entry.
BoundTo(t, p, r) == open[t] /\ bound[t] = <<p, idOf[r]>> /\ op[t].at # "leaving"
AtIt(t, p, r) ==
  op[t].at \in {"record", "leaving"} /\ op[t].player = p /\ op[t].room = r

Keeper(p, r) ==
  \/ playerRooms[p] = idOf[r] /\ \E t \in Session : BoundTo(t, p, r)
  \/ \E t \in Session : AtIt(t, p, r)

KeptIn(p, r) ==
  loop[r] = "running" /\ Staying(p, r) => Keeper(p, r) \/ p \in dropped[r]

Kept == \A r \in Room, p \in Player : KeptIn(p, r)

ServerInv == ManagerTyped /\ OpenTyped /\ Places /\ Errands /\ Queues

\* An event that lets p in is a join of p.
Spared(p, r) ==
  \E e \in R!Event : /\ events'[r] = Append(events[r], e) /\ players'[r] = players[r]
                     /\ ~Joins(e, p)

LEMMA StayedBefore ==
  ASSUME QueueTyped, NEW r \in Room, NEW p \in Player, Staying(p, r)',
         SameQueue(r) \/ Handled(r) \/ Spared(p, r)
  PROVE  Staying(p, r)
<1>1. EndsIn(events'[r], p \in players'[r], p) /\ events[r] \in Seq(R!Event)
  BY DEF Staying, EndsIn, QueueTyped, Joins, Leaves
<1>2. CASE SameQueue(r)
  BY <1>1, <1>2 DEF SameQueue, Staying, EndsIn
<1>3. CASE Handled(r)
  <2> DEFINE q == events[r]
             now == p \in players'[r]
             member == p \in players[r]
  <2>1. /\ q \in Seq(R!Event) /\ q # <<>>
        /\ now => member \/ Joins(Head(q), p)
        /\ Leaves(Head(q), p) => ~now
    BY <1>1, <1>3 DEF Handled
  <2>2. EndsIn(Tail(q), now, p)
    BY <1>1, <1>3 DEF Handled, EndsIn
  <2> HIDE DEF q, now, member
  <2>3. EndsIn(q, member, p)
    BY <2>1, <2>2, EndsInTail
  <2> QED
    BY <2>3 DEF Staying, q, member
<1>4. CASE Spared(p, r)
  BY <1>1, <1>4, EndsInAppend DEF Spared, Staying
<1> QED
  BY <1>2, <1>3, <1>4

\* A step in which session t neither ceases to record or leave nor begins to leave.
Aside(t) ==
  \/ op'[t] = op[t]
  \/ op[t].at \notin {"record", "leaving"} /\ op'[t].at # "leaving"

\* A step that leaves the keepers of p in r alone.
LEMMA KeeperStays ==
  ASSUME NEW r \in Room, NEW p \in Player, Keeper(p, r),
         idOf'[r] = idOf[r], playerRooms'[p] = playerRooms[p],
         \A t \in Session :
           BoundTo(t, p, r) => open'[t] = open[t] /\ bound'[t] = bound[t],
         \A t \in Session : Aside(t)
  PROVE  Keeper(p, r)'
<1>1. ASSUME NEW t \in Session, BoundTo(t, p, r)
      PROVE  BoundTo(t, p, r)'
  BY <1>1 DEF BoundTo, Aside
<1>2. ASSUME NEW t \in Session, AtIt(t, p, r)
      PROVE  AtIt(t, p, r)'
  BY <1>2 DEF AtIt, Aside
<1> QED
  BY <1>1, <1>2 DEF Keeper

\* Tokens of a session, and of a player.
LEMMA OneRoomEach ==
  ASSUME KeepsToOne, NEW s, NEW t, NEW p, NEW q, NEW i, NEW j,
         <<s, p, i>> \in Token, <<t, q, j>> \in Token
  PROVE  (s = t => p = q) /\ (p = q => i = j)
<1> DEFINE x == <<s, p, i>>
           y == <<t, q, j>>
<1>1. /\ x \in Token /\ y \in Token
      /\ x[1] = s /\ x[2] = p /\ x[3] = i /\ y[1] = t /\ y[2] = q /\ y[3] = j
  OBVIOUS
<1> HIDE DEF x, y
<1>2. (x[1] = y[1] => x[2] = y[2]) /\ (x[2] = y[2] => x[3] = y[3])
  BY <1>1 DEF KeepsToOne
<1> QED
  BY <1>1, <1>2

\* A room that runs has a real id, and a session bound to it has a token for it.
LEMMA RunningHasID ==
  ASSUME RoomServerAssumption, ServerInv, NEW r \in Room, loop[r] = "running"
  PROVE  /\ idOf[r] \in RoomID /\ idOf[r] # NoID /\ rooms[idOf[r]] = r
         /\ \A t \in Session, p \in Player :
              BoundTo(t, p, r) => bound[t] # Unbound /\ <<t, p, idOf[r]>> \in Token
<1>1. idOf[r] \in RoomID /\ idOf[r] # NoID /\ rooms[idOf[r]] = r
  BY DEF ServerInv, Places, KeepsPlace, RoomServerAssumption
<1>2. ASSUME NEW t \in Session, NEW p \in Player, BoundTo(t, p, r)
      PROVE  bound[t] # Unbound /\ <<t, p, idOf[r]>> \in Token
  <2>1. bound[t] = <<p, idOf[r]>>
    BY <1>2 DEF BoundTo
  <2>2. bound[t] # Unbound
    BY <1>1, <2>1 DEF Unbound
  <2>3. <<t, bound[t][1], bound[t][2]>> \in Token
    BY <2>2 DEF ServerInv, Errands, Entitled
  <2> QED
    BY <2>1, <2>2, <2>3
<1> QED
  BY <1>1, <1>2

\* LeaveRoom of another session, or of the keeper itself, leaves p a keeper.
LEMMA LeaveRoomKeeps ==
  ASSUME RoomServerAssumption, KeepsToOne, ServerInv, NEW s \in Session,
         bound[s] # Unbound, Ready(s), LeaveRoom(s),
         \A t \in Session \ {s} : open'[t] = open[t],
         NEW r \in Room, NEW p \in Player, loop[r] = "running", Keeper(p, r)
  PROVE  Keeper(p, r)'
<1> DEFINE q == bound[s][1]
           i == bound[s][2]
<1>0. ManagerTyped
  BY DEF ServerInv
<1>1. /\ q \in Player /\ i \in RoomID /\ bound[s] = <<q, i>> /\ op[s].at = "idle"
      /\ idOf' = idOf
      /\ \A t \in Session \ {s} : op'[t] = op[t] /\ bound'[t] = bound[t]
  BY <1>0, LeaveRoomTurns DEF Turns, Ready
<1>2. <<s, q, i>> \in Token
  BY DEF ServerInv, Errands, Entitled
<1>3. playerRooms[q] \in {NoID, i}
  <2>1. CASE playerRooms[q] # NoID
    <3>1. PICK t \in Session : <<t, q, playerRooms[q]>> \in Token
      BY <1>1, <2>1 DEF ServerInv, Errands
    <3> QED
      BY <1>2, <3>1, OneRoomEach
  <2> QED
    BY <2>1
<1>4. /\ playerRooms' = [playerRooms EXCEPT ![q] = NoID]
      /\ \/ StartsLeaving(s) /\ playerRooms[q] = i
         \/ op'[s].at = "idle" /\ (playerRooms[q] = NoID \/ rooms[i] = NoRoom)
  BY <1>0, <1>3, LeaveRoomTurns
<1> HIDE DEF q, i
<1>5. /\ idOf[r] \in RoomID /\ idOf[r] # NoID /\ rooms[idOf[r]] = r
  BY RunningHasID
<1>6. ASSUME NEW t \in Session, AtIt(t, p, r)
      PROVE  AtIt(t, p, r)'
  <2>1. t # s
    BY <1>1, <1>6 DEF AtIt
  <2> QED
    BY <1>1, <1>6, <2>1 DEF AtIt
<1>7. ASSUME playerRooms[p] = idOf[r], NEW t \in Session, BoundTo(t, p, r)
      PROVE  Keeper(p, r)'
  <2>1. CASE p # q
    <3>1. t # s
      BY <1>1, <1>7, <2>1 DEF BoundTo
    <3>2. playerRooms'[p] = playerRooms[p]
      BY <1>0, <1>1, <1>4, <2>1 DEF ManagerTyped
    <3>3. BoundTo(t, p, r)'
      BY <1>1, <1>7, <3>1 DEF BoundTo
    <3> QED
      BY <1>1, <1>7, <3>2, <3>3 DEF Keeper
  <2>2. CASE p = q
    <3>1. idOf[r] = i
      BY <1>3, <1>5, <1>7, <2>2
    <3>2. rooms[i] = r /\ r # NoRoom
      BY <1>5, <3>1 DEF RoomServerAssumption
    <3>3. StartsLeaving(s)
      BY <1>4, <1>5, <1>7, <2>2, <3>2
    <3>4. op'[s].player = q /\ op'[s].id = i /\ op'[s].at = "leaving"
      BY <1>1, <3>3 DEF StartsLeaving
    <3>5. op'[s].room = r
      BY <3>2, <3>3, <3>4 DEF StartsLeaving, Found
    <3>6. AtIt(s, p, r)'
      BY <2>2, <3>4, <3>5 DEF AtIt
    <3> QED
      BY <3>6 DEF Keeper
  <2> QED
    BY <2>1, <2>2
<1> QED
  BY <1>6, <1>7 DEF Keeper

\* What JoinRoom records at its end makes the session the keeper it already was.
LEMMA RecordKeeps ==
  ASSUME RoomServerAssumption, KeepsToOne, ServerInv, NEW s \in Session,
         RecordPlayer(s),
         NEW r \in Room, NEW p \in Player, loop[r] = "running", Keeper(p, r)
  PROVE  Keeper(p, r)'
<1> DEFINE q == op[s].player
           i == op[s].id
<1>0. ManagerTyped
  BY DEF ServerInv
<1>1. /\ op[s].at = "record" /\ bound' = [bound EXCEPT ![s] = <<q, i>>]
      /\ playerRooms' = [playerRooms EXCEPT ![q] = i]
      /\ open' = open /\ idOf' = idOf
  BY DEF RecordPlayer
<1>2. op'[s].at = "idle" /\ \A t \in Session \ {s} : op'[t] = op[t]
  BY <1>0, GotoEffect DEF RecordPlayer, Idle
<1>3. open[s] /\ <<s, q, i>> \in Token
  BY <1>1 DEF ServerInv, Errands, AtWork, Entitled
<1>4. idOf[op[s].room] = i
  BY <1>1 DEF ServerInv, Places, HoldsRoom
<1>5. q \in Player
  BY <1>0, <1>1, OpCases DEF InRoom
<1> HIDE DEF q, i
<1>6. /\ bound'[s] = <<q, i>> /\ \A t \in Session \ {s} : bound'[t] = bound[t]
      /\ playerRooms'[q] = i
      /\ \A u \in Player \ {q} : playerRooms'[u] = playerRooms[u]
  BY <1>0, <1>1, <1>5 DEF ManagerTyped
<1>7. ASSUME p = q, idOf[r] = i
      PROVE  Keeper(p, r)'
  <2>1. BoundTo(s, p, r)'
    BY <1>1, <1>2, <1>3, <1>6, <1>7 DEF BoundTo
  <2> QED
    BY <1>1, <1>6, <1>7, <2>1 DEF Keeper
<1>8. ASSUME NEW t \in Session, AtIt(t, p, r)
      PROVE  Keeper(p, r)'
  <2>1. CASE t = s
    BY <1>4, <1>7, <1>8, <2>1 DEF AtIt, q
  <2>2. CASE t # s
    <3>1. AtIt(t, p, r)'
      BY <1>2, <1>8, <2>2 DEF AtIt
    <3> QED
      BY <3>1 DEF Keeper
  <2> QED
    BY <2>1, <2>2
<1>9. ASSUME playerRooms[p] = idOf[r], NEW t \in Session, BoundTo(t, p, r)
      PROVE  Keeper(p, r)'
  <2>1. <<t, p, idOf[r]>> \in Token
    BY <1>9, RunningHasID
  <2>2. CASE p = q
    BY <1>3, <1>7, <2>1, <2>2, OneRoomEach
  <2>3. CASE p # q
    <3>1. t # s
      BY <1>3, <2>1, <2>3, OneRoomEach
    <3>2. BoundTo(t, p, r)'
      BY <1>1, <1>2, <1>6, <1>9, <3>1 DEF BoundTo
    <3> QED
      BY <1>1, <1>6, <1>9, <2>3, <3>2 DEF Keeper
  <2> QED
    BY <2>2, <2>3
<1> QED
  BY <1>8, <1>9 DEF Keeper

\* A step that changes nothing of who keeps p in r, and lets p in no further.
LEMMA AsideKeeps ==
  ASSUME QueueTyped, NEW r \in Room, NEW p \in Player, KeptIn(p, r),
         loop'[r] = "running" => loop[r] = "running",
         idOf'[r] = idOf[r], p \in dropped[r] => p \in dropped'[r],
         UNCHANGED <<playerRooms, open, bound>>,
         \A t \in Session : Aside(t),
         SameQueue(r) \/ Handled(r) \/ Spared(p, r)
  PROVE  KeptIn(p, r)'
<1> SUFFICES ASSUME loop'[r] = "running", Staying(p, r)'
             PROVE  Keeper(p, r)' \/ p \in dropped'[r]
  BY DEF KeptIn
<1>1. Staying(p, r)
  BY StayedBefore
<1>2. Keeper(p, r) \/ p \in dropped[r]
  BY <1>1 DEF KeptIn
<1> QED
  BY <1>2, KeeperStays

\* An event put into a channel lets in at most the player of a join.
LEMMA PushSpares ==
  ASSUME QueueTyped, NEW q \in Room, NEW e \in R!Event, Pushed(q, e),
         players' = players, NEW r \in Room, NEW p \in Player,
         ~Joins(e, p) \/ q # r
  PROVE  SameQueue(r) \/ Spared(p, r)
BY PushEffect DEF SameQueue, Spared

LEMMA PushLeaveKeeps ==
  ASSUME RoomServerAssumption, ServerInv, NEW s \in Session, PushLeave(s),
         NEW r \in Room, NEW p \in Player, KeptIn(p, r)
  PROVE  KeptIn(p, r)'
<1> DEFINE q == op[s].room
           e == [type |-> "leave", player |-> op[s].player]
<1>0. ManagerTyped /\ QueueTyped
  BY DEF ServerInv, Queues
<1>1. /\ op[s].at = "leaving" /\ Goto(s, Idle) /\ LeftBy(s)
      /\ UNCHANGED <<loop, players, managerVars, open>>
      /\ \/ Pushed(q, e) /\ dropped' = dropped
         \/ /\ events' = events
            /\ dropped' = [dropped EXCEPT ![q] = @ \cup {op[s].player}]
  BY DEF PushLeave, R!Leave, R!loopVars, roomVars, Pushed
<1>2. q \in Room /\ op[s].player \in Player
  BY <1>0, <1>1, OpCases DEF InRoom
<1>3. e \in R!Event /\ ~Joins(e, p) /\ (op[s].player = p => Leaves(e, p))
  BY <1>2 DEF R!Event, R!LeaveEvent, Joins, Leaves
<1> HIDE DEF e
<1>4. /\ \A t \in Session \ {s} : op'[t] = op[t]
      /\ \A t \in Session \ {s} : bound'[t] = bound[t]
  BY <1>0, <1>1, GotoEffect DEF LeftBy, ManagerTyped
<1>5. p \in dropped[r] => p \in dropped'[r]
  BY <1>0, <1>1, <1>2 DEF QueueTyped
<1>6. AtIt(s, p, r) /\ Staying(p, r)' => p \in dropped'[r]
  <2> SUFFICES ASSUME AtIt(s, p, r), Staying(p, r)', Pushed(q, e)
               PROVE  FALSE
    BY <1>0, <1>1, <1>2 DEF QueueTyped, AtIt
  <2>1. q = r /\ Leaves(e, p)
    BY <1>3 DEF AtIt
  <2>2. events'[r] = Append(events[r], e) /\ events[r] \in Seq(R!Event)
    BY <1>0, <1>2, <1>3, <2>1, PushEffect DEF QueueTyped
  <2> DEFINE w == events[r]
             member == p \in players'[r]
  <2>3. EndsIn(Append(w, e), member, p)
    BY <2>2 DEF Staying, EndsIn, Joins, Leaves
  <2>4. w \in Seq(R!Event)
    BY <2>2
  <2> HIDE DEF w, member
  <2> QED
    BY <1>3, <2>1, <2>3, <2>4, EndsInAppend
<1> SUFFICES ASSUME loop'[r] = "running", Staying(p, r)'
             PROVE  Keeper(p, r)' \/ p \in dropped'[r]
  BY DEF KeptIn
<1>7. Staying(p, r)
  <2>1. SameQueue(r) \/ Spared(p, r)
    BY <1>0, <1>1, <1>2, <1>3, PushSpares DEF SameQueue
  <2> QED
    BY <1>0, <2>1, StayedBefore
<1>8. ASSUME NEW t \in Session, AtIt(t, p, r)
      PROVE  Keeper(p, r)' \/ p \in dropped'[r]
  BY <1>4, <1>6, <1>8 DEF AtIt, Keeper
<1>9. ASSUME playerRooms[p] = idOf[r], NEW t \in Session, BoundTo(t, p, r)
      PROVE  Keeper(p, r)'
  <2>1. t # s
    BY <1>1, <1>9 DEF BoundTo
  <2>2. BoundTo(t, p, r)' /\ playerRooms'[p] = idOf'[r]
    BY <1>1, <1>4, <1>9, <2>1 DEF BoundTo, managerVars
  <2> QED
    BY <2>2 DEF Keeper
<1> QED
  BY <1>1, <1>5, <1>7, <1>8, <1>9 DEF KeptIn, Keeper

\* finishRoom takes the entries of its own id, which no room that runs has.
LEMMA FinishKeeps ==
  ASSUME RoomServerAssumption, ServerInv, NEW q \in Room, FinishRoom(q),
         NEW r \in Room, NEW p \in Player, KeptIn(p, r)
  PROVE  KeptIn(p, r)'
<1>1. /\ UNCHANGED <<loop, events, players, idOf, open, bound, op, dropped>>
      /\ loop[q] = "finishing" /\ ~cleaned[q]
      /\ playerRooms'[p] = playerRooms[p] \/ playerRooms[p] = idOf[q]
  BY DEF FinishRoom, roomVars, sessionVars
<1>2. SUFFICES ASSUME loop[r] = "running", Staying(p, r)', Keeper(p, r)
               PROVE  Keeper(p, r)'
  <2>1. Staying(p, r)' => Staying(p, r)
    BY <1>1, StayedBefore DEF SameQueue, ServerInv, Queues
  <2> QED
    BY <1>1, <2>1 DEF KeptIn
<1>3. idOf[r] # idOf[q]
  <2>1. rooms[idOf[r]] = r /\ rooms[idOf[q]] = q
    BY <1>1, <1>2 DEF ServerInv, Places, KeepsPlace
  <2> QED
    BY <1>1, <1>2, <2>1
<1> QED
  BY <1>1, <1>2, <1>3 DEF Keeper, BoundTo, AtIt

\* A room that is made is empty.
LEMMA CreateKeeps ==
  ASSUME RoomServerAssumption, ServerInv, NEW s \in Session, NEW q \in Room,
         CreateRoom(s, q), NEW r \in Room, NEW p \in Player, KeptIn(p, r)
  PROVE  KeptIn(p, r)'
<1>0. ManagerTyped /\ QueueTyped
  BY DEF ServerInv, Queues
<1>1. /\ loop[q] = "none" /\ op[s].at = "create" /\ op'[s].at = "join"
      /\ \A t \in Session \ {s} : op'[t] = op[t]
      /\ \A x \in Room \ {q} : loop'[x] = loop[x] /\ idOf'[x] = idOf[x]
      /\ UNCHANGED <<playerRooms, open, bound, dropped, events, players>>
  BY <1>0, CreateEffect DEF ManagerTyped
<1>2. CASE r = q
  <2>1. events'[r] = <<>> /\ players'[r] = {}
    BY <1>1, <1>2 DEF ServerInv, Queues, NewEmpty
  <2>2. ~Staying(p, r)'
    BY <2>1 DEF Staying, EndsIn, Joins, Leaves
  <2> QED
    BY <2>2 DEF KeptIn
<1>3. CASE r # q
  <2>1. SameQueue(r)
    BY <1>1 DEF SameQueue
  <2>2. \A t \in Session : Aside(t)
    BY <1>1 DEF Aside
  <2> QED
    BY <1>0, <1>1, <1>3, <2>1, <2>2, AsideKeeps
<1> QED
  BY <1>2, <1>3

\* The session that puts a join into the channel is about to be bound.
LEMMA JoinStepKeeps ==
  ASSUME RoomServerAssumption, ServerInv, NEW s \in Session, JoinStep(s),
         NEW r \in Room, NEW p \in Player, KeptIn(p, r)
  PROVE  KeptIn(p, r)'
<1>0. ManagerTyped /\ QueueTyped /\ CallsMatch
  BY DEF ServerInv, Queues
<1>1. /\ op[s].at = "joining" /\ UNCHANGED <<loop, players, idOf, playerRooms, open, bound, dropped>>
  BY DEF JoinStep, R!JoinReserve, R!JoinPushFails, R!JoinPush, R!JoinUndo,
         R!loopVars, managerVars
<1>2. ASSUME SameQueue(r) \/ Spared(p, r), op' = op \/ Turns(s), op'[s].at # "leaving"
      PROVE  KeptIn(p, r)'
  <2>1. \A t \in Session : Aside(t)
    BY <1>1, <1>2 DEF Turns, Aside
  <2> QED
    BY <1>0, <1>1, <1>2, <2>1, AsideKeeps
<1>3. PICK k \in calls :
        /\ k.caller = s
        /\ \/ (R!JoinReserve(k) \/ R!JoinPushFails(k)) /\ op' = op
           \/ R!JoinPush(k) /\ Goto(s, [op[s] EXCEPT !.at = "record"])
           \/ R!JoinUndo(k) /\ Goto(s, Idle)
  BY DEF JoinStep
<1>4. CASE (R!JoinReserve(k) \/ R!JoinPushFails(k)) /\ op' = op
  BY <1>1, <1>2, <1>4 DEF R!JoinReserve, R!JoinPushFails, SameQueue
<1>5. CASE R!JoinUndo(k) /\ Goto(s, Idle)
  BY <1>0, <1>1, <1>2, <1>5, RestTurns DEF R!JoinUndo, SameQueue
<1>6. CASE R!JoinPush(k) /\ Goto(s, [op[s] EXCEPT !.at = "record"])
  <2> DEFINE e == [type |-> "join", player |-> k.player, from |-> k.caller]
  <2>1. Turns(s) /\ Moves(s)
    BY <1>0, <1>1, <1>6, MoveTurns
  <2>2. /\ op'[s].at = "record" /\ op'[s].player = k.player /\ op'[s].room = k.room
    BY <1>0, <1>1, <1>3, <2>1 DEF Moves, SameErrand, CallsMatch
  <2>3. CASE p = k.player /\ r = k.room
    <3>1. AtIt(s, p, r)'
      BY <2>2, <2>3 DEF AtIt
    <3> QED
      BY <3>1 DEF KeptIn, Keeper
  <2>4. CASE p # k.player \/ r # k.room
    <3>1. Pushed(k.room, e)
      BY <1>6 DEF R!JoinPush, Pushed
    <3>2. k.room \in Room /\ e \in R!Event /\ (Joins(e, p) => p = k.player)
      BY <1>0 DEF QueueTyped, R!Call, R!Event, R!JoinEvent, Joins
    <3> HIDE DEF e
    <3>3. SameQueue(r) \/ Spared(p, r)
      BY <1>0, <1>1, <2>4, <3>1, <3>2, PushSpares
    <3> QED
      BY <1>2, <2>1, <2>2, <3>3
  <2> QED
    BY <2>3, <2>4
<1> QED
  BY <1>3, <1>4, <1>5, <1>6

LEMMA MessageKeeps ==
  ASSUME RoomServerAssumption, KeepsToOne, ServerInv, NEW s \in Session, Message(s),
         NEW r \in Room, NEW p \in Player, KeptIn(p, r)
  PROVE  KeptIn(p, r)'
<1>0. ManagerTyped /\ QueueTyped /\ OpenTyped
  BY DEF ServerInv, Queues
<1>1. ASSUME NEW q \in Player, NEW i \in RoomID, JoinRoom(s, q, i)
      PROVE  KeptIn(p, r)'
  <2>1. /\ UNCHANGED <<loop, events, players, idOf, playerRooms, open, bound, dropped>>
        /\ op[s].at = "idle"
    BY <1>1 DEF JoinRoom, Receives, Ready, roomVars, managerVars
  <2>2. \A t \in Session : Aside(t)
    BY <1>0, <1>1, <2>1, JoinRoomTurns DEF Turns, Aside
  <2> QED
    BY <1>0, <2>1, <2>2, AsideKeeps DEF SameQueue
<1>2. CASE PlayerInput(s) \/ AskStats(s)
  <2>1. /\ bound[s] # Unbound /\ PushToRoom(s) /\ op[s].at = "idle"
        /\ UNCHANGED <<idOf, playerRooms, open, bound, dropped>>
    BY <1>2 DEF PlayerInput, AskStats, Receives, Ready, managerVars
  <2>2. \A t \in Session : Aside(t)
    BY <1>0, <1>2, <2>1, AskTurns DEF PlayerInput, Turns, Aside
  <2>3. PICK q \in Room : Pushed(q, [type |-> "input"]) /\ UNCHANGED <<loop, players>>
    BY <1>0, <2>1, InputPushes
  <2>4. ~Joins([type |-> "input"], p)
    BY DEF Joins
  <2>5. SameQueue(r) \/ Spared(p, r)
    BY <1>0, <2>3, <2>4, PushSpares, InputEventTyped
  <2> QED
    BY <1>0, <2>1, <2>2, <2>3, <2>5, AsideKeeps
<1>3. ASSUME UNCHANGED <<loop, events, players, dropped>>,
             loop[r] = "running" /\ Keeper(p, r) => Keeper(p, r)'
      PROVE  KeptIn(p, r)'
  <2>1. Staying(p, r)' => Staying(p, r)
    BY <1>0, <1>3, StayedBefore DEF SameQueue
  <2> QED
    BY <1>3, <2>1 DEF KeptIn
<1>4. ASSUME bound[s] # Unbound, Ready(s), LeaveRoom(s),
             \A t \in Session \ {s} : open'[t] = open[t]
      PROVE  KeptIn(p, r)'
  <2>1. UNCHANGED <<loop, events, players, dropped>>
    BY <1>0, <1>4, LeaveRoomTurns DEF roomVars
  <2> QED
    BY <1>3, <1>4, <2>1, LeaveRoomKeeps
<1>5. CASE AskToLeave(s)
  BY <1>4, <1>5 DEF AskToLeave, Receives
<1>6. CASE Close(s) /\ bound[s] # Unbound
  BY <1>0, <1>4, <1>6 DEF Close, OpenTyped
<1>7. CASE Close(s) /\ bound[s] = Unbound
  <2>1. /\ UNCHANGED <<loop, events, players, idOf, playerRooms, bound, op, dropped>>
        /\ \A t \in Session \ {s} : open'[t] = open[t]
    BY <1>0, <1>7 DEF Close, OpenTyped, roomVars, managerVars
  <2>2. ASSUME loop[r] = "running", NEW t \in Session, BoundTo(t, p, r)
        PROVE  open'[t] = open[t] /\ bound'[t] = bound[t]
    <3>1. t # s
      BY <1>7, <2>2, RunningHasID
    <3> QED
      BY <2>1, <3>1
  <2>3. \A t \in Session : Aside(t)
    BY <2>1 DEF Aside
  <2>4. loop[r] = "running" /\ Keeper(p, r) => Keeper(p, r)'
    BY <2>1, <2>2, <2>3, KeeperStays
  <2> QED
    BY <1>3, <2>1, <2>4
<1> QED
  BY <1>1, <1>2, <1>5, <1>6, <1>7 DEF Message

LEMMA HandlerKeeps ==
  ASSUME RoomServerAssumption, KeepsToOne, ServerInv, NEW s \in Session, HandlerStep(s),
         NEW r \in Room, NEW p \in Player, KeptIn(p, r)
  PROVE  KeptIn(p, r)'
<1>0. ManagerTyped /\ QueueTyped
  BY DEF ServerInv, Queues
<1>1. ASSUME UNCHANGED <<loop, events, players, idOf, playerRooms, open, bound, dropped>>,
             op[s].at \notin {"record", "leaving"}, Turns(s), op'[s].at # "leaving"
      PROVE  KeptIn(p, r)'
  <2>1. \A t \in Session : Aside(t)
    BY <1>1 DEF Turns, Aside
  <2> QED
    BY <1>0, <1>1, <2>1, AsideKeeps DEF SameQueue
<1>2. CASE FindRoom(s)
  BY <1>0, <1>1, <1>2, FindRoomTurns DEF FindRoom, roomVars, managerVars
<1>3. CASE CreateFails(s) \/ JoinRefused(s) \/ StatsReturn(s)
  <2>1. /\ UNCHANGED <<roomVars, managerVars, open, bound, dropped>> /\ Goto(s, Idle)
        /\ op[s].at \in {"create", "join", "asking"}
    BY <1>3 DEF CreateFails, JoinRefused, StatsReturn
  <2> QED
    BY <1>0, <1>1, <2>1, RestTurns DEF roomVars, managerVars
<1>4. CASE EnterJoin(s)
  <2>1. /\ UNCHANGED <<loop, events, players, managerVars, open, bound, dropped>>
        /\ op[s].at = "join" /\ Goto(s, [op[s] EXCEPT !.at = "joining"])
    BY <1>4 DEF EnterJoin, R!JoinCheck, R!loopVars
  <2>2. Turns(s) /\ op'[s].at # "leaving"
    BY <1>0, <2>1, MoveTurns DEF Moves
  <2> QED
    BY <1>1, <2>1, <2>2 DEF managerVars
<1>5. CASE RecordPlayer(s)
  <2>1. UNCHANGED <<loop, events, players, dropped>>
    BY <1>5 DEF RecordPlayer, roomVars
  <2>2. Staying(p, r)' => Staying(p, r)
    BY <1>0, <2>1, StayedBefore DEF SameQueue
  <2> QED
    BY <1>5, <2>1, <2>2, RecordKeeps DEF KeptIn
<1> QED
  BY <1>2, <1>3, <1>4, <1>5, CreateKeeps, JoinStepKeeps, PushLeaveKeeps DEF HandlerStep

LEMMA KeptStep ==
  ASSUME RoomServerAssumption, KeepsToOne, ServerInv, Kept, [Next]_vars
  PROVE  Kept'
<1> SUFFICES ASSUME NEW r \in Room, NEW p \in Player
             PROVE  KeptIn(p, r)'
  BY DEF Kept
<1>0. KeptIn(p, r) /\ QueueTyped /\ ManagerTyped
  BY DEF Kept, ServerInv, Queues
<1>1. CASE UNCHANGED <<loop, events, players, idOf, playerRooms, open, bound, op, dropped>>
  BY <1>0, <1>1, AsideKeeps DEF SameQueue, Aside
<1>2. ASSUME NEW q \in Room, RoomStep(q)
      PROVE  KeptIn(p, r)'
  <2>1. SameQueue(r) \/ Handled(r)
    BY <1>0, <1>2, LoopEffect DEF RoomStep
  <2>2. loop'[r] = "running" => loop[r] = "running"
    BY <1>0, <1>2, LoopMoves
  <2>3. UNCHANGED <<idOf, playerRooms, open, bound, op, dropped>>
    BY <1>0, <1>2, LoopMoves DEF othersVars, managerVars, sessionVars
  <2> QED
    BY <1>0, <2>1, <2>2, <2>3, AsideKeeps DEF Aside
<1>3. ASSUME NEW q \in Room, StopRoom(q)
      PROVE  KeptIn(p, r)'
  BY <1>1, <1>3 DEF StopRoom, R!Stop, managerVars, sessionVars
<1>4. CASE Shutdown \/ UNCHANGED vars
  BY <1>1, <1>4 DEF Shutdown, vars, roomVars, othersVars, managerVars, sessionVars
<1> QED
  BY <1>0, <1>2, <1>3, <1>4, FinishKeeps, MessageKeeps, HandlerKeeps DEF Next, Message

\* What Kept says of members.
LEMMA KeptOwned ==
  ASSUME ServerInv, Kept
  PROVE  OnlyDropsOrphan
<1> SUFFICES ASSUME NEW r \in Room, loop[r] = "running", NEW p \in players[r],
                    ~HasOwner(p, r)
             PROVE  p \in dropped[r]
  BY DEF OnlyDropsOrphan
<1>1. p \in Player /\ events[r] \in Seq(R!Event)
  BY DEF ServerInv, Queues, QueueTyped
<1>2. ASSUME NEW j \in DOMAIN events[r]
      PROVE  ~Leaves(events[r][j], p)
  <2>1. events[r][j] \in R!Event
    BY <1>1, LenProperties, ElementOfSeq
  <2> QED
    BY <2>1, LeaveIsOwner DEF HasOwner
<1>3. Staying(p, r)
  BY <1>2 DEF Staying, EndsIn
<1>4. ~Keeper(p, r)
  BY DEF Keeper, BoundTo, AtIt, HasOwner
<1> QED
  BY <1>1, <1>3, <1>4 DEF Kept, KeptIn

\* When every session keeps to one player and every player to one room, a member
\* of a room that runs has somebody to take it out, or its leave event has been
\* lost to a full channel: however many sessions of a player race, close late or
\* record a join after the room has handled it, nothing else leaves it behind
\* (JoinRoom, LeaveRoom, handleJoinEvent, handleLeave, finishRoom).
THEOREM OnlyDropsLeaveBehind ==
  ASSUME KeepsToOne
  PROVE  Spec => []OnlyDropsOrphan
<1>1. Init => Places /\ Errands /\ Queues /\ Kept
  <2> SUFFICES ASSUME Init
               PROVE  Places /\ Errands /\ Queues /\ Kept
    OBVIOUS
  <2>1. Places
    BY DEF Init, R!Init, Places, HoldsRoom, IndexBack, KeepsPlace, Idle
  <2>2. Errands
    BY DEF Init, Errands, Entitled, AtWork, Idle
  <2>3. <<>> \in Seq(R!Event)
    BY EmptySeq
  <2>4. Queues
    BY <2>3 DEF Init, R!Init, Queues, QueueTyped, NewEmpty, CallsMatch
  <2>5. Kept
    BY DEF Init, R!Init, Kept, KeptIn
  <2> QED
    BY <2>1, <2>2, <2>4, <2>5
<1>2. /\ ManagerTyped /\ OpenTyped /\ Places /\ Errands /\ Queues /\ Kept
      /\ [Next]_vars
      => Places' /\ Errands' /\ Queues' /\ Kept'
  <2> SUFFICES ASSUME ManagerTyped, OpenTyped, Places, Errands, Queues, Kept, [Next]_vars
               PROVE  Places' /\ Errands' /\ Queues' /\ Kept'
    OBVIOUS
  <2>1. ServerInv
    BY DEF ServerInv
  <2> QED
    BY <2>1, PlacesStep, ErrandsStep, QueuesStep, KeptStep, RoomServerAssumption
<1>3. ManagerTyped /\ OpenTyped /\ Places /\ Errands /\ Queues /\ Kept => OnlyDropsOrphan
  BY KeptOwned DEF ServerInv
<1> QED
  BY <1>1, <1>2, <1>3, ManagerAlwaysTyped, OpenAlwaysTyped, RoomServerAssumption, PTL
     DEF Spec

-----------------------------------------------------------------------------
(* No entry of a player outlives its sessions.                             *)

OnePlayerEach == \A t, u \in Token : t[1] = u[1] => t[2] = u[2]

\* A session that has not begun to leave is bound to the entry.
HeldBy(t, p) == /\ open[t]
                /\ bound[t] = <<p, playerRooms[p]>>
                /\ op[t].at # "leaving"
Held == \A p \in Player : playerRooms[p] # NoID => \E t \in Session : HeldBy(t, p)

\* Other sessions go on holding what they held.
LEMMA OthersHold ==
  ASSUME RoomServerAssumption, ManagerTyped, OpenTyped, NEW s \in Session,
         Message(s) \/ HandlerStep(s), NEW t \in Session \ {s}, NEW p \in Player,
         HeldBy(t, p), playerRooms'[p] = playerRooms[p]
  PROVE  HeldBy(t, p)'
<1>1. op'[t] = op[t] /\ bound'[t] = bound[t] /\ open'[t] = open[t]
  BY BindingEffect, SessionTurns, CreateEffect DEF Turns
<1> QED
  BY <1>1 DEF HeldBy

LEMMA LeaveHolds ==
  ASSUME RoomServerAssumption, ManagerTyped, OpenTyped, Held, NEW s \in Session,
         AskToLeave(s) \/ Close(s), bound[s] # Unbound
  PROVE  Held'
<1> DEFINE q == bound[s][1]
           i == bound[s][2]
<1>1. Ready(s) /\ LeaveRoom(s) /\ Message(s)
  BY DEF AskToLeave, Close, Receives, Message
<1>2. /\ q \in Player /\ i \in RoomID /\ bound[s] = <<q, i>>
      /\ \/ playerRooms[q] \notin {NoID, i} /\ playerRooms' = playerRooms
         \/ playerRooms' = [playerRooms EXCEPT ![q] = NoID]
  BY <1>1, LeaveRoomTurns
<1> HIDE DEF q, i
<1> SUFFICES ASSUME NEW p \in Player, playerRooms'[p] # NoID
             PROVE  \E t \in Session : HeldBy(t, p)'
  BY DEF Held
<1>3. playerRooms'[p] = playerRooms[p] /\ (p = q => playerRooms[p] # i)
  BY <1>2 DEF ManagerTyped
<1>4. PICK t \in Session : HeldBy(t, p)
  BY <1>3 DEF Held
<1>5. t # s
  BY <1>2, <1>3, <1>4 DEF HeldBy
<1> QED
  BY <1>1, <1>3, <1>4, <1>5, OthersHold

LEMMA RecordHolds ==
  ASSUME RoomServerAssumption, ManagerTyped, OpenTyped, Errands, Held, OnePlayerEach,
         NEW s \in Session, RecordPlayer(s)
  PROVE  Held'
<1>0. PICK q \in Player : q = op[s].player
  BY OpCases DEF RecordPlayer, InRoom
<1>1. op[s].at = "record" /\ HandlerStep(s)
  BY DEF RecordPlayer, HandlerStep
<1>2. /\ playerRooms'[q] = op[s].id
      /\ \A p \in Player \ {q} : playerRooms'[p] = playerRooms[p]
      /\ bound'[s] = <<q, op[s].id>> /\ op'[s].at = "idle" /\ open'[s]
  BY <1>0, <1>1 DEF RecordPlayer, ManagerTyped, Goto, Idle, Errands, AtWork
<1>3. HeldBy(s, q)'
  BY <1>2 DEF HeldBy
<1>4. ASSUME NEW p \in Player \ {q}, playerRooms'[p] # NoID
      PROVE  \E t \in Session : HeldBy(t, p)'
  <2>1. PICK t \in Session : HeldBy(t, p)
    BY <1>2, <1>4 DEF Held
  <2>2. t # s
    <3> SUFFICES ASSUME t = s PROVE FALSE
      OBVIOUS
    <3>1. bound[s] = <<p, playerRooms[p]>> /\ playerRooms[p] # NoID
      BY <1>2, <1>4, <2>1 DEF HeldBy
    <3>2. bound[s] # Unbound
      BY <3>1 DEF Unbound
    <3>3. <<s, p, playerRooms[p]>> \in Token
      <4>1. <<s, bound[s][1], bound[s][2]>> \in Token
        BY <3>2 DEF Errands, Entitled
      <4>2. bound[s][1] = p /\ bound[s][2] = playerRooms[p]
        BY <3>1
      <4> QED
        BY <4>1, <4>2
    <3>4. <<s, q, op[s].id>> \in Token
      BY <1>0, <1>1 DEF Errands, Entitled
    <3> QED
      BY <3>3, <3>4 DEF OnePlayerEach
  <2> QED
    BY <1>1, <1>2, <2>1, <2>2, OthersHold
<1> QED
  BY <1>1, <1>3, <1>4 DEF Held

LEMMA HeldStep ==
  ASSUME RoomServerAssumption, ManagerTyped, OpenTyped, Errands, Held, OnePlayerEach,
         [Next]_vars
  PROVE  Held'
<1>1. CASE UNCHANGED <<playerRooms, sessionVars>>
  BY <1>1 DEF Held, HeldBy, sessionVars
<1>2. ASSUME NEW r \in Room, FinishRoom(r)
      PROVE  Held'
  <2>1. UNCHANGED sessionVars /\ \A p \in Player : playerRooms'[p] \in {playerRooms[p], NoID}
    BY <1>2 DEF FinishRoom
  <2> QED
    BY <2>1 DEF Held, HeldBy, sessionVars
<1>3. ASSUME NEW r \in Room, RoomStep(r) \/ StopRoom(r)
      PROVE  Held'
  BY <1>1, <1>3 DEF RoomStep, StopRoom, othersVars, managerVars
<1>4. CASE Shutdown \/ UNCHANGED vars
  BY <1>1, <1>4 DEF Shutdown, vars, othersVars, managerVars
<1>5. ASSUME NEW s \in Session, Message(s) \/ HandlerStep(s), UNCHANGED playerRooms,
             \A p \in Player : HeldBy(s, p) => HeldBy(s, p)'
      PROVE  Held'
  BY <1>5, OthersHold, RoomServerAssumption DEF Held
<1>6. ASSUME NEW s \in Session, Close(s), bound[s] = Unbound
      PROVE  Held'
  <2>1. UNCHANGED playerRooms /\ Message(s)
    BY <1>6 DEF Close, managerVars, Message
  <2>2. \A p \in Player : playerRooms[p] # NoID => ~HeldBy(s, p)
    BY <1>6 DEF HeldBy, Unbound
  <2> QED
    BY <1>6, <2>1, <2>2, OthersHold, RoomServerAssumption DEF Held
<1>7. ASSUME NEW s \in Session, PushLeave(s)
      PROVE  Held'
  <2>1. UNCHANGED playerRooms /\ HandlerStep(s)
    BY <1>7 DEF PushLeave, managerVars, HandlerStep
  <2>2. \A p \in Player : ~HeldBy(s, p)
    BY <1>7 DEF HeldBy, PushLeave
  <2> QED
    BY <1>5, <2>1, <2>2
<1>8. ASSUME NEW s \in Session, HandlerStep(s), ~PushLeave(s), ~RecordPlayer(s)
      PROVE  Held'
  <2>1. UNCHANGED <<playerRooms, open, bound>>
    BY <1>8 DEF HandlerStep, FindRoom, CreateFails, CreateRoom, JoinRefused, EnterJoin,
       JoinStep, StatsReturn, managerVars
  <2>2. op' = op \/ op'[s].at # "leaving"
    BY <1>8, OpCases DEF HandlerStep, FindRoom, CreateFails, CreateRoom, JoinRefused,
       EnterJoin, JoinStep, StatsReturn, Goto, Idle, ManagerTyped, InRoom
  <2> QED
    BY <1>5, <1>8, <2>1, <2>2 DEF HeldBy
<1>9. ASSUME NEW s \in Session,
             \/ \E p \in Player, i \in RoomID : JoinRoom(s, p, i)
             \/ PlayerInput(s) \/ AskStats(s)
      PROVE  Held'
  <2>1. UNCHANGED <<playerRooms, open, bound>> /\ Message(s)
    BY <1>9 DEF JoinRoom, PlayerInput, AskStats, managerVars, Message
  <2>2. ASSUME NEW p \in Player, NEW i \in RoomID, JoinRoom(s, p, i)
        PROVE  op'[s].at # "leaving"
    BY <2>2 DEF JoinRoom, Goto, ManagerTyped
  <2>3. ASSUME AskStats(s)
        PROVE  op'[s].at # "leaving"
    BY <2>3 DEF AskStats, Goto, ManagerTyped
  <2>4. ASSUME PlayerInput(s)
        PROVE  UNCHANGED op
    BY <2>4 DEF PlayerInput
  <2> QED
    BY <1>5, <1>9, <2>1, <2>2, <2>3, <2>4 DEF HeldBy
<1>10. ASSUME NEW s \in Session, AskToLeave(s)
       PROVE  bound[s] # Unbound
  BY <1>10 DEF AskToLeave
<1> QED
  BY <1>2, <1>3, <1>4, <1>6, <1>7, <1>8, <1>9, <1>10, LeaveHolds, RecordHolds,
     RoomServerAssumption DEF Next

\* When every session keeps to one player, the manager has no entry of a player without
\* an open session that is bound to it and will remove it: however many sessions of a
\* player race, whatever rooms they join, and however late JoinRoom writes the entry,
\* after the leave of another session or the end of the game (JoinRoom, LeaveRoom,
\* finishRoom).
THEOREM EntriesAlwaysOwned ==
  ASSUME OnePlayerEach
  PROVE  Spec => []EntriesOwned
<1>1. Init => Errands /\ Held
  BY DEF Init, Errands, Entitled, AtWork, Idle, Held
<1>2. ManagerTyped /\ OpenTyped /\ Errands /\ Held /\ [Next]_vars => Errands' /\ Held'
  BY ErrandsStep, HeldStep, RoomServerAssumption
<1>3. Held => EntriesOwned
  BY DEF Held, HeldBy, EntriesOwned
<1> QED
  BY <1>1, <1>2, <1>3, ManagerAlwaysTyped, OpenAlwaysTyped, RoomServerAssumption, PTL
     DEF Spec

-----------------------------------------------------------------------------
(* A server is a Lobby.                                                    *)

\* What a room has behind it, by where its goroutine is.
Stages ==
  \A r \in Room :
    /\ loop[r] = "none" => ~gameStarted[r] /\ players[r] = {}
    /\ loop[r] = "finishing" => gameStarted[r]
    /\ cleaned[r] => loop[r] \in {"finishing", "exited"}

\* A step of a room's goroutine, as far as roster and start of the game go: a player
\* comes in, and the game starts when it is the last; a member leaves; or neither.
LEMMA LoopChanges ==
  ASSUME RoomServerAssumption, R!TypeOK, NEW r \in Room, R!LoopStep(r)
  PROVE  \/ /\ UNCHANGED <<players, gameStarted>>
            /\ loop'[r] = "finishing" => loop[r] = "finishing" \/ gameStarted[r]
         \/ /\ loop[r] = "running" /\ ~gameStarted[r] /\ UNCHANGED loop
            /\ \E p \in Player :
                 /\ p \notin players[r]
                 /\ players' = [players EXCEPT ![r] = players[r] \cup {p}]
                 /\ gameStarted' = [gameStarted EXCEPT ![r] =
                      Cardinality(players[r] \cup {p}) = MaxPlayers]
         \/ /\ loop[r] = "running" /\ UNCHANGED <<loop, gameStarted>>
            /\ \E p \in players[r] : players' = [players EXCEPT ![r] = players[r] \ {p}]
<1>1. CASE R!HandleInput(r) \/ R!ReleaseJoinSlot(r)
  BY <1>1 DEF R!HandleInput, R!ReleaseJoinSlot, R!loopVars
<1>2. CASE R!Tick(r)
  BY <1>2 DEF R!Tick
<1>3. CASE R!FinishExit(r) \/ R!StopExit(r)
  BY <1>3 DEF R!FinishExit, R!StopExit, R!TypeOK
<1>4. CASE R!HandleLeave(r)
  <2> DEFINE p == Head(events[r]).player
  <2>1. loop[r] = "running" /\ UNCHANGED <<loop, gameStarted>>
    BY <1>4 DEF R!HandleLeave, R!Takes
  <2>2. \/ UNCHANGED players
        \/ p \in players[r] /\ players' = [players EXCEPT ![r] = players[r] \ {p}]
    BY <1>4 DEF R!HandleLeave
  <2> QED
    BY <2>1, <2>2
<1>5. CASE R!HandleJoin(r)
  <2> DEFINE e == Head(events[r])
             full(p) == Cardinality(players[r] \cup {p}) = MaxPlayers
  <2>1. loop[r] = "running" /\ UNCHANGED loop
    BY <1>5 DEF R!HandleJoin, R!Takes
  <2>2. CASE R!RefuseJoin(r, e)
    BY <2>1, <2>2 DEF R!RefuseJoin
  <2>3. CASE ~R!JoinRefused(r, e.player) /\ R!AcceptJoin(r, e)
    <3>1. RP!HandleJoin(r) /\ RP!AcceptJoin(r, e) /\ ~RP!JoinRefused(r, e.player)
      BY <1>5, <2>3, SameJoin
    <3>2. RP!TypeOK
      BY SameTypes
    <3>3. PICK p \in Player, s \in RP!FreeSpawns(r) :
            /\ p \notin players[r]
            /\ ~gameStarted[r]
            /\ RP!Cardinality(players[r] \cup {p}) = RP!Cardinality(players[r]) + 1
            /\ RP!Cardinality(players[r] \cup {p}) \in 0..MaxPlayers
            /\ players' = [players EXCEPT ![r] = players[r] \cup {p}]
            /\ spawnID' = [spawnID EXCEPT ![r][p] = s]
            /\ bodies' = [bodies EXCEPT ![r] = bodies[r] \cup {p}]
      BY <3>1, <3>2, TheRoomsAssumption, RP!AcceptAdds, Zenon
    <3>4. gameStarted' = [gameStarted EXCEPT ![r] =
                            R!StartsGame(r, players[r] \cup {e.player})]
      <4>1. gameStarted' = [gameStarted EXCEPT ![r] =
                              gameStarted[r] \/ R!StartsGame(r, players[r] \cup {e.player})]
        BY <2>3 DEF R!AcceptJoin
      <4>2. gameStarted[r] = FALSE
        BY <3>3 DEF R!TypeOK
      <4>3. R!StartsGame(r, players[r] \cup {e.player}) \in BOOLEAN
        BY DEF R!StartsGame
      <4> HIDE DEF e
      <4> QED
        BY <4>1, <4>2, <4>3
    <3>5. players' = [players EXCEPT ![r] = players[r] \cup {e.player}]
      BY <2>3 DEF R!AcceptJoin
    <3>6. players[r] \cup {e.player} = players[r] \cup {p}
      <4>1. players'[r] = players[r] \cup {e.player}
        BY <3>5 DEF R!TypeOK
      <4>2. players'[r] = players[r] \cup {p}
        BY <3>3 DEF R!TypeOK
      <4> QED
        BY <4>1, <4>2
    <3>7. Cardinality(players[r] \cup {p}) \in 0..MaxPlayers
      BY <3>3, SameSizes
    <3>8. R!StartsGame(r, players[r] \cup {p}) = full(p)
      <4>1. R!Cardinality(players[r] \cup {p}) = Cardinality(players[r] \cup {p})
        BY SameSizes
      <4>2. \A n \in 0..MaxPlayers : (n >= MaxPlayers) = (n = MaxPlayers)
        BY RoomServerAssumption
      <4> QED
        BY <3>7, <4>1, <4>2 DEF R!StartsGame
    <3>9. gameStarted' = [gameStarted EXCEPT ![r] = full(p)]
      BY <3>4, <3>6, <3>8, Zenon
    <3> HIDE DEF full, e
    <3> QED
      BY <2>1, <3>3, <3>9 DEF full
  <2> QED
    BY <1>5, <2>2, <2>3 DEF R!HandleJoin
<1> QED
  BY <1>1, <1>2, <1>3, <1>4, <1>5 DEF R!LoopStep, R!HandleEvent

seen == <<loop, idOf, rooms, cleaned, gameStarted, players>>

\* The actions that change rosters, starts of games, goroutines or the index.
LEMMA LobbyWriters ==
  ASSUME [Next]_vars
  PROVE  \/ UNCHANGED seen
         \/ \E s \in Session, r \in Room : CreateRoom(s, r)
         \/ \E r \in Room : FinishRoom(r) \/ RoomStep(r)
<1> USE DEF seen
<1>1. ASSUME NEW s \in Session,
             \/ \E p \in Player, i \in RoomID : JoinRoom(s, p, i)
             \/ AskToLeave(s) \/ Close(s)
      PROVE  UNCHANGED seen
  BY <1>1 DEF JoinRoom, AskToLeave, Close, LeaveRoom, roomVars, managerVars
<1>2. ASSUME NEW s \in Session, PlayerInput(s) \/ AskStats(s)
      PROVE  UNCHANGED seen
  BY <1>2 DEF PlayerInput, AskStats, PushToRoom, R!PushInput, R!loopVars, managerVars
<1>3. ASSUME NEW s \in Session,
             FindRoom(s) \/ CreateFails(s) \/ JoinRefused(s) \/ RecordPlayer(s) \/ StatsReturn(s)
      PROVE  UNCHANGED seen
  BY <1>3 DEF FindRoom, CreateFails, JoinRefused, RecordPlayer, StatsReturn, roomVars, managerVars
<1>4. ASSUME NEW s \in Session, EnterJoin(s) \/ JoinStep(s)
      PROVE  UNCHANGED seen
  BY <1>4 DEF EnterJoin, JoinStep, R!JoinCheck, R!JoinReserve, R!JoinPushFails, R!JoinPush,
     R!JoinUndo, R!loopVars, managerVars
<1>5. ASSUME NEW s \in Session, PushLeave(s)
      PROVE  UNCHANGED seen
  BY <1>5 DEF PushLeave, R!Leave, R!loopVars, roomVars, managerVars
<1>6. ASSUME NEW r \in Room, StopRoom(r)
      PROVE  UNCHANGED seen
  BY <1>6 DEF StopRoom, R!Stop, managerVars
<1>7. CASE Shutdown
  BY <1>7 DEF Shutdown, roomVars, managerVars
<1>8. CASE UNCHANGED vars
  BY <1>8 DEF vars, roomVars, othersVars, managerVars
<1> QED
  BY <1>1, <1>2, <1>3, <1>4, <1>5, <1>6, <1>7, <1>8 DEF Next, HandlerStep

\* Every step keeps the stages: only the goroutine of a room touches its roster, and only
\* while it runs; finishRoom comes after the game.
LEMMA StagesStep ==
  ASSUME RoomServerAssumption, R!TypeOK, ManagerTyped, OpenTyped, Stages, [Next]_vars
  PROVE  Stages'
<1>1. CASE UNCHANGED <<loop, cleaned, gameStarted, players>>
  BY <1>1 DEF Stages
<1>2. ASSUME NEW r \in Room, RoomStep(r)
      PROVE  Stages'
  <2>1. R!LoopStep(r) /\ UNCHANGED cleaned
    BY <1>2 DEF RoomStep, othersVars, managerVars
  <2>2. \A q \in Room \ {r} : loop'[q] = loop[q]
    BY <1>2, LoopMoves
  <2>3. /\ loop'[r] = "none" => loop[r] = "none"
        /\ loop[r] \in {"finishing", "exited"} => loop'[r] \in {"finishing", "exited"}
    BY <1>2, LoopMoves
  <2>4. CASE /\ UNCHANGED <<players, gameStarted>>
             /\ loop'[r] = "finishing" => loop[r] = "finishing" \/ gameStarted[r]
    BY <2>1, <2>2, <2>3, <2>4 DEF Stages
  <2>5. CASE /\ loop[r] = "running" /\ UNCHANGED loop
             /\ \A q \in Room \ {r} : players'[q] = players[q] /\ gameStarted'[q] = gameStarted[q]
    BY <2>1, <2>5 DEF Stages
  <2>6. CASE /\ loop[r] = "running" /\ UNCHANGED loop
             /\ \E p \in Player :
                 /\ players' = [players EXCEPT ![r] = players[r] \cup {p}]
                 /\ gameStarted' = [gameStarted EXCEPT ![r] =
                      Cardinality(players[r] \cup {p}) = MaxPlayers]
    BY <2>5, <2>6 DEF R!TypeOK
  <2>7. CASE /\ loop[r] = "running" /\ UNCHANGED <<loop, gameStarted>>
             /\ \E p \in players[r] : players' = [players EXCEPT ![r] = players[r] \ {p}]
    BY <2>5, <2>7 DEF R!TypeOK
  <2> QED
    BY <2>1, <2>4, <2>6, <2>7, LoopChanges, RoomServerAssumption
<1>3. ASSUME NEW s \in Session, NEW r \in Room, CreateRoom(s, r)
      PROVE  Stages'
  <2>1. /\ loop[r] = "none" /\ loop' = [loop EXCEPT ![r] = "running"]
        /\ UNCHANGED <<players, gameStarted, cleaned>>
    BY <1>3 DEF CreateRoom, R!Start
  <2>2. loop'[r] = "running" /\ \A q \in Room \ {r} : loop'[q] = loop[q]
    BY <2>1 DEF ManagerTyped
  <2> QED
    BY <2>1, <2>2 DEF Stages
<1>4. ASSUME NEW r \in Room, FinishRoom(r)
      PROVE  Stages'
  <2>1. /\ loop[r] = "finishing" /\ cleaned' = [cleaned EXCEPT ![r] = TRUE]
        /\ UNCHANGED <<loop, players, gameStarted>>
    BY <1>4 DEF FinishRoom, roomVars
  <2>2. \A q \in Room \ {r} : cleaned'[q] = cleaned[q]
    BY <2>1 DEF OpenTyped
  <2> QED
    BY <2>1, <2>2 DEF Stages
<1> QED
  BY <1>1, <1>2, <1>3, <1>4, LobbyWriters DEF seen

-----------------------------------------------------------------------------
\* The phase of an id, without the order of the cases.
LEMMA PhaseCases ==
  ASSUME NEW i \in RoomID
  PROVE  /\ rooms[i] = NoRoom => PhaseOf(i) = "none"
         /\ rooms[i] # NoRoom /\ cleaned[rooms[i]] => PhaseOf(i) = "over"
         /\ rooms[i] # NoRoom /\ ~cleaned[rooms[i]] /\ gameStarted[rooms[i]]
              => PhaseOf(i) = "playing"
         /\ rooms[i] # NoRoom /\ ~cleaned[rooms[i]] /\ ~gameStarted[rooms[i]]
              => PhaseOf(i) = "waiting"
BY DEF PhaseOf

\* The same in the state after a step.
LEMMA PhaseCasesNext ==
  ASSUME NEW i \in RoomID
  PROVE  /\ rooms'[i] = NoRoom => PhaseOf(i)' = "none"
         /\ rooms'[i] # NoRoom /\ cleaned'[rooms'[i]] => PhaseOf(i)' = "over"
         /\ rooms'[i] # NoRoom /\ ~cleaned'[rooms'[i]] /\ gameStarted'[rooms'[i]]
              => PhaseOf(i)' = "playing"
         /\ rooms'[i] # NoRoom /\ ~cleaned'[rooms'[i]] /\ ~gameStarted'[rooms'[i]]
              => PhaseOf(i)' = "waiting"
BY DEF PhaseOf

\* An id whose room, with its roster and flags, stays as it is.
LEMMA SameOfID ==
  ASSUME NEW i \in RoomID, rooms'[i] = rooms[i],
         rooms[i] # NoRoom =>
           /\ cleaned'[rooms[i]] = cleaned[rooms[i]]
           /\ gameStarted'[rooms[i]] = gameStarted[rooms[i]]
           /\ players'[rooms[i]] = players[rooms[i]]
  PROVE  phases'[i] = phases[i] /\ rosters'[i] = rosters[i]
BY DEF phases, rosters, PhaseOf

\* What is known of phases and rosters when all ids but one stay as they are.
LEMMA OneChanges ==
  ASSUME NEW i \in RoomID, NEW x, NEW y,
         \A j \in RoomID \ {i} : phases'[j] = phases[j] /\ rosters'[j] = rosters[j],
         phases'[i] = x, rosters'[i] = y
  PROVE  phases' = [phases EXCEPT ![i] = x] /\ rosters' = [rosters EXCEPT ![i] = y]
BY DEF phases, rosters

\* There is a place in the Lobby exactly when createRoom finds one in the index.
LEMMA PlaceIs == L!Place <=> Cardinality(Indexed) < MaxRooms
<1>1. {i \in RoomID : phases[i] # "none"} = Indexed
  BY PhaseCases DEF phases, Indexed
<1>2. L!Cardinality(Indexed) = Cardinality(Indexed)
  BY Zenon DEF L!Cardinality, Cardinality, L!IsFiniteSet, IsFiniteSet
<1> QED
  BY <1>1, <1>2 DEF L!Place

\* createRoom opens a room: its id is free, and the struct is new and empty.
LEMMA CreateOpens ==
  ASSUME RoomServerAssumption, ManagerTyped, OpenTyped, Places, Stages,
         NEW s \in Session, NEW r \in Room, CreateRoom(s, r)
  PROVE  L!Next
<1> DEFINE i == op[s].id
<1>1. /\ i \in RoomID /\ rooms[i] = NoRoom /\ loop[r] = "none"
      /\ rooms' = [rooms EXCEPT ![i] = r]
      /\ UNCHANGED <<players, cleaned>>
  BY CreateEffect
<1>2. UNCHANGED gameStarted /\ Cardinality(Indexed) < MaxRooms
  BY DEF CreateRoom, R!Start
<1> HIDE DEF i
<1>3. ~gameStarted[r] /\ ~cleaned[r] /\ players[r] = {}
  BY <1>1 DEF Stages
<1>4. rooms'[i] = r /\ r # NoRoom /\ \A j \in RoomID \ {i} : rooms'[j] = rooms[j]
  BY <1>1, RoomServerAssumption DEF ManagerTyped
<1>5. \A j \in RoomID \ {i} : phases'[j] = phases[j] /\ rosters'[j] = rosters[j]
  BY <1>1, <1>2, <1>4, SameOfID
<1>6. phases'[i] = "waiting" /\ rosters'[i] = {}
  BY <1>1, <1>2, <1>3, <1>4, PhaseCasesNext DEF phases, rosters
<1>7. phases[i] = "none" /\ rosters[i] = {}
  BY <1>1, PhaseCases DEF phases, rosters
<1>8. phases' = [phases EXCEPT ![i] = "waiting"] /\ rosters' = [rosters EXCEPT ![i] = {}]
  BY <1>1, <1>5, <1>6, OneChanges
<1>9. rosters' = rosters
  BY <1>7, <1>8 DEF rosters
<1> QED
  BY <1>1, <1>2, <1>7, <1>8, <1>9, PlaceIs DEF L!Next, L!Open

\* finishRoom ends the room of its id: the struct whose goroutine calls it is the one in
\* the index, and its game was started.  The entry stays when nobody is in the room.
LEMMA FinishFinishes ==
  ASSUME RoomServerAssumption, ManagerTyped, OpenTyped, Places, Stages,
         NEW r \in Room, FinishRoom(r)
  PROVE  L!Next
<1> DEFINE i == idOf[r]
<1>1. /\ loop[r] = "finishing" /\ ~cleaned[r]
      /\ cleaned' = [cleaned EXCEPT ![r] = TRUE]
      /\ UNCHANGED <<players, gameStarted>>
      /\ rooms' = IF players[r] = {} THEN rooms ELSE RoomsWithout(r)
  BY DEF FinishRoom, roomVars
<1>2. i \in RoomID /\ rooms[i] = r /\ r # NoRoom /\ gameStarted[r]
  BY <1>1, RoomServerAssumption DEF Places, KeepsPlace, Stages
<1>3. \A j \in RoomID \ {i} : rooms[j] # r
  BY RoomServerAssumption DEF Places, IndexBack
<1> HIDE DEF i
<1>4. \A j \in RoomID \ {i} : rooms'[j] = rooms[j]
  BY <1>1, <1>3 DEF RoomsWithout
<1>5. cleaned'[r] /\ \A q \in Room \ {r} : cleaned'[q] = cleaned[q]
  BY <1>1 DEF OpenTyped
<1>6. \A j \in RoomID \ {i} : phases'[j] = phases[j] /\ rosters'[j] = rosters[j]
  <2> SUFFICES ASSUME NEW j \in RoomID \ {i}
               PROVE  phases'[j] = phases[j] /\ rosters'[j] = rosters[j]
    OBVIOUS
  <2>1. rooms[j] # NoRoom => rooms[j] \in Room \ {r}
    BY <1>3 DEF ManagerTyped
  <2> QED
    BY <1>1, <1>4, <1>5, <2>1, SameOfID
<1>7. phases[i] = "playing" /\ rosters[i] = players[r]
  BY <1>1, <1>2, PhaseCases DEF phases, rosters
<1>8. phases'[i] = (IF rosters[i] = {} THEN "over" ELSE "none") /\ rosters'[i] = {}
  <2>1. CASE players[r] = {}
    <3>1. rooms'[i] = r
      BY <1>1, <1>2, <2>1
    <3> QED
      BY <1>1, <1>2, <1>5, <1>7, <2>1, <3>1, PhaseCasesNext DEF phases, rosters
  <2>2. CASE players[r] # {}
    <3>1. rooms'[i] = NoRoom
      BY <1>1, <1>2, <2>2 DEF RoomsWithout, i
    <3> QED
      BY <1>2, <1>7, <2>2, <3>1, PhaseCasesNext DEF phases, rosters
  <2> QED
    BY <2>1, <2>2
<1>9. /\ phases' = [phases EXCEPT ![i] = IF rosters[i] = {} THEN "over" ELSE "none"]
      /\ rosters' = [rosters EXCEPT ![i] = {}]
  BY <1>2, <1>6, <1>8, OneChanges
<1> QED
  BY <1>2, <1>7, <1>9 DEF L!Next, L!Finish

\* A step of a room's goroutine is a player coming in, a member leaving, or nothing: while
\* the goroutine runs the id names its struct, and after that it changes no roster.
LEMMA StepEnters ==
  ASSUME RoomServerAssumption, R!TypeOK, ManagerTyped, OpenTyped, Places, Stages,
         NEW r \in Room, RoomStep(r)
  PROVE  L!Next \/ UNCHANGED <<phases, rosters>>
<1> DEFINE i == idOf[r]
<1>1. R!LoopStep(r) /\ UNCHANGED <<rooms, cleaned>>
  BY DEF RoomStep, othersVars, managerVars
<1>2. CASE UNCHANGED <<players, gameStarted>>
  BY <1>1, <1>2 DEF phases, rosters, PhaseOf
<1>3. ASSUME loop[r] = "running"
      PROVE  /\ i \in RoomID /\ rooms[i] = r /\ r # NoRoom /\ ~cleaned[r]
             /\ \A j \in RoomID \ {i} : rooms[j] # r
  BY <1>3, RoomServerAssumption DEF Places, KeepsPlace, IndexBack, Stages
<1> HIDE DEF i
<1>4. ASSUME loop[r] = "running",
             \A q \in Room \ {r} : players'[q] = players[q] /\ gameStarted'[q] = gameStarted[q]
      PROVE  /\ rosters[i] = players[r] /\ rosters'[i] = players'[r]
             /\ phases[i] = IF gameStarted[r] THEN "playing" ELSE "waiting"
             /\ phases'[i] = IF gameStarted'[r] THEN "playing" ELSE "waiting"
             /\ phases' = [phases EXCEPT ![i] = IF gameStarted'[r] THEN "playing" ELSE "waiting"]
             /\ rosters' = [rosters EXCEPT ![i] = players'[r]]
  <2>1. ASSUME NEW j \in RoomID \ {i}
        PROVE  phases'[j] = phases[j] /\ rosters'[j] = rosters[j]
    <3>1. rooms[j] # NoRoom => rooms[j] \in Room \ {r}
      BY <1>3, <1>4 DEF ManagerTyped
    <3> QED
      BY <1>1, <1>4, <3>1, SameOfID
  <2>2. rosters[i] = players[r] /\ phases[i] = IF gameStarted[r] THEN "playing" ELSE "waiting"
    BY <1>3, <1>4, PhaseCases DEF phases, rosters
  <2>3. /\ rosters'[i] = players'[r]
        /\ phases'[i] = IF gameStarted'[r] THEN "playing" ELSE "waiting"
    BY <1>1, <1>3, <1>4, PhaseCasesNext DEF phases, rosters
  <2> QED
    BY <1>3, <1>4, <2>1, <2>2, <2>3, OneChanges
<1>5. ASSUME loop[r] = "running", ~gameStarted[r], NEW p \in Player, p \notin players[r],
             players' = [players EXCEPT ![r] = players[r] \cup {p}],
             gameStarted' = [gameStarted EXCEPT ![r] =
               Cardinality(players[r] \cup {p}) = MaxPlayers]
      PROVE  L!Next
  <2>1. /\ players'[r] = players[r] \cup {p}
        /\ gameStarted'[r] = (Cardinality(players[r] \cup {p}) = MaxPlayers)
        /\ \A q \in Room \ {r} : players'[q] = players[q] /\ gameStarted'[q] = gameStarted[q]
    BY <1>5 DEF R!TypeOK
  <2>2. L!Cardinality(players[r] \cup {p}) = Cardinality(players[r] \cup {p})
    BY Zenon DEF L!Cardinality, Cardinality, L!IsFiniteSet, IsFiniteSet
  <2>3. L!Enter(i, p)
    BY <1>4, <1>5, <2>1, <2>2 DEF L!Enter
  <2> QED
    BY <1>3, <1>5, <2>3 DEF L!Next
<1>6. ASSUME loop[r] = "running", UNCHANGED gameStarted, NEW p \in players[r],
             players' = [players EXCEPT ![r] = players[r] \ {p}]
      PROVE  L!Next
  <2>1. /\ players'[r] = players[r] \ {p} /\ p \in Player
        /\ \A q \in Room \ {r} : players'[q] = players[q] /\ gameStarted'[q] = gameStarted[q]
    BY <1>6 DEF R!TypeOK
  <2>2. phases' = phases
    BY <1>3, <1>4, <1>6, <2>1 DEF phases
  <2>3. L!Quit(i, p)
    BY <1>4, <1>6, <2>1, <2>2 DEF L!Quit
  <2> QED
    BY <1>3, <1>6, <2>1, <2>3 DEF L!Next
<1> QED
  BY <1>1, <1>2, <1>5, <1>6, LoopChanges, RoomServerAssumption

\* A room server does what Lobby says, on which System builds the match: what its ids
\* name, in the index and in the rooms together, goes from none to waiting to playing
\* and back, never skips a phase, never takes a player into a game that is on, and never
\* shows two rooms under one id (createRoom, handleJoinEvent, handleLeaveEvent,
\* finishRoom).
THEOREM ServerIsLobby == Spec => ImplementsLobby
<1>1. Init => Places /\ Stages /\ L!Init
  <2> SUFFICES ASSUME Init
               PROVE  Places /\ Stages /\ L!Init
    OBVIOUS
  <2>1. Places
    BY DEF Init, R!Init, Places, HoldsRoom, IndexBack, KeepsPlace, Idle
  <2>2. Stages
    BY DEF Init, R!Init, Stages
  <2>3. phases = [i \in RoomID |-> "none"] /\ rosters = [i \in RoomID |-> {}]
    BY PhaseCases DEF Init, phases, rosters
  <2> QED
    BY <2>1, <2>2, <2>3 DEF L!Init
<1>2. ManagerTyped /\ OpenTyped /\ Places /\ [Next]_vars => Places'
  BY PlacesStep, RoomServerAssumption
<1>3. R!TypeOK /\ ManagerTyped /\ OpenTyped /\ Stages /\ [Next]_vars => Stages'
  BY StagesStep, RoomServerAssumption
<1>4. R!TypeOK /\ ManagerTyped /\ OpenTyped /\ Places /\ Stages /\ [Next]_vars
      => [L!Next]_(L!vars)
  <2> SUFFICES ASSUME R!TypeOK, ManagerTyped, OpenTyped, Places, Stages, [Next]_vars
               PROVE  L!Next \/ UNCHANGED <<phases, rosters>>
    BY DEF L!vars
  <2>1. CASE UNCHANGED seen
    BY <2>1 DEF seen, phases, rosters, PhaseOf
  <2> QED
    BY <2>1, LobbyWriters, CreateOpens, FinishFinishes, StepEnters, RoomServerAssumption
<1>5. Spec => []R!TypeOK
  BY ServerRoomsSound, PTL
<1> QED
  BY <1>1, <1>2, <1>3, <1>4, <1>5, ManagerAlwaysTyped, OpenAlwaysTyped,
     RoomServerAssumption, PTL DEF Spec, ImplementsLobby, L!Spec
=============================================================================
