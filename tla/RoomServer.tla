----------------------------- MODULE RoomServer -----------------------------
(***************************************************************************)
(* A roomserver: sessions (service/session.go, service/server.go), the      *)
(* RoomManager they share (logic/room_manager.go) and its rooms (Room).     *)
(* A session's read loop handles one message at a time; the manager's maps  *)
(* rooms and playerRooms change only under its lock, so each critical       *)
(* section is one step, and what a handler does with what it found there    *)
(* comes in later steps.  A Room object is made at most once; its id may be *)
(* that of an older one.                                                    *)
(*                                                                         *)
(* Left out: the equipment call at the head of JoinRoom, which changes      *)
(* nothing and whose failure is a join that never starts; heartbeats and    *)
(* errors sent back; the network below the sessions.                        *)
(***************************************************************************)
EXTENDS Integers, Sequences, FiniteSets

CONSTANTS Room, Player, Session, MaxPlayers, NumSpawns, QueueCap, GameTicks,
          RoomID,      \* ids that tokens carry
          Token,       \* <<session, player, room id>>: the valid room tokens
                       \* that the client of the session may send
          MaxRooms,    \* maxRooms
          MaxMessages, \* bound of the model: messages a client sends
          NoRoom, NoID \* nil and ""

ASSUME RoomServerAssumption ==
  /\ IsFiniteSet(Player)
  /\ MaxPlayers \in Nat \ {0}
  /\ NumSpawns \in Nat
  /\ QueueCap \in Nat \ {0}
  /\ GameTicks \in Nat \ {0}
  /\ Token \subseteq Session \X Player \X RoomID
  /\ MaxRooms \in Nat \ {0}
  /\ MaxMessages \in Nat
  /\ NoRoom \notin Room
  /\ NoID \notin RoomID

VARIABLES loop, stopped, events, players, spawnID, bodies, gameStarted,
          gameEnded, remaining, releasing, joinSlots, joinClosed, calls, ack

VARIABLES
  idOf,         \* id of each Room object, NoID while it does not exist
  rooms,        \* RoomManager.rooms
  playerRooms,  \* RoomManager.playerRooms
  cleaned,      \* finishRoom of this room has left its critical section
  open,         \* the session's read loop runs
  bound,        \* <<playerID, roomID>> of the session
  op,           \* what the session's handler is doing
  sent,         \* messages handled for the session so far
  down,         \* the server's context is cancelled
  dropped       \* history: players whose leave event a full channel has lost

roomVars == <<loop, stopped, events, players, spawnID, bodies, gameStarted,
              gameEnded, remaining, releasing, joinSlots, joinClosed, calls, ack>>
managerVars == <<idOf, rooms, playerRooms, cleaned>>
sessionVars == <<open, bound, op, sent>>
othersVars == <<managerVars, sessionVars, down, dropped>>
vars == <<roomVars, othersVars>>

R == INSTANCE RoomGame WITH Caller <- Session

Unbound == <<"none", NoID>>
Idle == [at |-> "idle"]

\* A handler is idle, about to create the room, about to call Join, inside
\* Join, about to record the player, about to call Leave, or waiting for the
\* answer to a stats query.
Op == [at : {"idle"}]
      \cup [at : {"create"}, player : Player, id : RoomID]
      \cup [at : {"join", "joining", "record", "leaving", "asking"},
            player : Player, id : RoomID, room : Room]

TypeOK ==
  /\ R!TypeOK
  /\ idOf \in [Room -> RoomID \cup {NoID}]
  /\ rooms \in [RoomID -> Room \cup {NoRoom}]
  /\ playerRooms \in [Player -> RoomID \cup {NoID}]
  /\ cleaned \in [Room -> BOOLEAN]
  /\ open \in [Session -> BOOLEAN]
  /\ bound \in [Session -> (Player \X RoomID) \cup {Unbound}]
  /\ op \in [Session -> Op]
  /\ sent \in [Session -> 0..MaxMessages]
  /\ down \in BOOLEAN
  /\ dropped \in [Room -> SUBSET Player]

Init ==
  /\ R!Init
  /\ idOf = [r \in Room |-> NoID]
  /\ rooms = [i \in RoomID |-> NoRoom]
  /\ playerRooms = [p \in Player |-> NoID]
  /\ cleaned = [r \in Room |-> FALSE]
  /\ open = [s \in Session |-> TRUE]
  /\ bound = [s \in Session |-> Unbound]
  /\ op = [s \in Session |-> Idle]
  /\ sent = [s \in Session |-> 0]
  /\ down = FALSE
  /\ dropped = [r \in Room |-> {}]

-----------------------------------------------------------------------------
(* Joining: handleJoinRoom, JoinRoom, getOrCreateRoom.                     *)

Goto(s, o) == op' = [op EXCEPT ![s] = o]

\* A session's read loop has a message for its handler.
Ready(s) == open[s] /\ op[s].at = "idle"
Receives(s) ==
  /\ Ready(s)
  /\ sent[s] < MaxMessages
  /\ sent' = [sent EXCEPT ![s] = @ + 1]

\* JoinRoom up to the read lock of getOrCreateRoom.  (Once the context is
\* cancelled its equipment call fails.)
JoinRoom(s, p, i) ==
  /\ Receives(s)
  /\ ~down
  /\ <<s, p, i>> \in Token
  /\ Goto(s, IF rooms[i] = NoRoom
             THEN [at |-> "create", player |-> p, id |-> i]
             ELSE [at |-> "join", player |-> p, id |-> i, room |-> rooms[i]])
  /\ UNCHANGED <<roomVars, managerVars, open, bound, down, dropped>>

Indexed == {i \in RoomID : rooms[i] # NoRoom}

FoundRoomMutant(s) == FALSE
\* The second look, under the write lock.
FoundRoom(s) == rooms[op[s].id] # NoRoom

\* The write lock of getOrCreateRoom, when another session has made the room.
FindRoom(s) ==
  /\ op[s].at = "create"
  /\ FoundRoom(s)
  /\ Goto(s, [at |-> "join", player |-> op[s].player, id |-> op[s].id,
              room |-> rooms[op[s].id]])
  /\ UNCHANGED <<roomVars, managerVars, open, bound, sent, down, dropped>>

\* The room limit is reached, or the physics world cannot be made.
CreateFails(s) ==
  /\ op[s].at = "create"
  /\ ~FoundRoom(s)
  /\ Goto(s, Idle)
  /\ UNCHANGED <<roomVars, managerVars, open, bound, sent, down, dropped>>

\* A new Room object is made, started and indexed under the lock.
CreateRoom(s, r) ==
  /\ op[s].at = "create"
  /\ ~FoundRoom(s)
  /\ Cardinality(Indexed) < MaxRooms
  /\ R!Start(r)
  /\ idOf' = [idOf EXCEPT ![r] = op[s].id]
  /\ rooms' = [rooms EXCEPT ![op[s].id] = r]
  /\ Goto(s, [at |-> "join", player |-> op[s].player, id |-> op[s].id, room |-> r])
  /\ UNCHANGED <<playerRooms, cleaned, open, bound, sent, down, dropped>>

\* IsJoinClosed, and Room.Join's own look at joinClosed: it never reopens, so
\* the second answer is the one that counts.
JoinRefused(s) ==
  /\ op[s].at = "join"
  /\ joinClosed[op[s].room]
  /\ Goto(s, Idle)
  /\ UNCHANGED <<roomVars, managerVars, open, bound, sent, down, dropped>>

EnterJoin(s) ==
  /\ op[s].at = "join"
  /\ R!JoinCheck(s, op[s].room, op[s].player)
  /\ Goto(s, [op[s] EXCEPT !.at = "joining"])
  /\ UNCHANGED <<managerVars, open, bound, sent, down, dropped>>

\* A step of Room.Join by session s; it returns true or false when it is over.
JoinStep(s) ==
  /\ op[s].at = "joining"
  /\ \E k \in calls :
       /\ k.caller = s
       /\ \/ /\ R!JoinReserve(k) \/ R!JoinPushFails(k)
             /\ UNCHANGED op
          \/ R!JoinPush(k) /\ Goto(s, [op[s] EXCEPT !.at = "record"])
          \/ R!JoinUndo(k) /\ Goto(s, Idle)
  /\ UNCHANGED <<managerVars, open, bound, sent, down, dropped>>

RecordPlayerMutant(s) ==
  /\ op[s].at = "record"
  /\ playerRooms' = [playerRooms EXCEPT ![op[s].player] = op[s].id]
  /\ Goto(s, Idle)
  /\ UNCHANGED <<roomVars, idOf, rooms, cleaned, open, bound, sent, down, dropped>>
\* JoinRoom's last critical section, and SetPlayer, which only the session's
\* own handler reads.  The room has not yet handled the join.
RecordPlayer(s) ==
  /\ op[s].at = "record"
  /\ playerRooms' = [playerRooms EXCEPT ![op[s].player] = op[s].id]
  /\ bound' = [bound EXCEPT ![s] = <<op[s].player, op[s].id>>]
  /\ Goto(s, Idle)
  /\ UNCHANGED <<roomVars, idOf, rooms, cleaned, open, sent, down, dropped>>

-----------------------------------------------------------------------------
(* Leaving and playing: handleLeaveRoom, HandleSessionClosed, LeaveRoom,   *)
(* handlePlayerInput.                                                      *)

StaleLeaveMutant(p, i) == FALSE
StaleIfNoRoom(p, i) == playerRooms[p] \notin {NoID, i} \/ rooms[i] = NoRoom
\* The player has since joined another room.
StaleLeave(p, i) == playerRooms[p] \notin {NoID, i}

\* LeaveRoom's critical section for the session's player; after it the session
\* has either a room to call Leave on or nothing left to do.
LeaveRoom(s) ==
  LET p == bound[s][1]
      i == bound[s][2]
      current == playerRooms[p]
      target == IF StaleLeave(p, i) \/ current = NoID THEN NoRoom ELSE rooms[current]
  IN /\ playerRooms' = IF StaleLeave(p, i) THEN playerRooms
                       ELSE [playerRooms EXCEPT ![p] = NoID]
     /\ Goto(s, IF target = NoRoom THEN Idle
                ELSE [at |-> "leaving", player |-> p, id |-> i, room |-> target])
     /\ bound' = IF target = NoRoom /\ open'[s]
                 THEN [bound EXCEPT ![s] = Unbound] ELSE bound
     /\ UNCHANGED <<roomVars, idOf, rooms, cleaned, down, dropped>>

\* The client asks to leave.
AskToLeave(s) ==
  /\ Receives(s)
  /\ bound[s] # Unbound
  /\ UNCHANGED open
  /\ LeaveRoom(s)

CloseMutant(s) ==
  /\ Ready(s)
  /\ open' = [open EXCEPT ![s] = FALSE]
  /\ UNCHANGED <<roomVars, managerVars, bound, op, sent, down, dropped>>
\* The connection is lost, times out or is closed: the read loop ends and
\* HandleSessionClosed runs.
Close(s) ==
  /\ Ready(s)
  /\ UNCHANGED sent
  /\ open' = [open EXCEPT ![s] = FALSE]
  /\ IF bound[s] = Unbound
     THEN UNCHANGED <<roomVars, managerVars, bound, op, down, dropped>>
     ELSE LeaveRoom(s)

LeftBy(s) == bound' = IF open[s] THEN [bound EXCEPT ![s] = Unbound] ELSE bound

\* Room.Leave, whose result LeaveRoom ignores.
PushLeave(s) ==
  /\ op[s].at = "leaving"
  /\ Goto(s, Idle)
  /\ LeftBy(s)
  /\ \/ R!Leave(s, op[s].room, op[s].player) /\ UNCHANGED dropped
     \/ /\ ~R!CanPush(op[s].room)
        /\ dropped' = [dropped EXCEPT ![op[s].room] = @ \cup {op[s].player}]
        /\ UNCHANGED roomVars
  /\ UNCHANGED <<managerVars, open, sent, down>>

\* The room that playerRoom finds for the session's player has place for event.
PushToRoom(s) ==
  LET i == playerRooms[bound[s][1]] IN
    /\ i # NoID
    /\ rooms[i] # NoRoom
    /\ R!PushInput(s, rooms[i])

\* An input of a session that is bound to a player.
PlayerInput(s) ==
  /\ Receives(s)
  /\ bound[s] # Unbound
  /\ PushToRoom(s)
  /\ UNCHANGED <<managerVars, open, bound, op, down, dropped>>

\* QueryPlayerStats: the handler pushes its question and waits.
AskStats(s) ==
  /\ Receives(s)
  /\ bound[s] # Unbound
  /\ PushToRoom(s)
  /\ Goto(s, [at |-> "asking", player |-> bound[s][1], id |-> bound[s][2],
              room |-> rooms[playerRooms[bound[s][1]]]])
  /\ UNCHANGED <<managerVars, open, bound, down, dropped>>

\* The answer of the room, its stop, or playerStatsQueryTimeout: a room whose
\* game is over answers nothing any more and does not close its stop channel.  An
\* answer that is late goes to a channel with a place for it.
StatsReturn(s) ==
  /\ op[s].at = "asking"
  /\ Goto(s, Idle)
  /\ UNCHANGED <<roomVars, managerVars, open, bound, sent, down, dropped>>

-----------------------------------------------------------------------------
(* Rooms, and the end of the server.                                       *)

RoomsStayMutant(r) == rooms
\* The index without room r; an entry of its id that is another room's stays.
RoomsWithout(r) ==
  [i \in RoomID |-> IF i = idOf[r] /\ rooms[i] = r THEN NoRoom ELSE rooms[i]]

\* finishRoom up to the release of the lock.  A room that everybody has left
\* is not cleaned up.
FinishRoom(r) ==
  /\ loop[r] = "finishing"
  /\ ~cleaned[r]
  /\ cleaned' = [cleaned EXCEPT ![r] = TRUE]
  /\ IF players[r] = {}
     THEN UNCHANGED <<rooms, playerRooms>>
     ELSE /\ rooms' = RoomsWithout(r)
          /\ playerRooms' = [p \in Player |->
               IF p \in players[r] /\ playerRooms[p] = idOf[r]
               THEN NoID ELSE playerRooms[p]]
  /\ UNCHANGED <<roomVars, idOf, sessionVars, down, dropped>>

\* A step of the room's goroutine.  It leaves onFinished only after finishRoom
\* has done its part (the settlement call, which may fail, comes in between).
RoomStep(r) ==
  /\ loop[r] = "finishing" => cleaned[r]
  /\ R!LoopStep(r)
  /\ UNCHANGED othersVars

\* The server is told to stop: its context is cancelled, which every room sees
\* in its own time, the ones made later too.
Shutdown ==
  /\ ~down
  /\ down' = TRUE
  /\ UNCHANGED <<roomVars, managerVars, sessionVars, dropped>>

StopRoom(r) ==
  /\ down
  /\ ~stopped[r]
  /\ R!Stop(r)
  /\ UNCHANGED <<managerVars, sessionVars, down, dropped>>

\* What a session does on its own once its handler has begun.
HandlerStep(s) ==
  \/ FindRoom(s) \/ CreateFails(s) \/ (\E r \in Room : CreateRoom(s, r))
  \/ JoinRefused(s) \/ EnterJoin(s) \/ JoinStep(s) \/ RecordPlayer(s)
  \/ PushLeave(s) \/ StatsReturn(s)

Next ==
  \/ \E s \in Session :
       \/ \E p \in Player, i \in RoomID : JoinRoom(s, p, i)
       \/ AskToLeave(s) \/ Close(s) \/ PlayerInput(s) \/ AskStats(s)
       \/ HandlerStep(s)
  \/ \E r \in Room : FinishRoom(r) \/ RoomStep(r) \/ StopRoom(r)
  \/ Shutdown

Spec == Init /\ [][Next]_vars

\* A handler that has begun goes on to its end: it pushes without waiting, and
\* the one answer it waits for has a time limit.  The goroutine of a room keeps running, and its select chooses among the
\* ready cases at random, so that it starves none of them: a closed stop channel
\* is seen although the loop is away handling events again and again (SF).
\* Nothing obliges a client to send, nor the callback of finishGame, a remote
\* call without a deadline, to return.
Fairness ==
  /\ \A s \in Session : WF_vars(HandlerStep(s))
  /\ \A r \in Room : /\ WF_vars(R!HandleEvent(r) /\ UNCHANGED othersVars)
                     /\ WF_vars(R!ReleaseJoinSlot(r) /\ UNCHANGED othersVars)
                     /\ WF_vars(R!Tick(r) /\ UNCHANGED othersVars)
                     /\ SF_vars(R!StopExit(r) /\ UNCHANGED othersVars)
                     /\ WF_vars(FinishRoom(r))
                     /\ WF_vars(StopRoom(r))

FairSpec == Spec /\ Fairness

-----------------------------------------------------------------------------
(* The server as a Lobby.  The room of an id is the one that the manager     *)
(* finds under it; one that finishRoom has left there is over.               *)

PhaseOf(i) ==
  CASE rooms[i] = NoRoom -> "none"
    [] rooms[i] # NoRoom /\ cleaned[rooms[i]] -> "over"
    [] rooms[i] # NoRoom /\ ~cleaned[rooms[i]] /\ gameStarted[rooms[i]] -> "playing"
    [] OTHER -> "waiting"

phases  == [i \in RoomID |-> PhaseOf(i)]
rosters == [i \in RoomID |-> IF rooms[i] = NoRoom THEN {} ELSE players[rooms[i]]]

L == INSTANCE Lobby WITH phase <- phases, roster <- rosters

-----------------------------------------------------------------------------
(* Properties.                                                             *)

\* However sessions race in getOrCreateRoom, a room that runs is the one the
\* manager finds under its id: no id has two live rooms, and none is out of the
\* reach of leaves and inputs.
RunningIsIndexed ==
  \A r \in Room : loop[r] = "running" => rooms[idOf[r]] = r

\* Somebody will take player p out of room r: a session that is bound to it or
\* about to be, a leave under way, or a leave in the channel.
HasOwner(p, r) ==
  \/ \E s \in Session : open[s] /\ bound[s] = <<p, idOf[r]>>
  \/ \E s \in Session : /\ op[s].at \in {"record", "leaving"}
                        /\ op[s].player = p /\ op[s].room = r
  \/ \E j \in DOMAIN events[r] :
       events[r][j] = [type |-> "leave", player |-> p]

\* README section 12: a connection that is lost ends in handleLeave.  So a
\* member of a room that runs always has an owner.
MembersOwned ==
  \A r \in Room : loop[r] = "running" => \A p \in players[r] : HasOwner(p, r)

\* The same, except for the leave events that a full channel has lost: when
\* every session keeps to one player and one room, nothing else (a second
\* login of the player, a join recorded late, a room made twice) leaves a
\* member behind.
OnlyDropsOrphan ==
  \A r \in Room : loop[r] = "running" =>
    \A p \in players[r] : HasOwner(p, r) \/ p \in dropped[r]

\* A player's entry in playerRooms is only removed by a session of that player
\* bound to that very room, or with the end of that room's game: the late close
\* of an old connection does not cut a player off from a new room (LeaveRoom,
\* finishRoom).
EntryRemovedByOwner ==
  [][\A p \in Player :
       playerRooms[p] # NoID /\ playerRooms'[p] = NoID =>
         \/ \E s \in Session : /\ bound[s] = <<p, playerRooms[p]>>
                               /\ <<open'[s], bound'[s], op'[s]>>
                                    # <<open[s], bound[s], op[s]>>
         \/ \E r \in Room : /\ idOf[r] = playerRooms[p]
                            /\ cleaned'[r] # cleaned[r]]_vars

\* When every session keeps to one player, an entry of playerRooms has an open session
\* of the player behind it, bound to the entry's room, whose end will remove it: also when
\* the entry was written after the room's game and its finishRoom were over, or while
\* another session of the player was leaving (JoinRoom, LeaveRoom, finishRoom).
EntriesOwned ==
  \A p \in Player :
    playerRooms[p] # NoID => \E s \in Session : open[s] /\ bound[s] = <<p, playerRooms[p]>>

\* Taken together they do what Lobby says, whatever sessions race to make, fill,
\* leave and finish them: an id names one room at a time, from getOrCreateRoom to
\* finishRoom; a game starts when its room is full and gets nobody new; a room made
\* after it is empty and within maxRooms; and no other room is touched by it.
ImplementsLobby == L!Spec

\* A player whose connections are all gone leaves the roster of a live room in
\* the end, unless its leave event was lost.
ClosedPlayerLeaves ==
  \A r \in Room, p \in Player :
    (/\ loop[r] = "running" /\ p \in players[r]
     /\ \A s \in Session : bound[s][1] = p => ~open[s])
      ~> (\/ p \notin players[r] \/ loop[r] # "running" \/ p \in dropped[r]
          \/ \E s \in Session : open[s] /\ bound[s][1] = p)
\* A join in the channel of a live room is answered, with ok or a refusal,
\* whatever other sessions do to the channel, the room and its index meanwhile.
JoinAnswered == R!JoinAnswered

\* The room of a server keeps what a Game promises, its liveness included: a game
\* that is being played ends, by its time or the end of the server, even when
\* every session of it is gone (update, finishGame, loop).
GamesConclude == R!ImplementsFairGame

\* A message never holds up the read loop of its session for good, so that the
\* messages after it and the end of the connection are handled: no call waits for
\* a room whose goroutine has ended with its channel full (JoinRoom, LeaveRoom,
\* Room.pushEvent).
HandlersReturn == \A s \in Session : op[s].at # "idle" ~> op[s].at = "idle"

=============================================================================
