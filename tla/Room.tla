-------------------------------- MODULE Room --------------------------------
(***************************************************************************)
(* The room of roomserver/logic/room.go: one goroutine per room (Room.loop) *)
(* owns the roster and the state of the game, and takes its events from a   *)
(* bounded channel; any number of connection goroutines call Join, Leave    *)
(* and PushInput.  The callers share with the loop the channel and two      *)
(* atomics, joinSlots and joinClosed, which are read and written outside    *)
(* the channel: every access to an atomic is a step of its own here.        *)
(*                                                                         *)
(* Room is the set of Room objects, indexed so that RoomServer can run      *)
(* several of them.  The input, fire and snapshot part of a tick does not   *)
(* touch this state and is left out; an input is only its place in the      *)
(* channel.  The tick counter enters through its distance to gameEndTick.   *)
(***************************************************************************)
EXTENDS Integers, Sequences, FiniteSets

CONSTANTS Room,        \* Room objects
          Player,      \* player ids
          Caller,      \* goroutines that call into a room (session read loops)
          MaxPlayers,  \* maxPlayers
          NumSpawns,   \* spawn points of the map, numbered in the order listed
          QueueCap,    \* capacity of the event channel (256 in the code)
          GameTicks    \* gameDurationTicks, at least 1 (durationToTicks)

ASSUME RoomAssumption ==
  /\ IsFiniteSet(Player)
  /\ MaxPlayers \in Nat \ {0}
  /\ NumSpawns \in Nat
  /\ QueueCap \in Nat \ {0}
  /\ GameTicks \in Nat \ {0}

VARIABLES
  loop,         \* where the room's goroutine is
  stopped,      \* the stop channel is closed
  events,       \* the event channel
  players,      \* keys of r.players
  spawnID,      \* SpawnID of each member, 0 for the others
  bodies,       \* players that have a body in the room's physics world
  gameStarted,
  gameEnded,
  remaining,    \* gameEndTick - tick once the game has started
  releasing,    \* releaseJoinSlot has read joinSlots > 0 and not yet decremented
  joinSlots,    \* atomic: seats taken or promised, as Join counts them
  joinClosed,   \* atomic
  calls,        \* calls of Room.Join under way
  ack           \* last JoinRoomAck sent to each caller for its last queued join

loopVars == <<loop, stopped, players, spawnID, bodies, gameStarted, gameEnded,
              remaining, releasing>>
vars == <<loop, stopped, events, players, spawnID, bodies, gameStarted,
          gameEnded, remaining, releasing, joinSlots, joinClosed, calls, ack>>

JoinEvent  == [type : {"join"}, player : Player, from : Caller]
LeaveEvent == [type : {"leave"}, player : Player]
InputEvent == [type : {"input"}]
Event      == JoinEvent \cup LeaveEvent \cup InputEvent

\* A call of Join: "checked" after it has seen joinClosed false, "reserved"
\* after an Add(1) within the limit, "undo" when it owes an Add(-1).
Call == [caller : Caller, room : Room, player : Player,
         at : {"checked", "reserved", "undo"}]

TypeOK ==
  /\ loop \in [Room -> {"none", "running", "finishing", "exited"}]
  /\ stopped \in [Room -> BOOLEAN]
  /\ events \in [Room -> Seq(Event)]
  /\ players \in [Room -> SUBSET Player]
  /\ spawnID \in [Room -> [Player -> 0..NumSpawns]]
  /\ bodies \in [Room -> SUBSET Player]
  /\ gameStarted \in [Room -> BOOLEAN]
  /\ gameEnded \in [Room -> BOOLEAN]
  /\ remaining \in [Room -> 0..GameTicks]
  /\ releasing \in [Room -> BOOLEAN]
  /\ joinSlots \in [Room -> Int]
  /\ joinClosed \in [Room -> BOOLEAN]
  /\ calls \in SUBSET Call
  /\ ack \in [Caller -> {"none", "ok", "no"}]

Init ==
  /\ loop = [r \in Room |-> "none"]
  /\ stopped = [r \in Room |-> FALSE]
  /\ events = [r \in Room |-> <<>>]
  /\ players = [r \in Room |-> {}]
  /\ spawnID = [r \in Room |-> [p \in Player |-> 0]]
  /\ bodies = [r \in Room |-> {}]
  /\ gameStarted = [r \in Room |-> FALSE]
  /\ gameEnded = [r \in Room |-> FALSE]
  /\ remaining = [r \in Room |-> 0]
  /\ releasing = [r \in Room |-> FALSE]
  /\ joinSlots = [r \in Room |-> 0]
  /\ joinClosed = [r \in Room |-> FALSE]
  /\ calls = {}
  /\ ack = [c \in Caller |-> "none"]

-----------------------------------------------------------------------------
(* Callers.                                                                *)

\* Room.Start: the room's goroutine runs from here on.
Start(r) ==
  /\ loop[r] = "none"
  /\ loop' = [loop EXCEPT ![r] = "running"]
  /\ UNCHANGED <<stopped, events, players, spawnID, bodies, gameStarted,
                 gameEnded, remaining, releasing, joinSlots, joinClosed, calls,
                 ack>>

\* Room.Stop; ctx.Done() has the same effect on the loop.
Stop(r) ==
  /\ loop[r] # "none"
  /\ stopped' = [stopped EXCEPT ![r] = TRUE]
  /\ UNCHANGED <<loop, events, players, spawnID, bodies, gameStarted, gameEnded,
                 remaining, releasing, joinSlots, joinClosed, calls, ack>>

\* pushEvent: a non-blocking send, which fails on a full channel.
CanPush(r) == Len(events[r]) < QueueCap

InCall(c) == \E k \in calls : k.caller = c

\* Join, first step: joinClosed is read.  A closed room refuses at once.
JoinCheck(c, r, p) ==
  /\ loop[r] # "none"
  /\ ~InCall(c)
  /\ ~joinClosed[r]
  /\ calls' = calls \cup
       {[caller |-> c, room |-> r, player |-> p, at |-> "checked"]}
  /\ UNCHANGED <<loopVars, events, joinSlots, joinClosed, ack>>

\* Join moves on to its next step.
Advance(k, step) == calls' = (calls \ {k}) \cup {[k EXCEPT !.at = step]}

\* Join, second step: joinSlots.Add(1), and the comparison with what it returns.
JoinReserve(k) ==
  /\ k.at = "checked"
  /\ joinSlots' = [joinSlots EXCEPT ![k.room] = @ + 1]
  /\ Advance(k, IF joinSlots[k.room] + 1 > MaxPlayers THEN "undo" ELSE "reserved")
  /\ UNCHANGED <<loopVars, events, joinClosed, ack>>

\* Join, third step: the join event goes into the channel and Join returns true.
JoinPush(k) ==
  /\ k.at = "reserved"
  /\ CanPush(k.room)
  /\ events' = [events EXCEPT ![k.room] =
       Append(@, [type |-> "join", player |-> k.player, from |-> k.caller])]
  /\ ack' = [ack EXCEPT ![k.caller] = "none"]
  /\ calls' = calls \ {k}
  /\ UNCHANGED <<loopVars, joinSlots, joinClosed>>

JoinPushWaits(k) == FALSE
\* Join, third step, the channel being full.
JoinPushFails(k) ==
  /\ k.at = "reserved"
  /\ ~CanPush(k.room)
  /\ Advance(k, "undo")
  /\ UNCHANGED <<loopVars, events, joinSlots, joinClosed, ack>>

\* Join, last step of a failure: joinSlots.Add(-1) and false is returned.
JoinUndo(k) ==
  /\ k.at = "undo"
  /\ joinSlots' = [joinSlots EXCEPT ![k.room] = @ - 1]
  /\ calls' = calls \ {k}
  /\ UNCHANGED <<loopVars, events, joinClosed, ack>>

\* Leave: a full channel loses the event (the caller ignores the result).
Leave(c, r, p) ==
  /\ loop[r] # "none"
  /\ ~InCall(c)
  /\ CanPush(r)
  /\ events' = [events EXCEPT ![r] = Append(@, [type |-> "leave", player |-> p])]
  /\ UNCHANGED <<loopVars, joinSlots, joinClosed, calls, ack>>

\* PushInput, and the query of QueryPlayerStats: an event that only takes room.
PushInput(c, r) ==
  /\ loop[r] # "none"
  /\ ~InCall(c)
  /\ CanPush(r)
  /\ events' = [events EXCEPT ![r] = Append(@, [type |-> "input"])]
  /\ UNCHANGED <<loopVars, joinSlots, joinClosed, calls, ack>>

-----------------------------------------------------------------------------
(* The room's goroutine.                                                   *)

FreeSpawnsMutant(r) == 1..NumSpawns
\* The spawn points no member holds.
FreeSpawns(r) == (1..NumSpawns) \ {spawnID[r][p] : p \in players[r]}

\* nextSpawnPoint: the first free one in the order of the map.
NextSpawn(r) == CHOOSE s \in FreeSpawns(r) : \A t \in FreeSpawns(r) : s <= t

\* The checks of handleJoinEvent, in their order.
JoinRefused(r, p) ==
  \/ gameStarted[r] \/ gameEnded[r]
  \/ Cardinality(players[r]) >= MaxPlayers
  \/ p \in players[r]
  \/ FreeSpawns(r) = {}

\* The loop is in its select, and takes the first event, of type t.
Takes(r, t) ==
  /\ loop[r] = "running"
  /\ ~releasing[r]
  /\ events[r] # <<>>
  /\ Head(events[r]).type = t
  /\ events' = [events EXCEPT ![r] = Tail(@)]

RefuseJoinKeepsSlot(r, e) ==
  /\ ack' = [ack EXCEPT ![e.from] = "no"]
  /\ UNCHANGED <<players, spawnID, bodies, gameStarted, remaining, joinSlots,
                 joinClosed, releasing>>
RefuseJoinSilently(r, e) ==
  /\ releasing' = [releasing EXCEPT ![r] = joinSlots[r] > 0]
  /\ UNCHANGED <<ack, players, spawnID, bodies, gameStarted, remaining,
                 joinSlots, joinClosed>>
\* A refused join is answered; the deferred releaseJoinSlot then looks at
\* joinSlots and, when it is positive, decrements it in a step of its own.
RefuseJoin(r, e) ==
  /\ ack' = [ack EXCEPT ![e.from] = "no"]
  /\ releasing' = [releasing EXCEPT ![r] = joinSlots[r] > 0]
  /\ UNCHANGED <<players, spawnID, bodies, gameStarted, remaining, joinSlots,
                 joinClosed>>

\* releaseJoinSlot, the decrement.
ReleaseJoinSlot(r) ==
  /\ loop[r] = "running"
  /\ releasing[r]
  /\ releasing' = [releasing EXCEPT ![r] = FALSE]
  /\ joinSlots' = [joinSlots EXCEPT ![r] = @ - 1]
  /\ UNCHANGED <<loop, stopped, events, players, spawnID, bodies, gameStarted,
                 gameEnded, remaining, joinClosed, calls, ack>>

StartsMutant(r, roster) == Cardinality(roster) > MaxPlayers
\* handleJoinEvent starts the game with the join that fills the room.
StartsGame(r, roster) == Cardinality(roster) >= MaxPlayers

\* markGameStarted: gameEndTick - gameStartTick.
GameLength == GameTicks

\* An accepted join: body, roster, and markGameStarted when the room is full.
\* (joinClosed and joinSlots are stored one after the other: a caller that
\* runs in between sees nothing that it could not see before or after both.)
AcceptJoin(r, e) ==
  LET roster == players[r] \cup {e.player}
      starts == StartsGame(r, roster)
  IN /\ players' = [players EXCEPT ![r] = roster]
     /\ spawnID' = [spawnID EXCEPT ![r][e.player] = NextSpawn(r)]
     /\ bodies' = [bodies EXCEPT ![r] = @ \cup {e.player}]
     /\ ack' = [ack EXCEPT ![e.from] = "ok"]
     /\ gameStarted' = [gameStarted EXCEPT ![r] = @ \/ starts]
     /\ joinClosed' = [joinClosed EXCEPT ![r] = @ \/ starts]
     /\ joinSlots' = [joinSlots EXCEPT ![r] = IF starts THEN MaxPlayers ELSE @]
     /\ remaining' = [remaining EXCEPT ![r] = IF starts THEN GameLength ELSE @]
     /\ UNCHANGED releasing

\* handleJoinEvent.  physics.AddPlayer may fail, which refuses the join.
HandleJoin(r) ==
  /\ Takes(r, "join")
  /\ LET e == Head(events[r]) IN
       \/ RefuseJoin(r, e)
       \/ ~JoinRefused(r, e.player) /\ AcceptJoin(r, e)
  /\ UNCHANGED <<loop, stopped, gameEnded, calls>>

\* handleLeave: the member goes and reconcileJoinSlots stores the size of the
\* roster.  When physics.RemovePlayer fails the body stays behind.
HandleLeave(r) ==
  /\ Takes(r, "leave")
  /\ LET p == Head(events[r]).player IN
       IF p \in players[r]
       THEN /\ players' = [players EXCEPT ![r] = @ \ {p}]
            /\ spawnID' = [spawnID EXCEPT ![r][p] = 0]
            /\ joinSlots' = [joinSlots EXCEPT ![r] = Cardinality(players[r] \ {p})]
            /\ bodies' \in {bodies, [bodies EXCEPT ![r] = @ \ {p}]}
       ELSE UNCHANGED <<players, spawnID, joinSlots, bodies>>
  /\ UNCHANGED <<loop, stopped, gameStarted, gameEnded, remaining, releasing,
                 joinClosed, calls, ack>>

\* handleInput, handlePlayerStatsQuery.
HandleInput(r) ==
  /\ Takes(r, "input")
  /\ UNCHANGED <<loopVars, joinSlots, joinClosed, calls, ack>>

HandleEvent(r) == HandleJoin(r) \/ HandleLeave(r) \/ HandleInput(r)

ShouldFinishMutant(r, left) ==
  left = 0 /\ Cardinality(players[r]) >= MaxPlayers
\* shouldFinishGame: the tick counter has reached gameEndTick.
ShouldFinish(r, left) == left = 0

\* update, once the game has started.  The tick that reaches gameEndTick runs
\* finishGame, which calls onFinished before the loop returns.
Tick(r) ==
  /\ loop[r] = "running"
  /\ ~releasing[r]
  /\ gameStarted[r] /\ ~gameEnded[r]
  /\ LET left == IF remaining[r] > 0 THEN remaining[r] - 1 ELSE 0
         ends == ShouldFinish(r, left)
     IN /\ remaining' = [remaining EXCEPT ![r] = left]
        /\ gameEnded' = [gameEnded EXCEPT ![r] = ends]
        /\ joinClosed' = [joinClosed EXCEPT ![r] = @ \/ ends]
        /\ loop' = [loop EXCEPT ![r] = IF ends THEN "finishing" ELSE @]
  /\ UNCHANGED <<stopped, events, players, spawnID, bodies, gameStarted,
                 releasing, joinSlots, calls, ack>>

\* onFinished has returned: the loop returns and closes the physics world.
\* Events still in the channel are never handled.
FinishExit(r) ==
  /\ loop[r] = "finishing"
  /\ loop' = [loop EXCEPT ![r] = "exited"]
  /\ UNCHANGED <<stopped, events, players, spawnID, bodies, gameStarted,
                 gameEnded, remaining, releasing, joinSlots, joinClosed, calls,
                 ack>>

\* The select takes the closed stop channel (or ctx.Done()).
StopExit(r) ==
  /\ loop[r] = "running"
  /\ ~releasing[r]
  /\ stopped[r]
  /\ loop' = [loop EXCEPT ![r] = "exited"]
  /\ UNCHANGED <<stopped, events, players, spawnID, bodies, gameStarted,
                 gameEnded, remaining, releasing, joinSlots, joinClosed, calls,
                 ack>>

-----------------------------------------------------------------------------
\* One step of a call of Join that is under way.
CallStep(k) ==
  JoinReserve(k) \/ JoinPush(k) \/ JoinPushFails(k) \/ JoinUndo(k)

\* One step of the room's goroutine.
LoopStep(r) ==
  HandleEvent(r) \/ ReleaseJoinSlot(r) \/ Tick(r) \/ FinishExit(r) \/ StopExit(r)

Next ==
  \/ \E r \in Room : Start(r) \/ Stop(r) \/ LoopStep(r)
  \/ \E c \in Caller, r \in Room, p \in Player : JoinCheck(c, r, p) \/ Leave(c, r, p)
  \/ \E c \in Caller, r \in Room : PushInput(c, r)
  \/ \E k \in calls : CallStep(k)

Spec == Init /\ [][Next]_vars

-----------------------------------------------------------------------------
(* Properties.                                                             *)

\* Joins of room r that sit in the channel, and calls of Join on r that have
\* added to joinSlots and have not yet pushed or undone.
PendingJoins(r) == {i \in DOMAIN events[r] : events[r][i].type = "join"}
Promised(r) == {k \in calls : k.room = r /\ k.at # "checked"}

\* Room.handleJoinEvent and handleLeave keep the roster sound: never more than
\* maxPlayers members, each with a spawn point of its own (also when members
\* leave and others take their place) and with a body in the physics world,
\* whatever physics calls fail.
RosterSound ==
  \A r \in Room :
    /\ Cardinality(players[r]) <= MaxPlayers
    /\ players[r] \subseteq bodies[r]
    /\ \A p \in players[r] : spawnID[r][p] # 0
    /\ \A p, q \in players[r] : spawnID[r][p] = spawnID[r][q] => p = q

\* No room stays full without its game having started, and the game of a room
\* that still admits callers has not started (handleJoinEvent, markGameStarted).
FullRoomStarted ==
  \A r \in Room :
    /\ Cardinality(players[r]) = MaxPlayers => gameStarted[r]
    /\ gameStarted[r] => joinClosed[r]

\* joinSlots never counts a seat that nobody holds or asks for: until the game
\* starts it is at most the members, the joins in the channel and the calls
\* under way, so no join that failed, and no leave, costs the room a seat for
\* good (releaseJoinSlot, reconcileJoinSlots and the two Add(-1) of Join).
NoSlotLeak ==
  \A r \in Room : ~joinClosed[r] =>
    joinSlots[r] <= Cardinality(players[r]) + Cardinality(PendingJoins(r))
                    + Cardinality(Promised(r)) + (IF releasing[r] THEN 1 ELSE 0)

\* Join is synchronous: a caller is in at most one call at a time.  The slot
\* count rests on it, which is why NoSlotLeak is inductive only together with it.
OneCallEach ==
  /\ IsFiniteSet(calls)
  /\ \A k, l \in calls : k.caller = l.caller => k = l

\* Once the game has started members only leave: a join that slipped past
\* joinClosed, or was queued before the start, never gets in, even when a seat
\* is free again.  The roster that onFinished is given no longer changes.
RosterFrozen ==
  [][\A r \in Room :
       /\ gameStarted[r] => players'[r] \subseteq players[r]
       /\ loop[r] \in {"finishing", "exited"} => players'[r] = players[r]]_vars

\* A join in the channel of a live room is answered, with ok or a refusal.
JoinAnswered ==
  \A r \in Room, c \in Caller :
    (\E i \in PendingJoins(r) : events[r][i].from = c)
      ~> (ack[c] # "none" \/ loop[r] # "running")
=============================================================================
