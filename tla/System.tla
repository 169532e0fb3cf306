------------------------------- MODULE System -------------------------------
(***************************************************************************)
(* From a request for a match to a place in a game: the allocator of the    *)
(* match server (Matcher), the answer on its way through the logic server,  *)
(* the room token, and the rooms of the room servers, which know of no      *)
(* reservations and take whoever comes with a token while the room waits.   *)
(*                                                                         *)
(* Of a room server there are its rooms, their rosters and the counter of    *)
(* slots that joins take before the room looks at them; RoomServer has its   *)
(* sessions, indexes and channels.  Rooms are made by their first visitors,  *)
(* and one that ends with nobody in it stays in the index of its server.     *)
(***************************************************************************)
EXTENDS Matcher

VARIABLES
  host,      \* the server of each room made, which is part of its id and of its tokens
  phase,     \* "none" when the server does not have the room, "waiting", "playing", "over"
  roster,    \* Room.players
  slots,     \* Room.joinSlots
  starters,  \* who the game of the room started with (history)
  client     \* what became of each request: it waits; its join counts in slots and will be
             \* handled by the room, "joining", or has been refused, "undo"; it is "in";
             \* "refused"; "out", and nothing more to come of it

gameVars == <<phase, roster, starters>>
systemVars == <<vars, host, gameVars, slots, client>>

SystemTypeOK ==
  /\ TypeOK
  /\ host \in [RoomID -> Server \cup {None}]
  /\ phase \in [RoomID -> {"none", "waiting", "playing", "over"}]
  /\ roster \in [RoomID -> SUBSET Player]
  /\ slots \in [RoomID -> Int]
  /\ starters \in [RoomID -> SUBSET Player]
  /\ client \in [Request -> {"waits", "joining", "undo", "in", "refused", "out"}]

SystemInit ==
  /\ Init
  /\ host = [r \in RoomID |-> None]
  /\ phase = [r \in RoomID |-> "none"]
  /\ roster = [r \in RoomID |-> {}]
  /\ slots = [r \in RoomID |-> 0]
  /\ starters = [r \in RoomID |-> {}]
  /\ client = [q \in Request |-> "waits"]

PlayerOf(q) == request[q].key[1]
RoomOf(q) == request[q].seat.room

\* RoomManager.rooms of a server.
Indexed(s) == {r \in RoomID : phase[r] # "none" /\ host[r] = s}

-----------------------------------------------------------------------------
(* Match server and logic server.                                          *)

\* MatchLogic.MatchRoom of a player whose login is good: AllocateRoom is called.
Ask(q) ==
  /\ \E k \in Key : Begin(q, k)
  /\ UNCHANGED <<host, gameVars, slots, client>>

\* AllocateRoom of MatchService.
Serve(q) ==
  /\ \/ Reuse(q) /\ UNCHANGED host
     \/ Refuse(q) /\ UNCHANGED host
     \/ \E s \in Server : Join(q, s) /\ UNCHANGED host
     \/ \E s \in Server : Make(q, s) /\ host' = [host EXCEPT ![NewID] = s]
  /\ UNCHANGED <<gameVars, slots, client>>

\* The answer does not get through: the client hears ErrMatchUnavailable, and may
\* ask again with another request.
Lose(q) ==
  /\ request[q].at = "done"
  /\ client[q] = "waits"
  /\ client' = [client EXCEPT ![q] = "out"]
  /\ UNCHANGED <<vars, host, gameVars, slots>>

\* Time passes, or the match server restarts; the room servers do not notice.
Elsewhere ==
  /\ Advance \/ Restart
  /\ UNCHANGED <<host, gameVars, slots, client>>

-----------------------------------------------------------------------------
(* Room servers.                                                           *)

\* handleJoinRoom has the token of request q before it.
Arrives(q) == request[q].at = "done" /\ client[q] = "waits"

\* ParseRoomToken fails.
TokenExpired(q) ==
  /\ Arrives(q)
  /\ ~Parses(request[q].seat.exp)
  /\ client' = [client EXCEPT ![q] = "out"]
  /\ UNCHANGED <<vars, host, gameVars, slots>>

Admitted(q) == Arrives(q) /\ Parses(request[q].seat.exp)

HasRoomMutant(q) ==
  \/ phase[RoomOf(q)] # "none"
  \/ Cardinality(Indexed(host[RoomOf(q)])) <= MaxRooms
\* getOrCreateRoom has the room, or can make it.
HasRoom(q) ==
  \/ phase[RoomOf(q)] # "none"
  \/ Cardinality(Indexed(host[RoomOf(q)])) < MaxRooms

\* The equipped gun cannot be loaded, or the physics world of a new room: an error is
\* answered before any slot is taken.
EntryFails(q) ==
  /\ Admitted(q)
  /\ client' = [client EXCEPT ![q] = "out"]
  /\ UNCHANGED <<vars, host, gameVars, slots>>

\* The room server is full of rooms, or the game has started.  (joinClosed is read before
\* a slot is taken: a join for which the game starts in between is refused by the slots
\* or by the room, as here.)
TurnAway(q) ==
  /\ Admitted(q)
  /\ ~HasRoom(q) \/ phase[RoomOf(q)] \in {"playing", "over"}
  /\ client' = [client EXCEPT ![q] = "refused"]
  /\ UNCHANGED <<vars, host, gameVars, slots>>

\* getOrCreateRoom, and Join up to joinSlots.Add(1): beyond maxPlayers it is a refusal.
TakeSlot(q) ==
  LET r == RoomOf(q)
  IN /\ Admitted(q)
     /\ HasRoom(q)
     /\ phase[r] \in {"none", "waiting"}
     /\ phase' = [phase EXCEPT ![r] = "waiting"]
     /\ slots' = [slots EXCEPT ![r] = @ + 1]
     /\ client' = [client EXCEPT ![q] = IF slots[r] + 1 > MaxPlayers THEN "undo" ELSE "joining"]
     /\ UNCHANGED <<vars, host, roster, starters>>

\* joinSlots.Add(-1) and the answer of a refused Join.
ReturnSlot(q) ==
  /\ client[q] = "undo"
  /\ slots' = [slots EXCEPT ![RoomOf(q)] = @ - 1]
  /\ client' = [client EXCEPT ![q] = "refused"]
  /\ UNCHANGED <<vars, host, gameVars>>

\* What releaseJoinSlot may leave: one less, or as many when it has found none.  (Between
\* its look and its Add(-1) a caller's Add(-1) may come, and the counter go below zero.)
Released(r) == {[slots EXCEPT ![r] = @ - 1]} \cup {c \in {slots} : c[r] <= 0}

\* The room's channel is full, or the room has no spawn point or no body for the player.
JoinFails(q) ==
  LET r == RoomOf(q)
  IN /\ client[q] = "joining"
     /\ slots' \in Released(r)
     /\ client' = [client EXCEPT ![q] = "out"]
     /\ UNCHANGED <<vars, host, gameVars>>

\* handleJoinEvent: the player is in, and the game starts with the last seat.
AcceptJoin(q) ==
  LET r == RoomOf(q)
      members == roster[r] \cup {PlayerOf(q)}
      full == Cardinality(members) = MaxPlayers
  IN /\ client[q] = "joining"
     /\ phase[r] = "waiting"
     /\ PlayerOf(q) \notin roster[r]
     /\ roster' = [roster EXCEPT ![r] = members]
     /\ phase' = [phase EXCEPT ![r] = IF full THEN "playing" ELSE @]
     /\ starters' = [starters EXCEPT ![r] = IF full THEN members ELSE @]
     /\ slots' = [slots EXCEPT ![r] = IF full THEN MaxPlayers ELSE @]
     /\ client' = [client EXCEPT ![q] = "in"]
     /\ UNCHANGED <<vars, host>>

\* handleJoinEvent of a game that has started, or of a member.  The session is bound to
\* the room all the same.
RefuseJoin(q) ==
  LET r == RoomOf(q)
  IN /\ client[q] = "joining"
     /\ phase[r] = "playing" \/ PlayerOf(q) \in roster[r]
     /\ slots' \in Released(r)
     /\ client' = [client EXCEPT ![q] = "refused"]
     /\ UNCHANGED <<vars, host, gameVars>>

\* LeaveRoom or the end of the session, to handleLeave, which sets the slots to the size
\* of the roster.  The player stays in the room when the leave is dropped or the index
\* names another room by now, and a session whose join was refused may be bound all the
\* same: RoomServer says when, here both may be.
LeaveRoom(q) ==
  LET r == RoomOf(q)
      left == roster[r] \ {PlayerOf(q)}
  IN /\ client[q] \in {"in", "refused"}
     /\ client' = [client EXCEPT ![q] = "out"]
     /\ \/ UNCHANGED <<roster, slots>>
        \/ /\ PlayerOf(q) \in roster[r]
           /\ roster' = [roster EXCEPT ![r] = left]
           /\ slots' = [slots EXCEPT ![r] = Cardinality(left)]
     /\ UNCHANGED <<vars, host, phase, starters>>

\* What becomes of the joins of rooms that are gone: those in the channel are not handled.
Unhandled(gone) ==
  [q \in Request |->
     CASE client[q] = "joining" /\ RoomOf(q) \in gone -> "out"
       [] client[q] = "undo" /\ RoomOf(q) \in gone -> "refused"
       [] OTHER -> client[q]]

\* finishGame and finishRoom, at any time after the start instead of after the length of a
\* game: without players the room is not taken out of the index.
FinishGame(r) ==
  /\ phase[r] = "playing"
  /\ IF roster[r] = {}
     THEN /\ phase' = [phase EXCEPT ![r] = "over"]
          /\ UNCHANGED <<roster, starters, slots>>
     ELSE /\ phase' = [phase EXCEPT ![r] = "none"]
          /\ roster' = [roster EXCEPT ![r] = {}]
          /\ starters' = [starters EXCEPT ![r] = {}]
          /\ slots' = [slots EXCEPT ![r] = 0]
  /\ client' = Unhandled({r})
  /\ UNCHANGED <<vars, host>>

\* A room server restarts, with no rooms and no sessions.
RoomServerRestart(s) ==
  /\ Indexed(s) # {}
  /\ phase' = [r \in RoomID |-> IF host[r] = s THEN "none" ELSE phase[r]]
  /\ roster' = [r \in RoomID |-> IF host[r] = s THEN {} ELSE roster[r]]
  /\ starters' = [r \in RoomID |-> IF host[r] = s THEN {} ELSE starters[r]]
  /\ slots' = [r \in RoomID |-> IF host[r] = s THEN 0 ELSE slots[r]]
  /\ client' = [q \in Request |->
       IF client[q] \in {"joining", "undo", "in"} /\ host[RoomOf(q)] = s
       THEN "out" ELSE client[q]]
  /\ UNCHANGED <<vars, host>>

SystemNext ==
  \/ Elsewhere
  \/ \E q \in Request :
       \/ Ask(q) \/ Serve(q) \/ Lose(q)
       \/ TokenExpired(q) \/ EntryFails(q) \/ TurnAway(q)
       \/ TakeSlot(q) \/ ReturnSlot(q) \/ JoinFails(q) \/ AcceptJoin(q) \/ RefuseJoin(q)
       \/ LeaveRoom(q)
  \/ \E r \in RoomID : FinishGame(r)
  \/ \E s \in Server : RoomServerRestart(s)

SystemSpec == SystemInit /\ [][SystemNext]_systemVars

-----------------------------------------------------------------------------
(* What room server s has of the rooms.                                    *)

PhasesAt(s)  == [r \in RoomID |-> IF host[r] = s THEN phase[r] ELSE "none"]
RostersAt(s) == [r \in RoomID |-> IF host[r] = s THEN roster[r] ELSE {}]

LobbyAt(s) == INSTANCE Lobby WITH phase <- PhasesAt(s), roster <- RostersAt(s)

-----------------------------------------------------------------------------
(* Properties.                                                             *)

\* The match server holds a seat for player p in room r at this moment.
Seated(p, r) ==
  \E k \in Key : /\ k[1] = p
                 /\ reservations[k] # None
                 /\ reservations[k].room = r
                 /\ reservations[k].expireAt > clock

\* The joins that count in the slots of room r and are not members.
Pending(r) == {u \in Request : client[u] \in {"joining", "undo"} /\ RoomOf(u) = r}

\* A player has a second join at room r, besides being a member or besides another join.
Doubled(joins, r) ==
  \E u \in joins : \/ PlayerOf(u) \in roster[r]
                   \/ \E v \in joins \ {u} : PlayerOf(v) = PlayerOf(u)

\* What there is to say of the refusal of a player that has a seat in its room: the game
\* has started, with the player or with somebody whose seat has lapsed; the server is full
\* of rooms, and in one of them nobody has a seat; the room waits with its slots taken,
\* by somebody without a seat or by somebody twice.
Excused(q) ==
  LET r == RoomOf(q)
      joins == Pending(r) \cup {q}
  IN \/ PlayerOf(q) \in starters[r]
     \/ \E p \in starters[r] : ~Seated(p, r)
     \/ /\ phase[r] = "none"
        /\ \E u \in Indexed(host[r]) : \A p \in Player : ~Seated(p, u)
     \/ /\ phase[r] = "waiting"
        /\ \/ Doubled(joins, r)
           \/ \E p \in roster[r] : ~Seated(p, r)
           \/ \E u \in joins : ~Seated(PlayerOf(u), r)

\* A join of a player whose seat the match server still holds is refused only when another
\* seat has lapsed (its time was up, or the match server restarted, or it came on the last
\* second of a token whose seat was gone), when it was in the game already, or when
\* somebody joins a room twice, which takes two of its slots until the room has looked at
\* the second join.  So the limits that match server and room server each check for
\* themselves, the seats of a room (findAvailableRoom, Join, handleJoinEvent) and the
\* rooms of a server (createRoom, getOrCreateRoom), agree otherwise.  (It is about
\* refusals: a gun that cannot be loaded, a full channel or no spawn point are failures.)
RefusalExplained ==
  [][\A q \in Request :
       /\ client[q] \in {"waits", "joining"}
       /\ client'[q] \in {"undo", "refused"}
       /\ Seated(PlayerOf(q), RoomOf(q))
       => Excused(q)]_systemVars

\* Every room server keeps the promises of a Lobby, as RoomServer does, whatever rooms the
\* match server names to its clients, however late they come, and whichever of the other
\* servers restart (getOrCreateRoom, handleJoinEvent, finishRoom).
ImplementLobbies ==
  /\ \A s \in Server : LobbyAt(s)!Init
  /\ [][\/ UNCHANGED <<host, phase, roster>>
        \/ \A s \in Server : \/ UNCHANGED <<PhasesAt(s), RostersAt(s)>>
                             \/ LobbyAt(s)!Next]_systemVars
=============================================================================
