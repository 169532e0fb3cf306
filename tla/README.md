# Verification of demo_server

demo_server is the backend of a small shooter: a logic server with accounts and
logins, a match server that hands out seats, and a room server that runs the
games. This directory holds TLA+ modules translated from its Go code, the TLC
configurations that check them on small instances, and proofs for TLAPS. All
paths below are relative to `src/demo_server/src/` unless they say otherwise.

    tlasany M.tla                        parse a module
    tlc -workers 2 -config X.cfg M       check it
    tlapm RoomProofs.tla                 check the proofs

`PROJECT.json` lists for every definition the source lines it translates, for
every property a plausible bug that violates it, and every hazard of the code
with the properties aimed at it.

## 1. The system

    client --HTTP/gRPC--> logicserver --AllocateRoom--> matchserver
      |                      ^    |                     reservation, room token
      |                      |    +-- MongoDB (users, guns), Redis (token sessions)
      +-----KCP, room token--> roomserver --SettleUpGameRewardAndKd--> logicserver

A client logs in (tokens), asks for a match (a room id and a signed room token),
connects to the room server, joins the room with the token, plays until the game
ends by its time limit, and is paid by the settlement that the room sends back.

| component | state | operations | who shares it |
|---|---|---|---|
| room, `roomserver/logic/room.go` | roster, spawn points, bodies, game flags, tick; two atomics `joinSlots`, `joinClosed`; an event channel of 256 | Join, Leave, PushInput, Stop; the loop's event handlers and tick | connection goroutines call, one goroutine per room runs the loop |
| combat and input sync, `room.go`, `sync.go`, `player.go` | per member HP, life, kills, deaths, invincibility, input queue, last input | PlayerInput, update, fire, damage, respawn | the room's goroutine only |
| movement and physics, `movement.go`, `physics.go`, `physx/` | per member position, view, stick, vertical speed, on the ground, crouched; the capsule in the physics world | MovePlayer, SetPlayerPosition | the room's goroutine, with a physics world of its own |
| room manager, `room_manager.go` | `rooms` by id, `playerRooms` by player | JoinRoom, LeaveRoom, PushInput, QueryPlayerStats, finishRoom, Stop | all connection goroutines, all rooms (callback) |
| handlers, `roomserver/service/server.go` | the player and room a session is bound to | handleJoinRoom, handleLeaveRoom, handlePlayerInput, handlePlayerStatsQuery, HandleSessionClosed | one read loop per session |
| session, `session.go` | `sendCh`, `snapshotCh` (one place), `closeCh` | Send, SendSnapshot, Close, readLoop, writeLoop | its two goroutines, its room, Server.Stop |
| matcher, `matchserver/logic/matcher.go` | servers, rooms, reservations by room and by player and mode | AllocateRoom (purge, reuse, find, create, reserve) | gRPC goroutines under one mutex |
| match entry and room tokens, `logicserver/logic/match.go`, `matchserver/service/service.go`, `pkg/roomtoken` | nothing of their own; a token names player, room, server and a second | MatchRoom, AllocateRoom, Generate, Parse | client, logic server, match server and room server |
| accounts, `logicserver/repo/user.go`, `logic/player_info.go`, `logic/mall.go` | users in MongoDB: coins, exp, level, guns, profile | Register, SettleUpRoom, BuyGun, ModifyNickname, ModifyProfilePhoto, EquipGun | goroutines of gRPC and of the HTTP gateway, nothing but MongoDB between them |
| login tokens, `logicserver/logic/auth.go`, `repo/token.go`, `pkg/jwt` | sessions in Redis | issue, verify, refresh | gRPC goroutines of all devices |

### What is hard, and what makes each part correct

* **Room.** Callers count seats with an atomic while the loop owns the roster and
  overwrites the counter; joins are answered later than they are queued; the game
  starts inside the handler of one join while others are in the channel; `select`
  takes ready cases in random order. Correct: the roster never exceeds the seats
  and is frozen for newcomers once the game has started, a full room has started,
  no seat is lost to a failed join, stop and joins take effect.
* **Combat.** Members take their turns in the random order of a map, and a shot
  kills and respawns somebody whose turn is still to come. Correct: inputs run
  once, in order and in the life they were given in; a shot needs an input of its
  own; deaths and kills balance.
* **Motion.** Room and physics world each hold the place of a player, and two ways lead from
  one to the other: a move, whose answer is written back, and a respawn, which may fail
  half-way. A missing input is replaced for a while by the last one, then by none. Correct: a
  living player is where its capsule is, looks where its client asked, jumps only when
  asked, stops and comes down when its client falls silent.
* **Manager and handlers.** A double-checked lookup creates rooms; the player
  index is written after the join was queued; leaves are fire and forget; one
  player may have two sessions. Correct: a running room is the one its id names,
  finished ones are gone, every member has somebody who will take it out, and every
  entry of the player index somebody who will remove it.
* **Session.** Two goroutines, a bounded queue and a single-place channel that
  keeps the latest value; either side, a failing write or the server may close
  it. Correct: the newest snapshot is not lost, closing ends both goroutines.
* **Matcher.** The clock is read before the lock; purges and reuse happen inside
  another player's request; token signing can fail half way. Correct: the two
  indexes agree, seats are bounded, what a client was told holds until its time is up.
* **From match to game.** Match server and room server count seats and rooms each for
  itself: seats lapse by a clock, places in a room are taken by whoever comes with a
  token, joins wait in the room's channel and count already, and either server may restart
  and forget. Correct: as long as nothing has lapsed and nobody joins twice the two agree,
  and a player with a seat is not refused.
* **Accounts.** Commands on MongoDB interleave freely, and each may fail before
  or after it was applied. Correct: nobody is paid twice, coins add up, a gun is
  sold once, and what a client is told is so.
* **Logins.** Two clocks (JWT in seconds, Redis in milliseconds) and tokens that
  are equal when signed in the same second. Correct: the server knows what it
  gave out until its time is up.

## 2. The modules

| module | translates | in |
|---|---|---|
| `Game` | what a room promises: gather, start when full, quit, end | abstract |
| `Room` | room.go, one or more rooms with their callers | `RoomGame` |
| `RoomGame` | the refinement mapping from a Room to a Game | |
| `Lobby` | what a room server promises of its ids and rosters together, with no sessions, indexes or goroutines | abstract |
| `RoomServer` | server.go and room_manager.go over an INSTANCE of Room | `Lobby` |
| `Combat` | inputs, turns, shots, deaths and respawns of one room | |
| `Motion` | how a tick moves one player: room.go, movement.go, and the two physics worlds | |
| `Session` | session.go with accept, stop and close of server.go | |
| `Matcher` | matcher.go, with the time of a token (`pkg/roomtoken`) | `System` |
| `System` | the way from MatchRoom to a place in a game: match.go, service.go, handleJoinRoom, and of the room servers the rooms, their rosters and the slots that joins take | `Lobby`, one for each server |
| `Accounts` | user.go, player_info.go, mall.go of the logic server, and what gateway.go answers | |
| `Logins` | auth.go, token.go, jwt.go | |
| `MC*` | symmetry sets and constant values for TLC | |
| `*Proofs` | theorems, section 5 (`RoomProofs` also about the refinement, `MatcherProofs` about Matcher inside System) | |

How the code maps to actions:

* A critical section under a mutex is one action; so is a MongoDB or Redis command,
  or a Redis transaction. Between two of them anything may happen.
* Every access to an atomic outside the room's goroutine is an action:
  `Join` is `JoinCheck` (joinClosed), `JoinReserve` (Add(1) and the comparison),
  `JoinPush` or `JoinPushFails` (the non-blocking send) and `JoinUndo` (Add(-1)).
* An event handler of the room is one action, because only the room's goroutine
  touches what it writes; `releaseJoinSlot`, which reads and then decrements an
  atomic that callers change, is split in two (`RefuseJoin`, `ReleaseJoinSlot`).
* A call that can fail for reasons outside the module (physics, MongoDB, Redis,
  signing) is a disjunct that may always be taken. A MongoDB or Redis command
  that returns an error may or may not have been applied.
* `System` has the room servers in the abstract, `RoomServer` has one in detail. Both keep the
  promises of a `Lobby`: a RoomServer implements one (`phases`, `rosters`: the room that the manager
  finds under an id), and System implements one for each of its servers (`PhasesAt`, `RostersAt`).
  Lobby says what the two have in common; it does not make one an abstraction of the other.
* In `System` a join is `TakeSlot` (getOrCreateRoom, the look at `joinClosed` and Add(1)), then
  `AcceptJoin`, `RefuseJoin` or `JoinFails`; one that finds the slots taken is "undo" until
  `ReturnSlot`, and its slot counts as long. Whether a leave reaches its room, and whether a session
  whose join was refused is bound to it, is decided in `RoomServer`; `LeaveRoom` of System leaves
  both open.
* `RoomServer` reaches its rooms through the actions of `Room`, which it conjoins with what
  handlers and manager do: its steps are steps of Room by construction.
* Data no property looks at is left out: tokens' signatures, names, match ids,
  equipment, sideways positions. An answer is kept where a property is about it (Accounts,
  Logins), as what it says and not how. The tick counter of Room is its distance
  to the end of the game.

History variables, which no guard reads, say so in their comment: `dropped` (RoomServer),
`starters` (System), `owed` and the `life` of an input (Combat), `good` (Logins), `paid` and `had`
(Accounts), `idle` (Motion); `offered` and `taken` of Session number what the code does not.

## 3. The runs

| run | instance | shows |
|---|---|---|
| `room_safety` | 3 players, 2 callers, 2 seats, queue 2, game of 2 ticks | roster, slots and start of the game are consistent; nobody enters a started game; every step is a step of `Game` |
| `server` | 2 Room objects, 2 sessions of which one may log in for two players and rooms, 2 messages each (join, leave, input, question) | a running room is the one its id names; entries are removed by their owners; the server is a `Lobby` |
| `server_live` | 1 room, queue 1, game of 1 tick, 3 sessions, 2 of them of one player, 1 message each | under fairness: joins are answered, games end as `Game` promises, handlers return, a player without sessions leaves; only a lost leave event leaves a member behind; no entry of the player index outlives its sessions |
| `server_orphan` | as above, queue 2, 2 messages each | the lost leave event, section 6 |
| `system` | 2 servers of 1 room of 2 seats, 3 players, 2 modes, 3 requests, 4 clock readings of which 3 make a second, reservations of 2, 1 restart of the match server, restarts of room servers | seats, indexes and sharing of rooms; what was told holds; who is refused, and why; every room server is a `Lobby` |
| `combat` | 2 players, 3 HP, 2 damage, hold window 2, 4 ticks | input order, single fire, kills and deaths, no input of an old life |
| `motion` | 2 backends, a ledge and a hole, 3 directions of the stick, hold window 1, speeds of 40 ticks a second | pose, view, jumps, stopping, falling |
| `combat_stale` | the same with hold window 1 | an input from before a death, section 6 |
| `session` | queue of 2, 4 snapshots | latest snapshot kept; closing ends everything |
| `accounts` | 2 callers, 2 emails, 2 games, 1 gun that costs what two games bring | payments, purchases, answers |
| `logins` | 2 devices of one user, 2 clock steps per second | what was given is known, to its last unit, with Redis failing |
| `logins_devices` | the same, without failures | the shared access token, section 6 |

Why these bounds are enough to meet the cases:

* *Room.* Two seats and three players give a full room, a refused player, a
  duplicate and a late join; two callers give every interleaving of two calls
  with the loop, and a queue of 2 is full while a third call runs. A game of two
  ticks has a tick that does not end it. One room is enough: rooms share nothing
  in Room.
* *RoomServer.* Two Room objects for two ids allow two rooms of different ids and
  also a second room of an id whose first one has finished; two messages allow
  join and leave, join and input or question, or two joins by one session. In `server_live` a
  queue of 1 is full with one event in it, so that a join, and a leave, meet a full channel of a
  room that runs and of one whose goroutine has ended; the leave comes with the close.
* *Matcher and System.* `MaxRooms = 1` forces the second server and the refusal. Reservations
  of 2 units within 4 clock readings overlap and lapse in a staggered way: the second seat of
  a room is taken while the first is still held, and the first is given to a third player. Requests
  carry clock readings of up to the whole range in age. A second of 3 units
  separates a token's time from its seat's in both directions: a token signed at 0 expires
  at 3, its seat at 2. Three requests allow one player to ask twice beside
  another, whose join then meets the slots that the two have taken, or three players to meet in
  one room; one restart of the match server leaves rooms on the room servers that it knows nothing
  of. Two ids of rooms (`NumIDs`) are one for each server, or two of one server, one of which
  the match server has forgotten or pruned while the room server still has it.
* *Combat.* 3 HP and 2 damage need two hits, the second one of which is clamped;
  an invincibility of one tick ends within the run.
* *Motion.* Gravity and jump speed are those of the code at 40 ticks a second, in units of 1/200
  (height in units of 1/8000), so a jump has its real shape: it reaches the roof over the ledge,
  and a player falls from its spawn height and off the ledge into a pit. A stick that takes two
  ticks to come back and a window of one tick separate "held", "no longer held" and "stopped";
  ages beyond the window are one.
* *Accounts.* A player starts with 1000 coins and the gun costs 1300, so that one settlement makes
  the difference: it comes before a purchase, in it, or not at all (the code starts with 2000, of
  which only the difference to the price counts). One price stands for any: the
  theorems about purchases hold for every price list.
* *Session.* The queue fills, and four snapshots allow two replacements in a row.
* *Logins.* Half-second steps separate the two clocks; tokens live 1 and 2 seconds,
  so both expire in the run.

Deadlock is checked in `room_safety` and switched off elsewhere, where clients
stop sending, clocks stop at their bound or connections are closed for good.

Bounds that are not in the code: `MaxMessages`, `MaxTime`, `NumIDs`, `MaxLives`, `MaxSnapshots`,
`MaxUsers`, the games of Accounts, `GameTicks` of Combat. Each is a constant used
as a guard of the action that would exceed it.

## 4. Fairness

* *Rooms* (stated in `RoomServer`): weak fairness of event handling, of releasing a slot and of
  the tick; strong fairness of leaving the loop on Stop. The loop's goroutine is always scheduled
  and its `select` (room.go:246) picks among ready cases at random, so a case that is ready again
  and again is picked. There is none for callers, who need not call, and none for `FinishExit`:
  `onFinished` makes a gRPC call without a deadline of its own (room_manager.go:304), so a
  finished room may hang in it.
* *RoomServer:* that of its rooms; a handler that has begun goes on, as it pushes without waiting
  and its one wait, for the answer to a question, ends with a timeout. Clients need neither send
  nor close: `Close` is not fair.
* *Session:* `readLoop` is weakly fair because every read has a deadline
  (`ReadTimeout`), `WriterStops` strongly because of the random `select`. A write has no
  deadline, so `Written` is not fair; a write on a closed connection fails, which is.
* *Motion:* the room ticks on (its ticker, and no step of a tick that blocks); an input may or may
  not come. The formula asks for a tick only while a tick *without* input would still change
  something, because `Simulated` may rest on an input that never comes. Being shot is not fair.
* *Combat, Matcher, System, Accounts, Logins* state no liveness: they are called, and
  promise nothing on their own.

## 5. What is proved

`RoomProofs` proves for `Room`, for all sets of rooms, callers and (finitely many)
players, and for every size of room, map, queue and game (`RoomAssumption`):

| theorem | says |
|---|---|
| `TypeCorrect` | `Spec => []TypeOK` |
| `RosterCorrect` | `Spec => []RosterSound`: seats, bodies, spawn points |
| `FullRoomCorrect` | `Spec => []FullRoomStarted` |
| `RosterFreezes` | `Spec => RosterFrozen`: nobody enters a started game |
| `NoSlotLeakCorrect` | `Spec => []NoSlotLeak`: no seat is lost |

The argument. `TypeOK` is inductive. `RosterSound` is inductive on top of it: only `AcceptJoin`
adds a member, under `~JoinRefused`, which leaves a seat and a spawn point nobody holds, and
`NextSpawn` picks the least of the free ones (it exists because the spawn points are natural
numbers); finiteness of `Player` gives the cardinality of the roster with one more or one less.
`FullRoomStarted` needs the bound of `RosterSound`: that the roster *equals* `MaxPlayers` in
number exactly when it reaches it. `RosterFrozen` follows from each action and the types. No run
checks `TypeOK` and `RosterFrozen` any more: the one is used by every other proof, the other
follows from `ImplementsGame`, which a run does check.

`NoSlotLeak` is the one that is not inductive. It bounds an atomic by the sum of the
sizes of the roster, of the joins in the channel and of the calls under way, and each
step moves a unit from one to the other: `JoinReserve` adds a call and a slot, `JoinPush`
turns the call into an event, a handled join turns the event into a member or into
`releasing`, and `ReleaseJoinSlot` and `JoinUndo` take the slot back. That a call of
Join removed from the set removes just one, and added adds just one, needs
`OneCallEach`: callers are in one call at a time and there are finitely many calls.
It is proved first. `HandleLeave` stores the size of the roster, which the bound
allows; the counter may be *less* than what is promised, see section 6.

**A room is a Game** (`RoomProofs`, `RoomImplementsGame`: `Spec => ImplementsGame`). The
mapping reads the phase of a game off `gameStarted`, `gameEnded` and `loop`. Only a few actions
write those or the roster (`Moves`); each of them is one step of Game for its room and
none for the others, the rest stutter. `FullRoomStarted` gives that a room which accepts its last
player starts in the same step; `EndedInLoop`, which is proved first, that
`finishGame` has set `gameEnded` exactly in the loops that are on their way out by time.

**The server** (`RoomServerProofs`), for any sessions, rooms, ids and players:

| theorem | says |
|---|---|
| `RunningAlwaysIndexed` | `Spec => []RunningIsIndexed` |
| `EntriesRemovedByOwners` | `Spec => EntryRemovedByOwner` |
| `EntriesAlwaysOwned` | `Spec => []EntriesOwned`, under `OnePlayerEach` |
| `OnlyDropsLeaveBehind` | `Spec => []OnlyDropsOrphan`, under `KeepsToOne` |
| `ServerRoomsSound`, `ServerRostersFreeze`, `ServerRoomsAreGames` | the theorems of `RoomProofs`, of the rooms of a server |
| `ServerAlwaysTyped` | `Spec => []TypeOK` |
| `ServerIsLobby` | `Spec => ImplementsLobby` |

`RunningIsIndexed` becomes inductive with `IndexInv`, which adds that the id a running room looks
under is a real one. A room is made only under an id that has none (the second look of
getOrCreateRoom, under the write lock), so no running room loses its place to it, and `finishRoom`
takes out only an entry that names its own room. `ManagerTyped` types what handlers carry between
their steps.

*From Room to its server.* `RoomProofs` is instantiated with the sessions as callers, as `RP`.
`SameNext` and its lemmas show that the two instances of Room, the server's and that of the
proofs, have the same steps and types, and with `StepsAreRoomSteps` every theorem of RoomProofs
is one about servers; with `SameLife` the two refinements compose, from sessions and indexes to
`Game`.

*Nobody is left behind.* `OnlyDropsLeaveBehind` assumes `KeepsToOne`: a session has one player,
and a player one room, as with a match server that gives a player its room again. It does not hold
otherwise: section 6 has the player with two rooms whose older session takes it out of neither.
Two sessions of one player may still race, close late and overtake each other, which is what
`server_live` has. The invariant speaks of the future of a channel: `Staying` says that the player
*will* be a member when the events queued now have been handled (`EndsIn`: it is one and no leave
is queued, or a join is and no leave after it; `EndsInAppend` and `EndsInTail` say what the two
ends of the channel do to that). `Kept` is that whoever stays in a running room has a keeper: a
session bound to the room whose entry LeaveRoom still finds, or one that is about to record or to
push a leave; or it has lost one. It rests on `Places` (indexes and rooms name each other),
`Errands` (bindings and entries come from tokens) and `Queues` (channels are typed, those of
unborn rooms empty). When one session of a player leaves, the entry is gone and the binding of the
other is worth nothing, but the leave under way is the last word of the channel: this is why the
keeper is asked for at the end of the channel and not now.

*No entry outlives its sessions.* `EntriesAlwaysOwned` assumes `OnePlayerEach`, that a session does
not log in for another player, and lets players have any rooms. What makes it inductive (`Held`)
is that the session behind an entry has not begun to leave: a leave removes the entry and keeps its
binding until it is pushed, and another session may write the entry again in between. Without the
assumption it does not hold: a session that joins as somebody else leaves the entry of the first
behind (section 6).

*A server is a Lobby.* A step of a room's goroutine changes roster or start in three ways only
(`LoopChanges`, from the types and `AcceptAdds` of RoomProofs); `Stages` relates the goroutine to
them, and `Places` gives that the manager's room of an id is the one that changes. The cleanup of
a finished room and the next room of its id are steps of one id; a stop is none, for a room that
stops stays in the index of a server that is going down.

**Combat** (`CombatProofs`), for any players, hit points, damage, hold window and length:
`QueueAlwaysInOrder`, `FutureAlwaysFresh`, `FiresOnce`, `CombatTyped` (invariants) and
`FragsAlwaysSound` (action property). `QueueInOrder` and `FutureIsFresh` speak of members that
live; `CombatInv` says the same of every player, dead or gone, because a respawn and a new join
start from what was left behind: the inputs ahead are just the ticks up to `lastQueued`
(`InOrder`), and those of a living player are of its present life (`Fresh`). `NextFree` shows that
`nextAvailableInputTick` finds the first free tick, `BeginTickKeeps` and `RespawnKeeps` that
clean-up and discarding take away what they should and no more. `FireOnce` counts: a shot takes
one from what a player is owed, and must take one from its queue. That the input of the present
tick is in the queue until the shot and not after needs `ShotsInv`, again of every player, and
that turns are only taken once a tick has begun. `CombatTyped` adds bounds of what a hit, a
respawn and a hold leave (`Scores`).

**Motion** (`MotionProofs`), for any ground, speeds and hold window: `PoseAlwaysAgrees`
(`PoseAgrees` is inductive: a teleport that fails half-way leaves the player dead),
`JumpsAreAskedFor` (from `JumpIsExact`: neither a held input nor a missing one asks for a jump),
`ViewFollowsInputs` (from `ViewHeld`: within the window the last input is the one the view
follows), `PlayersStopSoon` and `MotionTyped`. `StopsSoon` speaks of the end of a slide; `Slows`
says how it goes on: an input that moves is within its window only while the player has been idle
no longer than it is old (`HeldIsRecent`), and every idle tick after the window has brought the
stick a full change closer to the middle (`Braked`), so that `MaxIdle`, a division rounded up, is
enough (`MaxIdleSuffices`).

**Matcher in System** (`MatcherProofs`), for any servers, seats, players, modes, clocks, lengths
of reservations and of a second, as theorems of `SystemSpec`, of which every step is a step of
Matcher or leaves it alone:

| theorem | says |
|---|---|
| `SeatsAlwaysBounded` | `SystemSpec => []SeatsBounded` |
| `IndexAlwaysAgrees` | `SystemSpec => []IndexAgrees` |
| `ToldAlwaysHolds` | `SystemSpec => []ToldHolds` |
| `RoomsAlwaysShared` | `SystemSpec => SharedByName` |
| `RefusalsHaveReasons` | `SystemSpec => RefusalExplained` |
| `ServersAreLobbies` | `SystemSpec => ImplementLobbies` |
| `SystemTyped` | `SystemSpec => []SystemTypeOK` |

`Sound` (types, agreement of the indexes, bounds) is stated of *any* three maps, because a request
works on what its purge leaves: `PurgeSound` shows it of those, `ReserveSound` and `MakeSound` of
what is stored. `ToldHolds` needs more: what a request carries (`RequestSound`: its seat is the
one stored, unless its time is up or the server has restarted since; its reading of the clock is
not ahead), because a request with an *older* clock comes after one with a newer one and must not
purge a live seat. That tokens last as long as seats (`TokensLast`) rests on monotony of division
(`DivMonotone`).

`RefusalExplained` compares two counts made on two servers. `GamesSound` says that rooms are
listed where they are hosted and that a game started with as many players as there are seats.
`SlotsSound` bounds the counter of a waiting room by its members and the joins under way, each of
which names the room it counts in (`Counts`): a leave resets the counter, which the bound allows,
and a slot that is given back belonged to a join that is gone by then. So a join that finds the
slots of a waiting room taken has as many members and joins beside it as there are seats; unless
two of them are of one player or one has no live seat, all of them and the player refused have
seats, which are too many (`TakeSlotExcused`). Players with a live seat in a room inject into its
seats (`SeatedFit`), so a game whose starters all have theirs leaves no seat for one more; and
rooms in which somebody has a seat are on the list of their host (`SeatedIsListed`), so a server
all of whose rooms have live seats has no more of them than the match server allows.

`ServersAreLobbies` needs `HostsSound`: rooms without a host are nowhere, and an answer names a
room with a host (`ServeTells`: the seat told is in the index at that moment, and so on a list). A
step of one server is a step of its Lobby and leaves the others' alone (`HostSees`, `OthersSee`);
a match that makes a room changes no Lobby, for the new room has not been made *there* yet.

**Logins** (`LoginsProofs`), for any devices, users and lengths of lives and seconds:
`GivenAlwaysKnown`, `AlwaysKnownToTheLast` and `LoginsTyped`. They follow from `LoginsInv`: a
session that is saved now outlasts every other one (`Newest`), so saving equal tokens again takes
nothing away; the sessions of a device's pair last as long as was promised and as long as the
seconds of its tokens (`Held`); and what a request is about to save is due by then (`Pending`),
however long ago it was signed.

**Accounts** (`AccountsProofs`), for any users, callers, games, guns and prices and any table of
levels:

| theorem | says |
|---|---|
| `AlwaysTypeOK` | `Spec => []TypeOK` |
| `AlwaysSettledOnce` | `Spec => []SettledOnce` |
| `AlwaysGunOnce` | `Spec => []GunOnce` |
| `AlwaysAnswersTrue` | `Spec => []AnswersTrue` |
| `AlwaysLevelFollowsExp` | `Spec => LevelFollowsExp` |
| `AlwaysOwnedUnlessPaid` | `Spec => OwnedUnlessPaid` |
| `AlwaysCoinsAccounted` | `Spec => []CoinsAccounted` |

Most of them rest on `UsersGrow`, an action property that every command has: no user, email,
experience or gun is ever taken away, and a document gets at most one gun, which it did not have.
So what a request has read or told stays a lower bound or stays true until it is used
(`ReadBefore`, `WhySound`, `TellsTruth`), and a level that is judged too early is too low
(`JudgeGrows`). That a registration is true when told also needs that nextUserID gives no id twice
(`FreshIds`). `SettledOnce` becomes inductive with `SettleSound`: one caller at most settles a
game, its list names nobody twice, who is on it was not paid yet, and who is not on it was paid or
is among the failed.

`CoinsAccounted` has two sums, and each is a fold, whose recursive function is a value that the
definition of the fold chooses. `Recursion` is that function's equation, `RecursionExists` and
`RecursionSums` that there is one and that it adds up, and `Books` is the sum over a set by
whatever order its members come in, so that the order in which `SetToSeq` lists the games does not
matter. Induction is over the naturals only, as the least counterexample (`LeastOf`). The
invariant `BooksKept` then holds a book for every user, to which a payment adds one entry
(`SettleSound` gives that there was none yet) and a sale one price; everything else leaves money
alone.

**Session** (`SessionProofs`), for every size of the queue:

| theorem | says |
|---|---|
| `SessionTyped` | `Spec => []TypeOK` |
| `NewestKeptCorrect` | `Spec => []NewestKept` |
| `EndedMeansClosedCorrect` | `Spec => []EndedMeansClosed` |

`NewestKept` is not inductive either: it allows a state in which the writer has taken
the newest snapshot and an older one waits, from which taking the older one would lose the newest.
The strengthening `SlotIsLatest` says that the place holds the newest snapshot or
nothing whenever the room is not in SendSnapshot, and that it is empty between the
second and the third select: the room alone fills it.

All theorems rest on the named assumptions of the modules, which TLC evaluates in every run:
constants are numbers, finite sets or at least 1 where the code has such defaults, and `None` (no
token, no seat, no input) is none of the values it stands beside.

Only model-checked is what is out of the prover's reach, the liveness properties: `GamesConclude`,
by which rooms implement the fair Game, `JoinAnswered`, `HandlersReturn`, `ClosedPlayerLeaves`,
`AirborneLands`, `CloseEndsSession` and `StopEndsSession`. Every invariant and every action
property of a run is proved for all values of the constants, as are the three refinements.

## 6. Where code and documents part

Three of these are runs that TLC must find violated:

* `server_orphan` (room_manager.go:152). `roomserver/README.md` 12 says a lost connection
  ends in `handleLeave`. The result of `room.Leave` is ignored; with a full channel
  the leave is gone, the index entry already removed, and the member stays until the
  game ends. `OnlyDropsOrphan` shows that, for one player in one room, nothing else does that.
* `combat_stale` (room.go:868). README 10 says inputs from before a death have no effect
  after the respawn. Inputs of *later* ticks are discarded; the one for the current tick
  is carried out when the member is killed before its own turn.
* `logins_devices` (auth.go:156). The comment promises that tokens given to a client can be
  verified. Two logins of a user within a second give the same access token, whose
  session then names the refresh token of the second only.

The others were met while modelling; the model follows the code, and the properties are stated
so that they say what the code does keep:

* room.go:189 says slots are reserved so that concurrent joins do not exceed the room.
  `reconcileJoinSlots` and `markGameStarted` overwrite the counter with the roster and forget
  joins in the channel, so more joins than seats may be queued. The loop's
  own check refuses them (`RosterSound`); only the error comes later. Therefore `NoSlotLeak`
  is an upper bound and there is no lower one.
* server.go:223 binds the session only after a successful join, so that a failed connection does
  not send inputs. JoinRoom returns when the join is *queued*: a join the loop refuses leaves the
  session bound.
* room_manager.go:241, `finishRoom` cleans the index of a finished room. It returns at once
  (line 243) when nobody is left in the room, whose index entry then stays and counts against
  `maxRooms`. No property asks for its removal.
* room_manager.go:141. A player with sessions in two rooms has one index entry, that of the room
  joined last; closing the session of the first does nothing, and the player stays in that room.
  In the same way a session that joins as another player leaves the entry and the place of the
  first behind. `OnlyDropsOrphan` is proved, and holds, for sessions that keep to one player and
  players that keep to one room; README 14 lists repeated logins as future work.
* room_manager.go:89 and README 5, `learning/03` 9: the documents bind the session before
  the join, the code after it.
* matcher.go:174. `allocateLocked` makes a room on the first server that can take one without
  looking for one of that name on later servers, so that a named room may be split, which the test
  of named rooms (matcher_test.go:106) does not show with its single server. `SharedByName` covers
  the servers up to the one that makes the room.
* matcher.go:131 and 203. Rooms without seats are pruned so that a later match does not get an old
  room, and a player that asks again gets the room it was given. Neither looks at the room itself:
  a room keeps being handed out while somebody's seat in it is held, so when seats lapse one after
  the other a player is matched to a game that has started, and asking again gives the same room
  until that seat lapses. Its client must go back to matching (`STATE_SYNC_CLIENT_ADAPTATION.md`).
  `RefusalExplained` names the cases.
* room.go:190. A slot is taken before the room knows who joins: a second join of a member, or of a
  player whose first join is queued, holds one of its own until the room has answered "player
  already joined". Meanwhile a player with a live seat finds the slots taken and is refused (as a
  full event queue, room_manager.go:128), although the room waits, has a place and nobody's seat
  has lapsed. README 14 lists repeated logins as future work. It is the third case of
  `RefusalExplained` (`Doubled`), beside lapsed seats and a game that the player was in: nothing
  else makes the room server refuse a player with a live seat. Failures, of the equipment call,
  the physics world, a full channel or the spawn points, are not refusals there.
* room_manager.go:226. Rooms that wait are never taken out of the index of the room server when
  their members leave, and count against `maxRooms`; the match server prunes them when their seats
  lapse, and hands out rooms that there is no place for: the second case of `RefusalExplained`.
* room.go:696. After the hold window a member that once gave an input is simulated with a zero
  input, `applyViewRotation` included, which turns its view straight ahead. `ViewFollows` says
  that it happens then and only then.
* room.go:747 assigns `VerticalVelocity` to itself; README 8 (line 270) and `PHYSX_FLOW.md:880`
  have the answer of the physics world written back. The C function never sets it
  (`physx_bridge.cc:738`), so world.go:250 answers 0, which world_test.go:201 does not expect; in
  the simple world a player keeps the speed it landed with and is simulated for good.
* physics.go:174. The simple world moves sideways by `Direction` and `Distance`, which
  `buildMovePlayerRequest` never sets: in it players only jump. state_sync_test.go:55-76 shows a
  player that moves, of an older interface.
* room.go:813. A respawn clears inputs and speed and keeps `LastMove`: a player that is moved
  again before its stick has come back slides on in its new life (README 10, line 305).
  `StopsSoon` counts no time between a respawn and the next input.
* room.go:807. When a respawn fails nothing tries again, and the player stays dead in its game.
* user.go:364. The reason of a refused purchase is found by a second query, whose comment says
  that coins enough mean that the gun is owned: after a settlement in between, a player that had
  too few coins is told it owns the gun. `OwnedUnlessPaid` says that nothing else makes the reason
  wrong.
* gateway.go:90 ff. A purchase or a registration that is answered as failed may have been applied
  (the command failed after it was carried out, or the tokens of the new user could not be saved):
  the retry is told that the gun is owned, or that the account exists.
* dto.go:11 has the texts of the answers equal to those of gRPC, and gateway.go:21 all its unary
  methods. Registering answers "login success" here and "register success" there; a purchase that
  fails is an error of the call there and a text here; SendVerifyCode has no route.
* auth.go:169. In the last second of an access token the JWT still parses while its Redis session
  has ended: the pair is refused although the refresh token is good, and a refresh,
  which only an expired token leads to, would have worked a second later.

## 7. Not modelled

* *Geometry* (`physx/`, `raycast` of both worlds, rotation of views): floating point and a C++
  library. Who is hit, whether a place has a wall or a roof, and whether a call fails is chosen
  nondeterministically.
* *The life of a PhysX world* and *the loading of maps* (world.go, map_collision.go, the shared
  runtime of physx_bridge.cc): creation under a process-wide count of users, and validation of a
  file.
* *AOI* (`aoi.go`): a pure filter by distance.
* Snapshots' content, the wording of errors, the routes of queries that change nothing.
* *Framing, configuration, logging, clients of MongoDB, Redis and mail*:
  stateless translation or I/O. `roomserver/repo/user.go` has no caller.
* *Two rooms that send snapshots to one session*: after a double join the single place is shared
  by two rooms; Session has one room.
* *What a question about scores answers*: RoomServer has the wait, not the numbers.
* *A handler that outlives its session's context*, and panics.

## 8. Plan

1. Done: `Room`, `Game`, `RoomGame`, `RoomServer`, `Combat`, `Motion`, `Session`, `Matcher`,
   `System`, `Accounts`, `Logins`, and the proofs of section 5.
2. Done: `RoomServer` and the room servers of `System` keep the promises of a `Lobby`. Left: an
   abstract specification of a match (a seat is promised, taken or lapsed) for `System` to
   implement.
3. The life of the PhysX runtime that all rooms of a process share (`physx_bridge.cc:280`): worlds
   that are made and released by different rooms at once, and a map that fails to load half-way.
4. A reference check of the AOI filter over a small grid.
5. Proofs: the abstract match of item 2; that a game of `System` is a `Game`, so that `Lobby` and
   `Game` meet.
