-------------------------------- MODULE Motion --------------------------------
(***************************************************************************)
(* How a tick moves one player of a room (roomserver/logic/room.go and      *)
(* movement.go) in the physics world of the room: the simple one in Go      *)
(* (logic/physics.go) or PhysX behind physx/world.go.                       *)
(*                                                                         *)
(* Which inputs reach a tick is Combat's affair: here every tick may have    *)
(* one or none.  A player walks on a line, and its height and vertical      *)
(* speed are integers, one unit of height being what a unit of speed covers *)
(* in a tick.  Of its view, only where it came from counts.                 *)
(*                                                                         *)
(* PhysX is external: places with a ground and a ceiling stand for the map. *)
(* It refuses no move of a player it knows, as the room only asks for finite *)
(* moves of members, each of which has its capsule.                         *)
(***************************************************************************)
EXTENDS Integers

CONSTANTS Full,          \* a full move of the stick
          Limit,         \* what accelerationlimit lets it change in a tick
          HoldTicks,     \* MaxInputHoldTicks
          Gravity,       \* what g adds to the speed in a tick
          JumpSpeed,     \* jumpSpeed, after a tick of it
          SimpleGravity, \* what defaultPlayerGravity adds in a tick
          SpawnHeight,
          Place,         \* parts of the map, each with its ground and ceiling
          SpawnPlace,    \* the one with the spawn point of the player
          Backend,       \* physics_backend
          View,          \* views that clients ask for
          None           \* no input

ASSUME MotionAssumption ==
  /\ Full \in Nat \ {0} /\ Limit \in 1..Full
  /\ HoldTicks \in Nat
  /\ Gravity \in Nat \ {0} /\ JumpSpeed \in Nat \ {0}
  /\ SimpleGravity \in Nat \ {0}
  /\ SpawnHeight \in Nat
  /\ Place \subseteq [ground : Int, ceiling : Int]
  /\ SpawnPlace \in Place /\ SpawnPlace.ground = 0
  /\ SpawnHeight < SpawnPlace.ceiling
  /\ Backend \subseteq {"simple", "physx"}
  /\ None \notin View

VARIABLES
  backend,   \* of the room, for good
  alive, grounded, crouched,
  speed,     \* VerticalVelocity
  height,    \* Y
  view,      \* Yaw and Pitch
  stick,     \* LastMove
  last,      \* lastInput, None when hasLastInput is false
  age,       \* ticks since lastInputTick, as far as it matters
  capsule,   \* the player in the physics world, and the part of the map
  idle       \* history: simulated ticks since an input that moves

player == <<alive, grounded, crouched, speed, height, view, stick>>
sync == <<last, age>>
vars == <<backend, player, sync, capsule, idle>>

Input == [move : {-Full, 0, Full}, view : View, jump : BOOLEAN, squat : BOOLEAN]
\* authoritativeInput{}, which looks straight ahead.
NoInput == [move |-> 0, view |-> "ahead", jump |-> FALSE, squat |-> FALSE]

AtSpawn == [height |-> SpawnHeight, crouched |-> FALSE, place |-> SpawnPlace]
\* The ticks an input that moves is felt for.
MaxIdle == HoldTicks + (Full + Limit - 1) \div Limit

TypeOK ==
  /\ backend \in Backend
  /\ alive \in BOOLEAN /\ grounded \in BOOLEAN /\ crouched \in BOOLEAN
  /\ speed \in Int /\ height \in Int
  /\ view \in View \cup {"ahead", "spawn"}
  /\ stick \in -Full..Full
  /\ last \in Input \cup {None}
  /\ age \in 0..(HoldTicks + 1)
  /\ capsule \in [height : Int, crouched : BOOLEAN, place : Place]
  /\ idle \in 0..MaxIdle

\* handleJoinEvent: the player at its spawn point.
Init ==
  /\ backend \in Backend
  /\ alive = TRUE /\ grounded = TRUE /\ crouched = FALSE
  /\ speed = 0
  /\ height = SpawnHeight
  /\ view = "spawn"
  /\ stick = 0
  /\ last = None /\ age = 0
  /\ capsule = AtSpawn
  /\ idle = MaxIdle

Min2(a, b) == IF a < b THEN a ELSE b
Max2(a, b) == IF a > b THEN a ELSE b
ClampTo(v, low, high) == Max2(low, Min2(v, high))

-----------------------------------------------------------------------------
(* The input of a tick, i being the one queued for it.                     *)

Exact(i) == i # None

\* inputForTick: what it remembers.
LastInput(i) == IF Exact(i) THEN i ELSE last
LastAge(i) == IF Exact(i) THEN 0 ELSE Min2(age + 1, HoldTicks + 1)

InWindowMutant(i) == last # None /\ age <= HoldTicks
\* The window in which a missing input is replaced by the last one.
InWindow(i) == last # None /\ LastAge(i) <= HoldTicks

HeldJumps == last
HeldLooksAhead == [last EXCEPT !.jump = FALSE, !.view = "ahead"]
\* A held input does not jump again.
Held == [last EXCEPT !.jump = FALSE]

InputForTick(i) ==
  CASE Exact(i)                 -> i
    [] ~Exact(i) /\ InWindow(i) -> Held
    [] OTHER                    -> NoInput

SimulatedInWindow(i) == Exact(i) \/ InWindow(i)
\* updatePlayers: whether the player is simulated at all.
Simulated(i) ==
  Exact(i) \/ last # None \/ crouched \/ ~grounded \/ speed # 0

-----------------------------------------------------------------------------
(* buildMovePlayerRequest, for the input of the tick.                      *)

\* The stick follows the input a little at a time, and gives up at once what
\* points the other way.
Stick(input) ==
  LET kept == IF stick * input.move < 0 THEN 0 ELSE stick
  IN kept + ClampTo(input.move - kept, -Limit, Limit)

Jumps(input) == grounded /\ input.jump
\* The speed up; a player that stays on the ground keeps what it had.
Speed(input) ==
  CASE Jumps(input)              -> JumpSpeed
    [] ~Jumps(input) /\ grounded -> speed
    [] OTHER                     -> speed - Gravity

\* simulatePlayerTick assigns the speed to itself, whatever the answer says.
SpeedAfter(input, landed) == Speed(input)

\* Grounded, in the request.
OnGround(input) == grounded /\ ~input.jump

\* shouldMovePlayer.
ShouldMove(input) ==
  \/ Stick(input) # 0
  \/ Speed(input) # 0
  \/ input.jump
  \/ input.squat # crouched
  \/ ~OnGround(input)

-----------------------------------------------------------------------------
(* MovePlayer: the capsule after the move and whether it is on the ground.  *)

\* SimplePhysicsWorld.MovePlayer and nextVerticalVelocity.  It adds a gravity of
\* its own, and moves sideways by fields that the room never sets.
SimpleMove(input) ==
  LET v == IF OnGround(input) THEN 0 ELSE Speed(input) - SimpleGravity
      h == Max2(0, capsule.height + v)
  IN {[capsule |-> [capsule EXCEPT !.height = h],
       landed |-> (OnGround(input) /\ v = 0) \/ (h <= 0 /\ v <= 0)]}

\* px_world_move_player: a capsule crouches at once and stands up where nothing
\* is above it.
Postures(input) == IF input.squat THEN {TRUE} ELSE {FALSE, capsule.crouched}

\* A move sideways may end in another place, if no wall keeps it from there.
Reach(input) ==
  {p \in Place : /\ Stick(input) # 0
                 /\ p.ground <= capsule.height /\ capsule.height <= p.ceiling}
  \cup {capsule.place}

\* The capsule falls on the ground or meets the ceiling; when it moves neither
\* up nor down it may or may not notice the ground.
Lands(input, p) ==
  IF Speed(input) = 0 THEN BOOLEAN ELSE {capsule.height + Speed(input) <= p.ground}

PhysXMove(input) ==
  UNION {{[capsule |-> [height |-> ClampTo(capsule.height + Speed(input),
                                           p.ground, p.ceiling),
                        crouched |-> c, place |-> p],
           landed |-> b] : c \in Postures(input), b \in Lands(input, p)} :
         p \in Reach(input)}

MovePlayer(input) ==
  IF backend = "simple" THEN SimpleMove(input) ELSE PhysXMove(input)

-----------------------------------------------------------------------------
\* How long the player has been simulated without an input that moves it.
Idle(i) == IF Exact(i) /\ i.move # 0 THEN 0 ELSE Min2(idle + 1, MaxIdle)

\* simulatePlayerTick, with the answer of the physics world.
Moved(input) ==
  /\ ShouldMove(input)
  /\ \E result \in MovePlayer(input) :
       /\ capsule' = result.capsule
       /\ height' = result.capsule.height
       /\ grounded' = result.landed
       /\ crouched' = result.capsule.crouched
       /\ speed' = SpeedAfter(input, result.landed)

NotMoved(input) ==
  /\ ~ShouldMove(input)
  /\ UNCHANGED <<capsule, height, grounded, crouched, speed>>

\* updatePlayers, the turn of the player in a tick.
Tick(i) ==
  LET input == InputForTick(i) IN
  /\ alive
  /\ Simulated(i)
  /\ view' = input.view
  /\ stick' = Stick(input)
  /\ Moved(input) \/ NotMoved(input)
  /\ last' = LastInput(i)
  /\ age' = LastAge(i)
  /\ idle' = Idle(i)
  /\ UNCHANGED <<backend, alive>>

\* SimplePhysicsWorld.SetPlayerPosition.
SimpleTeleport == {[capsule |-> AtSpawn, ok |-> TRUE]}

\* px_world_set_player_position may fail before it moves the capsule and after,
\* when the scene takes no step.
PhysXTeleport ==
  {[capsule |-> AtSpawn, ok |-> TRUE]}
    \cup [capsule : {capsule, AtSpawn}, ok : {FALSE}]

SetPlayerPosition == IF backend = "simple" THEN SimpleTeleport ELSE PhysXTeleport

\* discardFutureSyncState.
DiscardSync == last' = None /\ age' = 0

\* applyFireDamage and respawnPlayerAtSpawn: somebody shoots the player dead, and
\* it respawns.  It keeps the stick.
Respawn ==
  /\ alive
  /\ \E moved \in SetPlayerPosition : moved.ok /\ capsule' = moved.capsule
  /\ height' = SpawnHeight
  /\ view' = "spawn"
  /\ speed' = 0
  /\ grounded' = TRUE
  /\ crouched' = FALSE
  /\ DiscardSync
  /\ UNCHANGED <<backend, alive, stick, idle>>

AliveFirst == TRUE
\* Alive only when the capsule has moved.
AliveAfterFailure == FALSE

\* The player stays as it died, and nothing tries again.
RespawnFails ==
  /\ alive
  /\ \E moved \in SetPlayerPosition : ~moved.ok /\ capsule' = moved.capsule
  /\ alive' = AliveAfterFailure
  /\ UNCHANGED <<backend, grounded, crouched, speed, height, view, stick, sync, idle>>

Next ==
  \/ \E i \in Input \cup {None} : Tick(i)
  \/ Respawn
  \/ RespawnFails

\* The room ticks for as long as its game lasts, whether an input comes or not:
\* when a tick without one would go on changing the player, there is a tick.
Fairness ==
  <>[](ENABLED <<Tick(None)>>_vars) => []<><<\E i \in Input \cup {None} : Tick(i)>>_vars

Spec == Init /\ [][Next]_vars /\ Fairness

-----------------------------------------------------------------------------
(* Properties.                                                             *)

\* STATE_SYNC_CLIENT_ADAPTATION.md section 7: a player in the air is moved on
\* without any input.  Who jumps or walks off an edge comes down, also when its
\* client falls silent, unless it is shot dead before.
AirborneLands == ~grounded ~> (grounded \/ ~alive)

\* A player that lives is where its capsule is and crouches when it does: the
\* room shows the one and shots meet the other.  Holds whatever respawns fail
\* half-way, and wherever standing up is impossible (simulatePlayerTick,
\* respawnPlayerAtSpawn).
PoseAgrees ==
  alive => /\ height = capsule.height
           /\ crouched = capsule.crouched

\* A player slows down by itself: it is not moved sideways any more once it has been
\* simulated for the hold window and the time the stick takes to come back,
\* without an input that moves it.  The ticks between a respawn and the next
\* input do not count, so it may still slide in its new life.
StopsSoon == idle = MaxIdle => stick = 0

\* README section 8: missing inputs do not repeat a jump, and nobody jumps off
\* the air.  The speed grows only by a jump that the input of this tick asks for
\* on the ground, and by a respawn.
JumpsWhenAsked ==
  [][speed' > speed =>
       \/ last' = None /\ speed' = 0
       \/ last' # None /\ age' = 0 /\ last'.jump /\ grounded]_vars

\* STATE_SYNC_CLIENT_ADAPTATION.md section 7: within the hold window a player
\* looks where its last input did.  Its view changes only by an input of this
\* tick or a respawn, and straight ahead when the window closes.
ViewFollows ==
  [][view' # view =>
       \/ last' = None /\ view' = "spawn"
       \/ last' # None /\ age' = 0 /\ view' = last'.view
       \/ age' > HoldTicks /\ view' = "ahead"]_vars
=============================================================================
