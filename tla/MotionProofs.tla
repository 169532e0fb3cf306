---------------------------- MODULE MotionProofs ----------------------------
(***************************************************************************)
(* Theorems about the movement of a player, for any map, speeds, windows     *)
(* and both physics worlds.  They rest on [Next]_vars alone, not on the      *)
(* fairness of Spec.                                                       *)
(***************************************************************************)
EXTENDS Motion, TLAPS

-----------------------------------------------------------------------------
(* The input of a tick.                                                    *)

\* An input remembered is an input, and its age counts from it.
Remembered ==
  /\ last \in Input \cup {None}
  /\ age \in Nat

\* Only the input of the tick itself can ask for a jump: neither a held input
\* nor the missing one does (inputForTick).
LEMMA JumpIsExact ==
  ASSUME NEW i \in Input \cup {None}, Remembered, InputForTick(i).jump
  PROVE  Exact(i) /\ InputForTick(i) = i
<1>1. CASE Exact(i)
  BY <1>1 DEF InputForTick
<1>2. CASE ~Exact(i) /\ InWindow(i)
  <2>1. last \in Input
    BY <1>2 DEF InWindow, Remembered
  <2>2. ~Held.jump
    BY <2>1 DEF Held, Input
  <2> QED
    BY <1>2, <2>2 DEF InputForTick
<1>3. CASE ~Exact(i) /\ ~InWindow(i)
  BY <1>3 DEF InputForTick, NoInput
<1> QED
  BY <1>1, <1>2, <1>3

LEMMA RememberedStep ==
  ASSUME MotionAssumption, Remembered, [Next]_vars
  PROVE  Remembered'
<1>1. CASE UNCHANGED vars
  BY <1>1 DEF vars, sync, Remembered
<1>2. ASSUME NEW i \in Input \cup {None}, Tick(i)
      PROVE  Remembered'
  <2>1. last' \in Input \cup {None}
    BY <1>2 DEF Tick, LastInput, Exact, Remembered
  <2>2. HoldTicks + 1 \in Nat /\ age + 1 \in Nat
    BY DEF MotionAssumption, Remembered
  <2>3. age' \in Nat
    BY <1>2, <2>2 DEF Tick, LastAge, Min2
  <2> QED
    BY <2>1, <2>3 DEF Remembered
<1>3. CASE Respawn
  BY <1>3 DEF Respawn, DiscardSync, Remembered
<1>4. CASE RespawnFails
  BY <1>4 DEF RespawnFails, sync, Remembered
<1> QED
  BY <1>1, <1>2, <1>3, <1>4 DEF Next

LEMMA RememberedAlways ==
  ASSUME MotionAssumption
  PROVE  Spec => []Remembered
<1>1. Init => Remembered
  BY DEF Init, Remembered
<1>2. Remembered /\ [Next]_vars => Remembered'
  BY MotionAssumption, RememberedStep
<1> QED
  BY <1>1, <1>2, PTL DEF Spec

-----------------------------------------------------------------------------
(* Where the player is.                                                    *)

\* A teleport that is answered with success has put the capsule at the spawn
\* point, standing.
LEMMA TeleportReaches ==
  ASSUME NEW moved \in SetPlayerPosition, moved.ok
  PROVE  moved.capsule = AtSpawn
<1>1. CASE moved \in SimpleTeleport
  BY <1>1 DEF SimpleTeleport
<1>2. CASE moved \in PhysXTeleport
  <2>1. \A m \in [capsule : {capsule, AtSpawn}, ok : {FALSE}] : ~m.ok
    OBVIOUS
  <2>2. moved = [capsule |-> AtSpawn, ok |-> TRUE]
    BY <1>2, <2>1 DEF PhysXTeleport
  <2> QED
    BY <2>2
<1> QED
  BY <1>1, <1>2 DEF SetPlayerPosition

\* A player that lives is where its capsule is, in any physics world that
\* refuses no move: PoseAgrees is inductive, as a teleport that fails leaves the
\* player dead (simulatePlayerTick, respawnPlayerAtSpawn).
THEOREM PoseAlwaysAgrees == Spec => []PoseAgrees
<1>1. Init => PoseAgrees
  <2>1. AtSpawn.height = SpawnHeight /\ AtSpawn.crouched = FALSE
    BY DEF AtSpawn
  <2> QED
    BY <2>1 DEF Init, PoseAgrees
<1>2. ASSUME PoseAgrees, [Next]_vars
      PROVE  PoseAgrees'
  <2> USE <1>2 DEF PoseAgrees
  <2>1. CASE UNCHANGED vars
    BY <2>1 DEF vars, player
  <2>2. ASSUME NEW i \in Input \cup {None}, Tick(i)
        PROVE  PoseAgrees'
    <3>1. CASE Moved(InputForTick(i))
      BY <3>1 DEF Moved
    <3>2. CASE NotMoved(InputForTick(i))
      BY <2>2, <3>2 DEF Tick, NotMoved
    <3> QED
      BY <2>2, <3>1, <3>2 DEF Tick
  <2>3. CASE Respawn
    <3>1. capsule' = AtSpawn
      BY <2>3, TeleportReaches DEF Respawn
    <3> QED
      BY <2>3, <3>1 DEF Respawn, AtSpawn
  <2>4. CASE RespawnFails
    BY <2>4 DEF RespawnFails, AliveAfterFailure
  <2> QED
    BY <2>1, <2>2, <2>3, <2>4 DEF Next
<1> QED
  BY <1>1, <1>2, PTL DEF Spec

-----------------------------------------------------------------------------
(* Jumps.                                                                  *)

SpeedIsInt == speed \in Int

LEMMA SpeedType ==
  ASSUME MotionAssumption, SpeedIsInt, NEW input
  PROVE  Speed(input) \in Int
BY DEF MotionAssumption, SpeedIsInt, Speed

LEMMA SpeedStep ==
  ASSUME MotionAssumption, SpeedIsInt, [Next]_vars
  PROVE  SpeedIsInt'
<1>1. CASE UNCHANGED vars
  BY <1>1 DEF vars, player, SpeedIsInt
<1>2. ASSUME NEW i \in Input \cup {None}, Tick(i)
      PROVE  SpeedIsInt'
  BY <1>2, SpeedType, MotionAssumption
     DEF Tick, Moved, NotMoved, SpeedAfter, SpeedIsInt
<1>3. CASE Respawn
  BY <1>3 DEF Respawn, SpeedIsInt
<1>4. CASE RespawnFails
  BY <1>4 DEF RespawnFails, SpeedIsInt
<1> QED
  BY <1>1, <1>2, <1>3, <1>4 DEF Next

\* The speed grows only by a jump.
LEMMA GrowsByJump ==
  ASSUME MotionAssumption, SpeedIsInt, NEW input, Speed(input) > speed
  PROVE  Jumps(input)
<1>1. Gravity \in Nat \ {0}
  BY DEF MotionAssumption
<1> QED
  BY <1>1 DEF SpeedIsInt, Speed

\* However inputs are late, lost or held, the vertical speed of a player grows only
\* by a jump that the input of the very tick asks for on the ground, or when the
\* player respawns (inputForTick, buildMovePlayerRequest).
THEOREM JumpsAreAskedFor == Spec => JumpsWhenAsked
<1>1. Init => SpeedIsInt
  BY DEF Init, SpeedIsInt
<1>2. SpeedIsInt /\ [Next]_vars => SpeedIsInt'
  BY MotionAssumption, SpeedStep
<1> DEFINE Asked == \/ last' = None /\ speed' = 0
                    \/ last' # None /\ age' = 0 /\ last'.jump /\ grounded
<1>3. ASSUME Remembered, SpeedIsInt, [Next]_vars, speed' > speed
      PROVE  Asked
  <2>1. ~(speed > speed)
    BY <1>3 DEF SpeedIsInt
  <2>2. speed' # speed
    BY <1>3, <2>1
  <2>3. ASSUME NEW i \in Input \cup {None}, Tick(i)
        PROVE  Asked
    <3>1. speed' = Speed(InputForTick(i))
      BY <2>2, <2>3 DEF Tick, Moved, NotMoved, SpeedAfter
    <3>2. Jumps(InputForTick(i))
      BY <1>3, <3>1, GrowsByJump, MotionAssumption
    <3>3. grounded /\ Exact(i) /\ i.jump
      BY <1>3, <3>2, JumpIsExact DEF Jumps
    <3> QED
      BY <2>3, <3>3 DEF Tick, LastInput, LastAge, Exact
  <2>4. CASE Respawn
    BY <2>4 DEF Respawn, DiscardSync
  <2> QED
    BY <1>3, <2>2, <2>3, <2>4 DEF Next, RespawnFails, vars, player
<1>4. Remembered /\ SpeedIsInt /\ [Next]_vars
        => [speed' > speed => Asked]_vars
  BY <1>3
<1> QED
  BY <1>1, <1>2, <1>4, RememberedAlways, MotionAssumption, PTL
     DEF Spec, JumpsWhenAsked

-----------------------------------------------------------------------------
(* The view.                                                               *)

\* A player with no input behind it stands still on the ground, so that it is not
\* simulated; one within its hold window looks where its last input did.
ViewHeld ==
  /\ last = None => grounded /\ ~crouched /\ speed = 0
  /\ last # None /\ age <= HoldTicks => view = last.view

\* The view after a tick without an input.
LEMMA ViewWithout ==
  ASSUME MotionAssumption, Remembered, ViewHeld, Tick(None)
  PROVE  /\ last # None /\ last' = last
         /\ age' > HoldTicks => view' = "ahead"
         /\ age' <= HoldTicks => view' = last.view /\ age <= HoldTicks
<1>1. last # None
  BY DEF Tick, Simulated, Exact, ViewHeld
<1>2. last' = last /\ age' = LastAge(None)
  BY DEF Tick, LastInput, Exact
<1>3. HoldTicks \in Nat /\ age \in Nat /\ LastAge(None) \in Nat
  BY DEF MotionAssumption, Remembered, LastAge, Exact, Min2
<1>4. LastAge(None) <= HoldTicks => age <= HoldTicks
  BY <1>3 DEF LastAge, Exact, Min2
<1>5. Held.view = last.view
  BY <1>1 DEF Remembered, Held, Input
<1>6. InWindow(None) <=> LastAge(None) <= HoldTicks
  BY <1>1 DEF InWindow
<1>7. view' = InputForTick(None).view
  BY DEF Tick
<1>8. CASE InWindow(None)
  <2>1. view' = last.view
    BY <1>5, <1>7, <1>8 DEF InputForTick, Exact
  <2> QED
    BY <1>1, <1>2, <1>3, <1>4, <1>6, <1>8, <2>1
<1>9. CASE ~InWindow(None)
  <2>1. view' = "ahead"
    BY <1>7, <1>9 DEF InputForTick, Exact, NoInput
  <2> QED
    BY <1>1, <1>2, <1>3, <1>4, <1>6, <1>9, <2>1
<1> QED
  BY <1>8, <1>9

\* The view after a tick with one.
LEMMA ViewWith ==
  ASSUME NEW i \in Input, i # None, Tick(i)
  PROVE  last' = i /\ age' = 0 /\ view' = i.view
BY DEF Tick, LastInput, LastAge, InputForTick, Exact

LEMMA ViewHeldStep ==
  ASSUME MotionAssumption, Remembered, ViewHeld, [Next]_vars
  PROVE  ViewHeld'
<1>1. CASE UNCHANGED vars
  BY <1>1 DEF vars, player, sync, ViewHeld
<1>2. CASE Tick(None)
  <2>1. HoldTicks \in Nat /\ age' \in Nat
    BY RememberedStep, MotionAssumption DEF MotionAssumption, Remembered
  <2> QED
    BY <1>2, <2>1, ViewWithout, MotionAssumption DEF ViewHeld
<1>3. ASSUME NEW i \in Input, i # None, Tick(i)
      PROVE  ViewHeld'
  BY <1>3, ViewWith DEF ViewHeld
<1>4. CASE Respawn
  BY <1>4 DEF Respawn, DiscardSync, ViewHeld
<1>5. CASE RespawnFails
  BY <1>5 DEF RespawnFails, sync, ViewHeld
<1> QED
  BY <1>1, <1>2, <1>3, <1>4, <1>5 DEF Next

\* For any hold window, a player looks where its client last said until the window
\* closes, then straight ahead, and nothing but an input or a respawn changes its
\* view in between (inputForTick, updatePlayers).
THEOREM ViewFollowsInputs == Spec => ViewFollows
<1>1. Init => ViewHeld
  BY DEF Init, ViewHeld
<1>2. Remembered /\ ViewHeld /\ [Next]_vars => ViewHeld'
  BY MotionAssumption, ViewHeldStep
<1> DEFINE Follows == \/ last' = None /\ view' = "spawn"
                      \/ last' # None /\ age' = 0 /\ view' = last'.view
                      \/ age' > HoldTicks /\ view' = "ahead"
<1>3. ASSUME Remembered, ViewHeld, [Next]_vars, view' # view
      PROVE  Follows
  <2>1. HoldTicks \in Nat /\ age' \in Nat
    BY <1>3, RememberedStep, MotionAssumption DEF MotionAssumption, Remembered
  <2>2. CASE Tick(None)
    BY <1>3, <2>1, <2>2, ViewWithout, MotionAssumption DEF ViewHeld
  <2>3. ASSUME NEW i \in Input, i # None, Tick(i)
        PROVE  Follows
    BY <2>3, ViewWith
  <2>4. CASE Respawn
    BY <2>4 DEF Respawn, DiscardSync
  <2> QED
    BY <1>3, <2>2, <2>3, <2>4 DEF Next, RespawnFails, vars, player
<1>4. Remembered /\ ViewHeld /\ [Next]_vars => [view' # view => Follows]_vars
  BY <1>3
<1> QED
  BY <1>1, <1>2, <1>4, RememberedAlways, MotionAssumption, PTL
     DEF Spec, ViewFollows

-----------------------------------------------------------------------------
(* Coming to rest.                                                         *)

\* An input that moves is within its hold window only for as long as the player
\* has been idle for no longer than it is old.
HeldIsRecent ==
  last # None /\ last.move # 0 /\ age <= HoldTicks => idle <= age

\* Past the hold window every idle tick has taken its share off the stick.
Braked ==
  stick # 0 /\ idle > HoldTicks =>
    /\ stick + Limit * (idle - HoldTicks) <= Full
    /\ Limit * (idle - HoldTicks) - stick <= Full

Slows ==
  /\ idle \in 0..MaxIdle
  /\ stick \in -Full..Full
  /\ HeldIsRecent
  /\ Braked

\* The ticks after the hold window suffice to bring back a full stick.
LEMMA MaxIdleSuffices ==
  ASSUME MotionAssumption
  PROVE  /\ MaxIdle \in Nat /\ MaxIdle > HoldTicks
         /\ Limit * (MaxIdle - HoldTicks) >= Full
<1> DEFINE brake == (Full + Limit - 1) \div Limit
<1>1. Full \in Nat \ {0} /\ Limit \in 1..Full /\ HoldTicks \in Nat
  BY DEF MotionAssumption
<1>2. brake \in Nat /\ Limit * brake <= Full + Limit - 1
        /\ Full + Limit - 1 < Limit * brake + Limit
  BY <1>1
<1>3. Limit * brake >= Full
  BY <1>1, <1>2
<1>4. brake # 0
  BY <1>1, <1>3
<1>5. MaxIdle = HoldTicks + brake
  BY DEF MaxIdle
<1> HIDE DEF brake
<1>6. MaxIdle - HoldTicks = brake
  BY <1>1, <1>2, <1>5
<1> QED
  BY <1>1, <1>2, <1>3, <1>4, <1>5, <1>6

\* What a tick of an idle player adds to its share.
LEMMA BrakeStep ==
  ASSUME MotionAssumption, NEW n \in Nat, n >= HoldTicks
  PROVE  Limit * ((n + 1) - HoldTicks) = Limit * (n - HoldTicks) + Limit
BY DEF MotionAssumption

\* The stick stays within a full move, whatever the input.
LEMMA StickInRange ==
  ASSUME MotionAssumption, NEW input, input.move \in {-Full, 0, Full},
         stick \in -Full..Full
  PROVE  Stick(input) \in -Full..Full
<1>1. Full \in Nat \ {0} /\ Limit \in 1..Full
  BY DEF MotionAssumption
<1> DEFINE kept == IF stick * input.move < 0 THEN 0 ELSE stick
<1>2. kept \in -Full..Full
  BY <1>1
<1>3. Stick(input) = kept + ClampTo(input.move - kept, -Limit, Limit)
  BY DEF Stick
<1> HIDE DEF kept
<1> QED
  BY <1>1, <1>2, <1>3 DEF ClampTo, Min2, Max2

\* Without an input that moves it, the stick comes back by Limit, or all the way.
LEMMA StickComesBack ==
  ASSUME MotionAssumption, NEW input, input.move = 0, stick \in Int
  PROVE  \/ Stick(input) = 0
         \/ stick > 0 /\ Stick(input) > 0 /\ Stick(input) = stick - Limit
         \/ stick < 0 /\ Stick(input) < 0 /\ Stick(input) = stick + Limit
<1>1. Full \in Nat \ {0} /\ Limit \in 1..Full
  BY DEF MotionAssumption
<1>2. Stick(input) = stick + ClampTo(0 - stick, -Limit, Limit)
  BY DEF Stick
<1> QED
  BY <1>1, <1>2 DEF ClampTo, Min2, Max2

\* What simulatePlayerTick is given to move by is one of the three moves, and it
\* moves the player only when an input of this tick or of the hold window does.
LEMMA MoveOfTick ==
  ASSUME Remembered, NEW i \in Input \cup {None}
  PROVE  /\ InputForTick(i).move \in {-Full, 0, Full}
         /\ InputForTick(i).move # 0 =>
              \/ Exact(i) /\ i.move # 0
              \/ ~Exact(i) /\ InWindow(i) /\ last.move # 0
<1>1. CASE Exact(i)
  BY <1>1 DEF InputForTick, Exact, Input
<1>2. CASE ~Exact(i) /\ InWindow(i)
  <2>1. last \in Input
    BY <1>2 DEF InWindow, Remembered
  <2>2. Held.move = last.move /\ last.move \in {-Full, 0, Full}
    BY <2>1 DEF Held, Input
  <2> QED
    BY <1>2, <2>2 DEF InputForTick
<1>3. CASE ~Exact(i) /\ ~InWindow(i)
  BY <1>3 DEF InputForTick, NoInput
<1> QED
  BY <1>1, <1>2, <1>3

\* An input that moves the player is felt for the hold window at most.
LEMMA FeltInWindow ==
  ASSUME MotionAssumption, Remembered, idle \in 0..MaxIdle, HeldIsRecent,
         NEW i \in Input \cup {None}, Tick(i)
  PROVE  /\ idle' \in 0..MaxIdle
         /\ HeldIsRecent'
         /\ InputForTick(i).move # 0 => idle' <= HoldTicks
<1>1. HoldTicks \in Nat /\ MaxIdle \in Nat /\ age \in Nat /\ idle \in Nat
  BY MaxIdleSuffices, MotionAssumption DEF MotionAssumption, Remembered
<1>2. last' = LastInput(i) /\ age' = LastAge(i) /\ idle' = Idle(i)
  BY DEF Tick
<1>3. CASE Exact(i) /\ i.move # 0
  <2>1. idle' = 0 /\ age' = 0
    BY <1>2, <1>3 DEF Idle, LastAge
  <2> QED
    BY <1>1, <2>1 DEF HeldIsRecent
<1>4. CASE Exact(i) /\ i.move = 0
  <2>1. idle' = Min2(idle + 1, MaxIdle) /\ last' = i
    BY <1>2, <1>4 DEF Idle, LastInput
  <2>2. InputForTick(i).move = 0
    BY <1>4 DEF InputForTick
  <2>3. idle' \in 0..MaxIdle
    BY <1>1, <2>1 DEF Min2
  <2> QED
    BY <1>4, <2>1, <2>2, <2>3 DEF HeldIsRecent
<1>5. CASE ~Exact(i)
  <2>1. idle' = Min2(idle + 1, MaxIdle) /\ last' = last
          /\ age' = Min2(age + 1, HoldTicks + 1)
    BY <1>2, <1>5 DEF Idle, LastInput, LastAge
  <2>2. idle' \in 0..MaxIdle /\ idle' <= idle + 1
    BY <1>1, <2>1 DEF Min2
  <2>3. age' <= HoldTicks => age <= HoldTicks /\ age' = age + 1
    BY <1>1, <2>1 DEF Min2
  <2>4. last # None /\ last.move # 0 /\ age' <= HoldTicks => idle' <= age'
    <3> SUFFICES ASSUME last # None, last.move # 0, age' <= HoldTicks
                 PROVE  idle' <= age'
      OBVIOUS
    <3>1. idle <= age
      BY <2>3 DEF HeldIsRecent
    <3> QED
      BY <1>1, <2>2, <2>3, <3>1
  <2>5. HeldIsRecent'
    BY <2>1, <2>4 DEF HeldIsRecent
  <2>6. InputForTick(i).move # 0 => last # None /\ last.move # 0 /\ age' <= HoldTicks
    BY <1>2, <1>5, MoveOfTick DEF InWindow
  <2>7. age' \in Nat
    BY <1>1, <2>1 DEF Min2
  <2> QED
    BY <1>1, <2>2, <2>4, <2>5, <2>6, <2>7
<1> QED
  BY <1>3, <1>4, <1>5

\* Every idle tick past the window takes Limit off the stick, until nothing is left.
LEMMA BrakedStep ==
  ASSUME MotionAssumption, Remembered, Slows,
         NEW i \in Input \cup {None}, Tick(i)
  PROVE  Braked'
<1>1. Full \in Nat \ {0} /\ Limit \in 1..Full /\ HoldTicks \in Nat
  BY DEF MotionAssumption
<1>2. MaxIdle \in Nat /\ MaxIdle > HoldTicks
        /\ Limit * (MaxIdle - HoldTicks) >= Full
  BY MaxIdleSuffices, MotionAssumption
<1>3. idle \in Nat /\ idle <= MaxIdle /\ stick \in -Full..Full
  BY <1>2 DEF Slows
<1>4. stick' = Stick(InputForTick(i)) /\ idle' = Idle(i)
  BY DEF Tick
<1>5. CASE InputForTick(i).move # 0
  <2>1. idle' \in 0..MaxIdle /\ idle' <= HoldTicks
    BY <1>5, FeltInWindow, MotionAssumption DEF Slows
  <2> QED
    BY <1>1, <1>2, <2>1 DEF Braked
<1>6. CASE InputForTick(i).move = 0
  <2> SUFFICES ASSUME stick' # 0, idle' > HoldTicks
               PROVE  /\ stick' + Limit * (idle' - HoldTicks) <= Full
                      /\ Limit * (idle' - HoldTicks) - stick' <= Full
    BY DEF Braked
  <2>1. \/ stick > 0 /\ stick' > 0 /\ stick' = stick - Limit
        \/ stick < 0 /\ stick' < 0 /\ stick' = stick + Limit
    BY <1>3, <1>4, <1>6, StickComesBack, MotionAssumption
  <2>2. ~(Exact(i) /\ i.move # 0)
    BY <1>6 DEF InputForTick
  <2>3. idle' = Min2(idle + 1, MaxIdle)
    BY <1>4, <2>2 DEF Idle
  <2>4. CASE idle < HoldTicks
    BY <1>1, <1>2, <1>3, <2>3, <2>4 DEF Min2
  <2>5. CASE idle = HoldTicks
    <3>1. idle' = HoldTicks + 1
      BY <1>1, <1>2, <2>3, <2>5 DEF Min2
    <3>2. Limit * (idle' - HoldTicks) = Limit
      BY <1>1, <3>1
    <3> QED
      BY <1>1, <1>3, <2>1, <3>2
  <2>6. CASE idle > HoldTicks
    <3> DEFINE taken == Limit * (idle - HoldTicks)
    <3>1. taken \in Int
      BY <1>1, <1>3
    <3>2. stick + taken <= Full /\ taken - stick <= Full
      BY <1>1, <2>1, <2>6 DEF Slows, Braked
    <3>3. idle # MaxIdle
      <4> SUFFICES ASSUME idle = MaxIdle
                   PROVE  FALSE
        OBVIOUS
      <4>1. taken >= Full
        BY <1>2
      <4> HIDE DEF taken
      <4> QED
        BY <1>1, <1>3, <2>1, <3>1, <3>2, <4>1
    <3>4. idle' = idle + 1
      BY <1>2, <1>3, <2>3, <3>3 DEF Min2
    <3>5. Limit * (idle' - HoldTicks) = taken + Limit
      BY <1>1, <1>3, <2>6, <3>4, BrakeStep, MotionAssumption
    <3> HIDE DEF taken
    <3> QED
      BY <1>1, <1>3, <2>1, <3>1, <3>2, <3>5
  <2> QED
    BY <1>1, <1>3, <2>4, <2>5, <2>6
<1> QED
  BY <1>5, <1>6

LEMMA SlowsStep ==
  ASSUME MotionAssumption, Remembered, Slows, [Next]_vars
  PROVE  Slows'
<1>1. CASE UNCHANGED vars
  BY <1>1 DEF vars, player, sync, Slows, HeldIsRecent, Braked
<1>2. ASSUME NEW i \in Input \cup {None}, Tick(i)
      PROVE  Slows'
  <2>1. idle' \in 0..MaxIdle /\ HeldIsRecent'
    BY <1>2, FeltInWindow, MotionAssumption DEF Slows
  <2>2. stick' \in -Full..Full
    BY <1>2, MoveOfTick, StickInRange, MotionAssumption DEF Slows, Tick
  <2>3. Braked'
    BY <1>2, BrakedStep, MotionAssumption
  <2> QED
    BY <2>1, <2>2, <2>3 DEF Slows
<1>3. CASE Respawn
  BY <1>3 DEF Respawn, DiscardSync, Slows, HeldIsRecent, Braked
<1>4. CASE RespawnFails
  BY <1>4 DEF RespawnFails, sync, Slows, HeldIsRecent, Braked
<1> QED
  BY <1>1, <1>2, <1>3, <1>4 DEF Next

\* For any full move, limit and hold window, a player is not moved sideways any
\* more once it has been simulated for the window and the ticks the stick takes to
\* come back, without an input that moves it (inputForTick,
\* buildMovePlayerRequest).  Respawns in between make it no longer.
THEOREM PlayersStopSoon == Spec => []StopsSoon
<1>1. Init => Slows
  <2>1. Full \in Nat /\ MaxIdle \in Nat
    BY MaxIdleSuffices, MotionAssumption DEF MotionAssumption
  <2> QED
    BY <2>1 DEF Init, Slows, HeldIsRecent, Braked
<1>2. Remembered /\ Slows /\ [Next]_vars => Slows'
  BY MotionAssumption, SlowsStep
<1>3. Slows => StopsSoon
  <2> SUFFICES ASSUME Slows, idle = MaxIdle, stick # 0
               PROVE  FALSE
    BY DEF StopsSoon
  <2> DEFINE taken == Limit * (MaxIdle - HoldTicks)
  <2>1. MaxIdle \in Nat /\ MaxIdle > HoldTicks /\ taken >= Full
    BY MaxIdleSuffices, MotionAssumption
  <2>2. Full \in Nat /\ taken \in Int /\ stick \in Int
    BY <2>1, MotionAssumption DEF MotionAssumption, Slows
  <2>3. stick + taken <= Full /\ taken - stick <= Full
    BY <2>1 DEF Slows, Braked
  <2> HIDE DEF taken
  <2> QED
    BY <2>1, <2>2, <2>3
<1> QED
  BY <1>1, <1>2, <1>3, RememberedAlways, MotionAssumption, PTL DEF Spec

-----------------------------------------------------------------------------
(* Types.                                                                  *)

Capsule == [height : Int, crouched : BOOLEAN, place : Place]

\* What TypeOK says beyond the invariants above.
Flags == alive \in BOOLEAN /\ grounded \in BOOLEAN /\ crouched \in BOOLEAN
Shaped ==
  /\ backend \in Backend
  /\ height \in Int
  /\ view \in View \cup {"ahead", "spawn"}
  /\ age \in 0..(HoldTicks + 1)
  /\ capsule \in Capsule

\* What SetPlayerPosition is asked for can be a capsule.
LEMMA SpawnIsCapsule == ASSUME MotionAssumption PROVE AtSpawn \in Capsule
BY DEF MotionAssumption, AtSpawn, Capsule

\* Whatever input simulatePlayerTick is given, it is one that a client can give, or none.
LEMMA InputTyped ==
  ASSUME Remembered, NEW i \in Input \cup {None}
  PROVE  InputForTick(i) \in Input \cup {NoInput}
<1>1. CASE Exact(i)
  BY <1>1 DEF InputForTick, Exact
<1>2. CASE ~Exact(i) /\ InWindow(i)
  <2>1. last \in Input
    BY <1>2 DEF InWindow, Remembered
  <2>2. Held \in Input
    BY <2>1 DEF Held, Input
  <2> QED
    BY <1>2, <2>2 DEF InputForTick
<1>3. CASE ~Exact(i) /\ ~InWindow(i)
  BY <1>3 DEF InputForTick
<1> QED
  BY <1>1, <1>2, <1>3

\* Both physics worlds answer with a capsule in one place of the map.
LEMMA MoveTyped ==
  ASSUME MotionAssumption, SpeedIsInt, Shaped, Flags, NEW input,
         input.jump \in BOOLEAN, input.squat \in BOOLEAN,
         NEW result \in MovePlayer(input)
  PROVE  result.capsule \in Capsule /\ result.landed \in BOOLEAN
<1>1. Speed(input) \in Int /\ SimpleGravity \in Int /\ Place \subseteq [ground : Int, ceiling : Int]
  BY SpeedType, MotionAssumption DEF MotionAssumption
<1>2. capsule \in Capsule /\ capsule.height \in Int /\ capsule.crouched \in BOOLEAN
      /\ capsule.place \in Place
  BY DEF Shaped, Capsule
<1>3. CASE backend = "simple"
  <2> DEFINE v == IF OnGround(input) THEN 0 ELSE Speed(input) - SimpleGravity
             h == Max2(0, capsule.height + v)
  <2>1. v \in Int
    BY <1>1
  <2> HIDE DEF v
  <2>2. h \in Int
    BY <1>2, <2>1 DEF Max2
  <2> HIDE DEF h
  <2>3. result = [capsule |-> [capsule EXCEPT !.height = h],
                  landed |-> (OnGround(input) /\ v = 0) \/ (h <= 0 /\ v <= 0)]
    BY <1>3 DEF MovePlayer, SimpleMove, h, v
  <2>4. [capsule EXCEPT !.height = h] \in Capsule
    BY <1>2, <2>2 DEF Capsule
  <2> QED
    BY <2>3, <2>4
<1>4. CASE backend # "simple"
  <2>1. PICK p \in Reach(input) : \E c \in Postures(input), b \in Lands(input, p) :
          result = [capsule |-> [height |-> ClampTo(capsule.height + Speed(input),
                                                    p.ground, p.ceiling),
                                 crouched |-> c, place |-> p],
                    landed |-> b]
    BY <1>4 DEF MovePlayer, PhysXMove
  <2>2. p \in Place /\ p.ground \in Int /\ p.ceiling \in Int
    <3>1. p \in Place
      BY <1>2, Zenon DEF Reach
    <3>2. p \in [ground : Int, ceiling : Int]
      BY <1>1, <3>1
    <3> QED
      BY <3>1, <3>2
  <2>3. Postures(input) \subseteq BOOLEAN /\ Lands(input, p) \subseteq BOOLEAN
    <3>1. Postures(input) \subseteq BOOLEAN
      BY <1>2, Zenon DEF Postures
    <3>2. (capsule.height + Speed(input) <= p.ground) \in BOOLEAN
      OBVIOUS
    <3>3. Lands(input, p) \subseteq BOOLEAN
      BY <3>2, Zenon DEF Lands
    <3> QED
      BY <3>1, <3>3
  <2>4. ClampTo(capsule.height + Speed(input), p.ground, p.ceiling) \in Int
    BY <1>1, <1>2, <2>2 DEF ClampTo, Min2, Max2
  <2> QED
    BY <2>1, <2>2, <2>3, <2>4 DEF Capsule
<1> QED
  BY <1>3, <1>4

\* What a move leaves of the player.
LEMMA MovedTyped ==
  ASSUME MotionAssumption, SpeedIsInt, Shaped, Flags, NEW input,
         input.jump \in BOOLEAN, input.squat \in BOOLEAN,
         Moved(input) \/ NotMoved(input)
  PROVE  /\ height' \in Int /\ capsule' \in Capsule
         /\ grounded' \in BOOLEAN /\ crouched' \in BOOLEAN
<1>1. CASE Moved(input)
  <2>1. PICK result \in MovePlayer(input) :
          /\ capsule' = result.capsule
          /\ height' = result.capsule.height
          /\ grounded' = result.landed
          /\ crouched' = result.capsule.crouched
    BY <1>1 DEF Moved
  <2>2. result.capsule \in Capsule /\ result.landed \in BOOLEAN
    BY MoveTyped, MotionAssumption
  <2>3. result.capsule.height \in Int /\ result.capsule.crouched \in BOOLEAN
    BY <2>2 DEF Capsule
  <2> QED
    BY <2>1, <2>2, <2>3, Zenon
<1>2. CASE NotMoved(input)
  BY <1>2, Zenon DEF NotMoved, Shaped, Flags
<1> QED
  BY <1>1, <1>2

\* A teleport leaves the capsule where it was or at the spawn point.
LEMMA TeleportTyped ==
  ASSUME MotionAssumption, Shaped, NEW moved \in SetPlayerPosition
  PROVE  moved.capsule \in Capsule
<1>1. capsule \in Capsule /\ AtSpawn \in Capsule
  BY SpawnIsCapsule, MotionAssumption DEF Shaped
<1>2. CASE moved = [capsule |-> AtSpawn, ok |-> TRUE]
  BY <1>1, <1>2
<1>3. CASE moved \in [capsule : {capsule, AtSpawn}, ok : {FALSE}]
  BY <1>1, <1>3
<1> QED
  BY <1>2, <1>3, Zenon DEF SetPlayerPosition, SimpleTeleport, PhysXTeleport

\* Every step keeps the shape of the player and of its capsule.
LEMMA ShapedStep ==
  ASSUME MotionAssumption, Remembered, SpeedIsInt, Shaped, Flags, [Next]_vars
  PROVE  Shaped' /\ Flags'
<1>0. capsule' \in Capsule => capsule' \in Capsule'
  BY Zenon DEF Capsule
<1>1. CASE UNCHANGED vars
  BY <1>0, <1>1, Zenon DEF vars, player, sync, Shaped, Flags
<1>2. ASSUME NEW i \in Input \cup {None}, Tick(i)
      PROVE  Shaped' /\ Flags'
  <2> DEFINE input == InputForTick(i)
  <2>1. /\ input.view \in View \cup {"ahead"}
        /\ input.jump \in BOOLEAN /\ input.squat \in BOOLEAN
    <3>1. CASE input \in Input
      BY <3>1 DEF Input
    <3>2. CASE input = NoInput
      BY <3>2 DEF NoInput
    <3> QED
      BY <3>1, <3>2, InputTyped
  <2>2. view' = input.view /\ backend' = backend /\ alive' = alive /\ age' = LastAge(i)
        /\ (Moved(input) \/ NotMoved(input))
    BY <1>2, Zenon DEF Tick
  <2> HIDE DEF input
  <2>3. LastAge(i) \in 0..(HoldTicks + 1)
    <3>1. HoldTicks \in Nat /\ age \in Nat
      BY DEF MotionAssumption, Shaped
    <3> QED
      BY <3>1 DEF LastAge, Min2
  <2>4. /\ height' \in Int /\ capsule' \in Capsule
        /\ grounded' \in BOOLEAN /\ crouched' \in BOOLEAN
    BY <2>1, <2>2, MovedTyped, MotionAssumption
  <2>5. view' \in View \cup {"ahead", "spawn"}
    BY <2>1, <2>2
  <2> QED
    BY <1>0, <2>2, <2>3, <2>4, <2>5, Zenon DEF Shaped, Flags
<1>3. HoldTicks \in Nat /\ SpawnHeight \in Int /\ 0 \in 0..(HoldTicks + 1)
  BY DEF MotionAssumption
<1>4. CASE Respawn
  <2>1. capsule' \in Capsule
    BY <1>4, TeleportTyped, MotionAssumption DEF Respawn
  <2>2. height' = SpawnHeight /\ view' = "spawn" /\ age' = 0 /\ backend' = backend
    BY <1>4, Zenon DEF Respawn, DiscardSync
  <2>3. Flags'
    BY <1>4, Zenon DEF Respawn, Flags
  <2> QED
    BY <1>0, <1>3, <2>1, <2>2, <2>3, Zenon DEF Shaped
<1>5. CASE RespawnFails
  <2>1. capsule' \in Capsule
    BY <1>5, TeleportTyped, MotionAssumption DEF RespawnFails
  <2> QED
    BY <1>0, <1>5, <2>1, Zenon DEF RespawnFails, AliveAfterFailure, sync, Shaped, Flags
<1> QED
  BY <1>1, <1>2, <1>4, <1>5, Zenon DEF Next

\* Whatever map and physics world: the capsule of a player is always in one place of the
\* map, its stick within a full move, and the age of an input within the hold window
\* (inputForTick, buildMovePlayerRequest, MovePlayer).
THEOREM MotionTyped == Spec => []TypeOK
<1>1. Init => SpeedIsInt /\ Slows /\ Shaped /\ Flags
  <2>1. Full \in Nat /\ MaxIdle \in Nat /\ HoldTicks \in Nat /\ SpawnHeight \in Int
        /\ 0 \in 0..(HoldTicks + 1)
    BY MaxIdleSuffices, MotionAssumption DEF MotionAssumption
  <2>2. AtSpawn \in Capsule
    BY SpawnIsCapsule, MotionAssumption
  <2>3. Init => Shaped /\ Flags
    BY <2>1, <2>2, Zenon DEF Init, Shaped, Flags
  <2>4. Init => SpeedIsInt /\ Slows
    BY <2>1 DEF Init, SpeedIsInt, Slows, HeldIsRecent, Braked
  <2> QED
    BY <2>3, <2>4
<1>2. SpeedIsInt /\ [Next]_vars => SpeedIsInt'
  BY SpeedStep, MotionAssumption
<1>3. Remembered /\ Slows /\ [Next]_vars => Slows'
  BY SlowsStep, MotionAssumption
<1>4. Remembered /\ SpeedIsInt /\ Shaped /\ Flags /\ [Next]_vars => Shaped' /\ Flags'
  BY ShapedStep, MotionAssumption
<1>5. Remembered /\ SpeedIsInt /\ Slows /\ Shaped /\ Flags => TypeOK
  BY DEF Remembered, SpeedIsInt, Slows, Shaped, Flags, Capsule, TypeOK
<1> QED
  BY <1>1, <1>2, <1>3, <1>4, <1>5, RememberedAlways, MotionAssumption, PTL DEF Spec
=============================================================================
