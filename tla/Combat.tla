------------------------------- MODULE Combat -------------------------------
(***************************************************************************)
(* What a room does with inputs (roomserver/logic/room.go, sync.go): an     *)
(* input is queued for a tick of its own, a tick runs the members one after *)
(* the other in the order Go's map iteration happens to give, a missing     *)
(* input is replaced by the last one for a few ticks, and a shot may kill   *)
(* and respawn a member whose turn in the same tick is still to come.       *)
(* All of it runs on the room's goroutine: events come between ticks.       *)
(*                                                                         *)
(* Who may come in is Room's affair; here members come and go freely.       *)
(* Geometry is left out, and with it the move of a turn and the player's     *)
(* view: which member a shot meets, and whether a physics call fails, is    *)
(* for the physics world to say.                                            *)
(***************************************************************************)
EXTENDS Integers, FiniteSets

CONSTANTS Player,
          HP,          \* defaultPlayerHP
          Damage,      \* defaultFireDamage
          HoldTicks,   \* MaxInputHoldTicks
          SafeTicks,   \* defaultRespawnInvincibleDuration, in ticks
          GameTicks,   \* the tick that ends the game
          None         \* no input

ASSUME CombatAssumption ==
  /\ IsFiniteSet(Player)
  /\ HP \in Nat \ {0}
  /\ Damage \in Nat \ {0}
  /\ HoldTicks \in Nat
  /\ SafeTicks \in Nat
  /\ GameTicks \in Nat
  /\ None \notin [fire : BOOLEAN, life : Nat]

VARIABLES
  tick,
  todo,        \* members whose turn in this tick is still to come
  members,     \* keys of r.players
  alive, hp, kills, deaths,
  safeUntil,   \* InvincibleUntilTick
  inputs,      \* playerSyncState.inputs
  last,        \* lastInput, None when hasLastInput is false
  lastTick,    \* lastInputTick
  lastQueued,  \* lastQueuedInputTick
  owed         \* history: fire inputs accepted, less shots

scoreVars == <<alive, hp, kills, deaths, safeUntil>>
syncVars == <<inputs, last, lastTick, lastQueued>>
vars == <<tick, todo, members, scoreVars, syncVars, owed>>

\* nextAvailableInputTick's window, and every tick an input may be queued for.
Window == HoldTicks + 1
Ticks == 1..(GameTicks + Window)

\* Of an input, whether it fires and in which life of its player it was
\* accepted (history: the player's death count).
Input == [fire : BOOLEAN, life : Nat]

TypeOK ==
  /\ tick \in 0..GameTicks
  /\ todo \subseteq members
  /\ members \subseteq Player
  /\ alive \in [Player -> BOOLEAN]
  /\ hp \in [Player -> 0..HP]
  /\ kills \in [Player -> Nat]
  /\ deaths \in [Player -> Nat]
  /\ safeUntil \in [Player -> 0..(GameTicks + SafeTicks)]
  /\ inputs \in [Player -> [Ticks -> Input \cup {None}]]
  /\ last \in [Player -> Input \cup {None}]
  /\ lastTick \in [Player -> 0..GameTicks]
  /\ lastQueued \in [Player -> 0..(GameTicks + Window)]
  /\ owed \in [Player -> Int]

NoInputs == [t \in Ticks |-> None]

Init ==
  /\ tick = 0
  /\ todo = {}
  /\ members = {}
  /\ alive = [p \in Player |-> FALSE]
  /\ hp = [p \in Player |-> 0]
  /\ kills = [p \in Player |-> 0]
  /\ deaths = [p \in Player |-> 0]
  /\ safeUntil = [p \in Player |-> 0]
  /\ inputs = [p \in Player |-> NoInputs]
  /\ last = [p \in Player |-> None]
  /\ lastTick = [p \in Player |-> 0]
  /\ lastQueued = [p \in Player |-> 0]
  /\ owed = [p \in Player |-> 0]

-----------------------------------------------------------------------------
(* Events, handled between two ticks.                                      *)

\* (The tick that ends the game is the last thing the room does.)
Between == todo = {} /\ tick < GameTicks

\* handleJoinEvent, the player's own state: a new Player, a new sync state.
Join(p) ==
  /\ Between
  /\ p \notin members
  /\ members' = members \cup {p}
  /\ alive' = [alive EXCEPT ![p] = TRUE]
  /\ hp' = [hp EXCEPT ![p] = HP]
  /\ kills' = [kills EXCEPT ![p] = 0]
  /\ deaths' = [deaths EXCEPT ![p] = 0]
  /\ safeUntil' = [safeUntil EXCEPT ![p] = 0]
  /\ inputs' = [inputs EXCEPT ![p] = NoInputs]
  /\ last' = [last EXCEPT ![p] = None]
  /\ lastTick' = [lastTick EXCEPT ![p] = 0]
  /\ lastQueued' = [lastQueued EXCEPT ![p] = 0]
  /\ owed' = [owed EXCEPT ![p] = 0]
  /\ UNCHANGED <<tick, todo>>

\* handleLeave.
Leave(p) ==
  /\ Between
  /\ p \in members
  /\ members' = members \ {p}
  /\ UNCHANGED <<tick, todo, scoreVars, syncVars, owed>>

\* nextAvailableInputTick: behind the last input queued, never in the past.
FirstTick(p) == IF lastQueued[p] >= tick + 1 THEN lastQueued[p] + 1 ELSE tick + 1

\* The ticks of the window from there on that have no input yet.
FreeTicks(p) ==
  {t \in FirstTick(p)..(tick + Window) : inputs[p][t] = None}

\* handleInput and acceptInput, for a member that lives.  A full window drops
\* the input, and one that sanitizePlayerInput rejects does nothing.
PlayerInput(p, fire) ==
  /\ Between
  /\ p \in members /\ alive[p]
  /\ FreeTicks(p) # {}
  /\ LET t == CHOOSE f \in FreeTicks(p) : \A u \in FreeTicks(p) : f <= u
     IN /\ inputs' = [inputs EXCEPT ![p][t] = [fire |-> fire, life |-> deaths[p]]]
        /\ lastQueued' = [lastQueued EXCEPT ![p] = IF t > @ THEN t ELSE @]
  /\ owed' = [owed EXCEPT ![p] = @ + (IF fire THEN 1 ELSE 0)]
  /\ UNCHANGED <<tick, todo, members, scoreVars, last, lastTick>>

-----------------------------------------------------------------------------
(* A tick: update and updatePlayers.                                       *)

BeginTick ==
  /\ Between
  /\ tick' = tick + 1
  /\ todo' = members
  /\ UNCHANGED <<members, scoreVars, syncVars, owed>>

\* A member that is dead has no turn.
SkipDead(p) ==
  /\ p \in todo
  /\ ~alive[p]
  /\ todo' = todo \ {p}
  /\ UNCHANGED <<tick, members, scoreVars, syncVars, owed>>

Exact(p) == inputs[p][tick] # None
Holdable(p) == last[p] # None /\ tick - lastTick[p] <= HoldTicks

\* inputForTick: a held input does not fire again.
InputForTick(p) ==
  CASE Exact(p)                 -> inputs[p][tick]
    [] ~Exact(p) /\ Holdable(p) -> [last[p] EXCEPT !.fire = FALSE]
    [] OTHER                    -> None

\* What a turn of p does to its own state: clearExpiredInvincibility,
\* inputForTick and cleanupSyncState.
TurnSafe(p) == [safeUntil EXCEPT ![p] = IF @ <= tick THEN 0 ELSE @]
TurnLast(p) == IF Exact(p) THEN [last EXCEPT ![p] = inputs[p][tick]] ELSE last
TurnLastTick(p) == IF Exact(p) THEN [lastTick EXCEPT ![p] = tick] ELSE lastTick
TurnInputs(p) ==
  [inputs EXCEPT ![p] = [t \in Ticks |-> IF t <= tick THEN None ELSE @[t]]]

TurnSync(p) ==
  /\ inputs' = TurnInputs(p)
  /\ last' = TurnLast(p)
  /\ lastTick' = TurnLastTick(p)
  /\ UNCHANGED lastQueued

OwnState(p) ==
  /\ TurnSync(p)
  /\ safeUntil' = TurnSafe(p)

Turn(p) ==
  /\ p \in todo
  /\ alive[p]
  /\ todo' = todo \ {p}
  /\ UNCHANGED <<tick, members>>

ShootsMutant(p) ==
  LET i == IF Exact(p) THEN inputs[p][tick] ELSE last[p] IN i # None /\ i.fire
\* Only an input of this very tick fires.
Shoots(p) == Exact(p) /\ InputForTick(p).fire

\* A turn without a hit.
Miss(p) ==
  /\ Turn(p)
  /\ owed' = [owed EXCEPT ![p] = @ - (IF Shoots(p) THEN 1 ELSE 0)]
  /\ OwnState(p)
  /\ UNCHANGED <<alive, hp, kills, deaths>>

VulnerableMutant(t) == safeUntil[t] <= tick
\* handlePlayerFire and applyFireDamage: who can be hurt.
Vulnerable(t) == alive[t] /\ safeUntil[t] <= tick

\* A turn whose shot hits member t.
Hits(p, t) ==
  /\ Turn(p)
  /\ Shoots(p)
  /\ t \in members \ {p}
  /\ Vulnerable(t)
  /\ owed' = [owed EXCEPT ![p] = @ - 1]

\* What the hit leaves of t's HP.
DamagedHP(t) == IF hp[t] > Damage THEN hp[t] - Damage ELSE 0

Wound(p, t) ==
  /\ Hits(p, t)
  /\ hp[t] > Damage
  /\ hp' = [hp EXCEPT ![t] = DamagedHP(t)]
  /\ OwnState(p)
  /\ UNCHANGED <<alive, kills, deaths>>

Kills(p, t) ==
  /\ Hits(p, t)
  /\ hp[t] <= Damage
  /\ kills' = [kills EXCEPT ![p] = @ + 1]
  /\ deaths' = [deaths EXCEPT ![t] = @ + 1]

\* respawnPlayerAtSpawn fails in the physics world: t stays dead.
KillForGood(p, t) ==
  /\ Kills(p, t)
  /\ hp' = [hp EXCEPT ![t] = DamagedHP(t)]
  /\ alive' = [alive EXCEPT ![t] = FALSE]
  /\ OwnState(p)

RequeueMutant(t) == lastQueued[t]
\* The next input goes behind this tick.
Requeue(t) == tick

KeepFuture(p, t) == TurnSync(p)
\* discardFutureSyncState for t, in the turn of p: the inputs of later ticks go.
DiscardFuture(p, t) ==
  /\ inputs' = [TurnInputs(p) EXCEPT
       ![t] = [u \in Ticks |-> IF u > tick THEN None ELSE @[u]]]
  /\ last' = [TurnLast(p) EXCEPT ![t] = None]
  /\ lastTick' = [TurnLastTick(p) EXCEPT ![t] = 0]
  /\ lastQueued' = [lastQueued EXCEPT ![t] = Requeue(t)]

\* respawnPlayerAtSpawn.
KillAndRespawn(p, t) ==
  /\ Kills(p, t)
  /\ hp' = [hp EXCEPT ![t] = HP]
  /\ safeUntil' = [TurnSafe(p) EXCEPT ![t] = tick + SafeTicks]
  /\ DiscardFuture(p, t)
  /\ UNCHANGED alive

-----------------------------------------------------------------------------
TurnOf(p) ==
  \/ SkipDead(p) \/ Miss(p)
  \/ \E t \in Player : Wound(p, t) \/ KillForGood(p, t) \/ KillAndRespawn(p, t)

Next ==
  \/ \E p \in Player :
       \/ Join(p) \/ Leave(p) \/ TurnOf(p)
       \/ \E fire \in BOOLEAN : PlayerInput(p, fire)
  \/ BeginTick

Spec == Init /\ [][Next]_vars

-----------------------------------------------------------------------------
(* Properties.                                                             *)

\* Inputs run in the order received, one per tick and without a gap: those of a
\* member that lives fill the ticks up to lastQueuedInputTick, at most
\* MaxInputHoldTicks + 1 of them, whatever deaths and missing inputs come in
\* between (nextAvailableInputTick, cleanupSyncState, discardFutureSyncState).
QueueInOrder ==
  \A p \in members : alive[p] =>
    /\ {t \in Ticks : t > tick /\ inputs[p][t] # None}
         = (tick + 1)..lastQueued[p]
    /\ lastQueued[p] - tick <= HoldTicks + 1

\* README section 8: no input fires twice.  The shots of a member and the fire
\* inputs it still has in the queue are never more than those accepted.
FireOnce ==
  \A p \in members :
    owed[p] >= Cardinality({t \in Ticks : /\ inputs[p][t] # None
                                          /\ inputs[p][t].fire})

\* discardFutureSyncState: what waits for a later tick was accepted in the
\* member's present life.
FutureIsFresh ==
  \A p \in members : alive[p] =>
    \A t \in Ticks : t > tick /\ inputs[p][t] # None => inputs[p][t].life = deaths[p]

\* The comment in applyFireDamage: a death is counted once.  Each step counts at
\* most one death, of a member that lived and was out of its invincibility, and
\* credits exactly one kill for it, to another member.
FragsSound ==
  [][members' = members =>
       \/ kills' = kills /\ deaths' = deaths
       \/ \E p \in members : \E t \in members \ {p} :
            /\ kills' = [kills EXCEPT ![p] = @ + 1]
            /\ deaths' = [deaths EXCEPT ![t] = @ + 1]
            /\ alive[t] /\ safeUntil[t] <= tick]_vars

\* README section 10: a respawn discards the inputs not yet run, so that no
\* input from before a death has an effect after the respawn.
NoStaleInput ==
  [][\A p \in todo \ todo' :
       alive[p] /\ InputForTick(p) # None => InputForTick(p).life = deaths[p]]_vars
=============================================================================
