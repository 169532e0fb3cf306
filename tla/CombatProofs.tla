---------------------------- MODULE CombatProofs ----------------------------
(***************************************************************************)
(* Theorems about inputs and shots, for any number of players, hit points,   *)
(* hold window and length of a game.                                       *)
(***************************************************************************)
EXTENDS Combat, FiniteSetTheorems, TLAPS

-----------------------------------------------------------------------------
(* The inductive invariant.  It speaks of every player, also of one that is  *)
(* dead or has left: what it left behind is as orderly.                    *)

Typed ==
  /\ tick \in 0..GameTicks
  /\ inputs \in [Player -> [Ticks -> Input \cup {None}]]
  /\ lastQueued \in [Player -> Nat]
  /\ alive \in [Player -> BOOLEAN]
  /\ deaths \in [Player -> Nat]
  /\ members \subseteq Player

\* The inputs ahead fill the ticks up to the last one queued.
InOrder(p) ==
  /\ \A t \in Ticks : t > tick => (inputs[p][t] # None <=> t <= lastQueued[p])
  /\ lastQueued[p] <= tick + Window

Fresh(p) ==
  alive[p] => \A t \in Ticks : t > tick /\ inputs[p][t] # None
                                 => inputs[p][t].life = deaths[p]

CombatInv == Typed /\ \A p \in Player : InOrder(p) /\ Fresh(p)

LEMMA Bounds ==
  ASSUME CombatAssumption
  PROVE  GameTicks \in Nat /\ HoldTicks \in Nat /\ Window \in Nat /\ Window >= 1
BY DEF CombatAssumption, Window

LEMMA CombatInit == ASSUME CombatAssumption, Init PROVE CombatInv
<1>1. Typed
  BY Bounds, CombatAssumption DEF Init, Typed, NoInputs
<1>2. ASSUME NEW p \in Player
      PROVE  InOrder(p) /\ Fresh(p)
  <2>1. tick = 0 /\ lastQueued[p] = 0 /\ \A t \in Ticks : inputs[p][t] = None
    BY DEF Init, NoInputs
  <2>2. \A t \in Ticks : t \in Nat /\ t > 0
    BY Bounds, CombatAssumption DEF Ticks
  <2> QED
    BY <2>1, <2>2, Bounds, CombatAssumption DEF InOrder, Fresh
<1> QED
  BY <1>1, <1>2 DEF CombatInv

\* An input is accepted for the tick right behind the queue.
LEMMA NextFree ==
  ASSUME CombatAssumption, CombatInv, NEW p \in Player, Between, FreeTicks(p) # {},
         NEW t, t = CHOOSE f \in FreeTicks(p) : \A u \in FreeTicks(p) : f <= u
  PROVE  /\ t = FirstTick(p) /\ t \in Ticks /\ t > tick /\ t <= tick + Window
         /\ t > lastQueued[p]
         /\ \A u \in Ticks : tick < u /\ u < t => u <= lastQueued[p]
<1> DEFINE first == FirstTick(p)
<1>1. /\ tick \in Nat /\ tick < GameTicks /\ lastQueued[p] \in Nat /\ InOrder(p)
      /\ GameTicks \in Nat /\ Window \in Nat
  BY Bounds DEF CombatInv, Typed, Between
<1>2. /\ first \in Nat /\ first > tick /\ first > lastQueued[p]
      /\ \A u \in Nat : tick < u /\ u < first => u <= lastQueued[p]
  BY <1>1 DEF FirstTick
<1>3. PICK free \in first..(tick + Window) : TRUE
  BY DEF FreeTicks
<1>4. first <= tick + Window
  BY <1>1, <1>2, <1>3
<1>5. first \in Ticks
  BY <1>1, <1>2, <1>4 DEF Ticks
<1>6. inputs[p][first] = None
  BY <1>1, <1>2, <1>5 DEF InOrder
<1>7. first \in FreeTicks(p) /\ \A u \in FreeTicks(p) : u \in Nat /\ first <= u
  <2>1. FreeTicks(p) \subseteq first..(tick + Window)
    BY DEF FreeTicks
  <2>2. \A u \in first..(tick + Window) : u \in Nat /\ first <= u
    BY <1>1, <1>2
  <2>3. first \in first..(tick + Window)
    BY <1>1, <1>2, <1>4
  <2>4. first \in FreeTicks(p)
    BY <1>6, <2>3 DEF FreeTicks
  <2> QED
    BY <2>1, <2>2, <2>4
<1> HIDE DEF first
<1>8. \E f \in FreeTicks(p) : \A u \in FreeTicks(p) : f <= u
  BY <1>7
<1>9. t \in FreeTicks(p) /\ \A u \in FreeTicks(p) : t <= u
  BY <1>8
<1>10. t = first
  BY <1>2, <1>7, <1>9
<1>11. Ticks \subseteq Nat
  BY DEF Ticks
<1> QED
  BY <1>2, <1>4, <1>5, <1>10, <1>11 DEF first

LEMMA InputKeeps ==
  ASSUME CombatAssumption, CombatInv, NEW p \in Player, NEW fire \in BOOLEAN,
         PlayerInput(p, fire)
  PROVE  CombatInv'
<1> DEFINE t == CHOOSE f \in FreeTicks(p) : \A u \in FreeTicks(p) : f <= u
           i == [fire |-> fire, life |-> deaths[p]]
<1>1. /\ inputs' = [inputs EXCEPT ![p][t] = i]
      /\ lastQueued' = [lastQueued EXCEPT ![p] = IF t > @ THEN t ELSE @]
      /\ UNCHANGED <<tick, members, alive, deaths>>
      /\ Between /\ FreeTicks(p) # {}
  BY DEF PlayerInput, scoreVars
<1>2. /\ t \in Ticks /\ t > tick /\ t <= tick + Window /\ t > lastQueued[p]
      /\ \A u \in Ticks : tick < u /\ u < t => u <= lastQueued[p]
  BY <1>1, NextFree, CombatAssumption
<1> HIDE DEF t
<1>3. i \in Input /\ i # None /\ i.life = deaths[p]
  BY DEF CombatInv, Typed, Input, CombatAssumption
<1> HIDE DEF i
<1>4. Ticks \subseteq Nat /\ tick \in Nat /\ lastQueued[p] \in Nat /\ Window \in Nat
  BY Bounds, CombatAssumption DEF Ticks, CombatInv, Typed
<1>5. /\ lastQueued'[p] = t
      /\ \A u \in Ticks : inputs'[p][u] = IF u = t THEN i ELSE inputs[p][u]
      /\ \A q \in Player \ {p} : /\ lastQueued'[q] = lastQueued[q]
                                 /\ inputs'[q] = inputs[q]
  BY <1>1, <1>2 DEF CombatInv, Typed
<1>6. Typed'
  BY <1>1, <1>2, <1>3, <1>4 DEF CombatInv, Typed
<1>7. InOrder(p)'
  <2>1. InOrder(p)
    BY DEF CombatInv
  <2>2. ASSUME NEW u \in Ticks, u > tick
        PROVE  inputs'[p][u] # None <=> u <= t
    <3>1. u \in Nat /\ t \in Nat
      BY <1>2, <1>4
    <3>2. inputs[p][u] # None <=> u <= lastQueued[p]
      BY <2>1, <2>2 DEF InOrder
    <3>3. CASE u = t
      BY <1>3, <1>5, <3>1, <3>3
    <3>4. CASE u # t
      BY <1>2, <1>4, <1>5, <2>2, <3>1, <3>2, <3>4
    <3> QED
      BY <3>3, <3>4
  <2> QED
    BY <1>1, <1>2, <1>5, <2>2 DEF InOrder
<1>8. Fresh(p)'
  <2>1. Fresh(p)
    BY DEF CombatInv
  <2> QED
    BY <1>1, <1>3, <1>5, <2>1 DEF Fresh
<1>9. ASSUME NEW q \in Player \ {p}
      PROVE  (InOrder(q) /\ Fresh(q))'
  <2>1. InOrder(q) /\ Fresh(q)
    BY DEF CombatInv
  <2> QED
    BY <1>1, <1>5, <2>1 DEF InOrder, Fresh
<1> QED
  BY <1>6, <1>7, <1>8, <1>9 DEF CombatInv

LEMMA JoinKeeps ==
  ASSUME CombatAssumption, CombatInv, NEW p \in Player, Join(p)
  PROVE  CombatInv'
<1>1. /\ inputs' = [inputs EXCEPT ![p] = NoInputs]
      /\ lastQueued' = [lastQueued EXCEPT ![p] = 0]
      /\ alive' = [alive EXCEPT ![p] = TRUE]
      /\ deaths' = [deaths EXCEPT ![p] = 0]
      /\ members' = members \cup {p} /\ UNCHANGED tick
  BY DEF Join
<1>2. Typed'
  BY <1>1 DEF CombatInv, Typed, NoInputs
<1>3. tick \in Nat /\ Window \in Nat /\ Ticks \subseteq Nat
  BY Bounds, CombatAssumption DEF CombatInv, Typed, Ticks
<1>4. InOrder(p)' /\ Fresh(p)'
  <2>1. lastQueued'[p] = 0 /\ \A t \in Ticks : inputs'[p][t] = None
    BY <1>1 DEF CombatInv, Typed, NoInputs
  <2> QED
    BY <1>1, <1>3, <2>1 DEF InOrder, Fresh
<1>5. ASSUME NEW q \in Player \ {p}
      PROVE  (InOrder(q) /\ Fresh(q))'
  <2>1. /\ inputs'[q] = inputs[q] /\ lastQueued'[q] = lastQueued[q]
        /\ alive'[q] = alive[q] /\ deaths'[q] = deaths[q]
    BY <1>1 DEF CombatInv, Typed
  <2> QED
    BY <1>1, <2>1 DEF CombatInv, InOrder, Fresh
<1> QED
  BY <1>2, <1>4, <1>5 DEF CombatInv

LEMMA BeginTickKeeps ==
  ASSUME CombatAssumption, CombatInv, BeginTick
  PROVE  CombatInv'
<1>1. /\ tick' = tick + 1 /\ tick < GameTicks
      /\ UNCHANGED <<inputs, lastQueued, members, alive, deaths>>
  BY DEF BeginTick, Between, scoreVars, syncVars
<1>2. /\ tick \in Nat /\ tick' \in 0..GameTicks /\ Window \in Nat
      /\ Ticks \subseteq Nat /\ \A p \in Player : lastQueued[p] \in Nat
  BY <1>1, Bounds, CombatAssumption DEF CombatInv, Typed, Ticks
<1>3. ASSUME NEW p \in Player
      PROVE  (InOrder(p) /\ Fresh(p))'
  <2>1. InOrder(p) /\ Fresh(p)
    BY DEF CombatInv
  <2>2. \A t \in Ticks : t > tick + 1 => t > tick
    BY <1>2
  <2>3. lastQueued[p] <= tick + Window => lastQueued[p] <= tick + 1 + Window
    BY <1>2
  <2> QED
    BY <1>1, <2>1, <2>2, <2>3 DEF InOrder, Fresh
<1> QED
  BY <1>1, <1>2, <1>3 DEF CombatInv, Typed

\* A turn drops the inputs of p up to this tick and leaves those ahead alone.
LEMMA TurnKeepsAhead ==
  ASSUME CombatInv, NEW p \in Player
  PROVE  /\ TurnInputs(p) \in [Player -> [Ticks -> Input \cup {None}]]
         /\ \A q \in Player : \A t \in Ticks :
              t > tick => TurnInputs(p)[q][t] = inputs[q][t]
<1>1. Ticks \subseteq Nat /\ tick \in Nat
  BY DEF CombatInv, Typed, Ticks
<1>2. TurnInputs(p)[p] = [t \in Ticks |-> IF t <= tick THEN None ELSE inputs[p][t]]
      /\ \A q \in Player \ {p} : TurnInputs(p)[q] = inputs[q]
  BY DEF CombatInv, Typed, TurnInputs
<1>3. TurnInputs(p) \in [Player -> [Ticks -> Input \cup {None}]]
  BY DEF CombatInv, Typed, TurnInputs
<1>4. ASSUME NEW t \in Ticks, t > tick
      PROVE  TurnInputs(p)[p][t] = inputs[p][t]
  <2>1. ~(t <= tick)
    BY <1>1, <1>4
  <2> QED
    BY <1>2, <2>1
<1> QED
  BY <1>2, <1>3, <1>4

\* What a step that leaves the inputs ahead alone keeps; a member may die in it.
LEMMA AheadKept ==
  ASSUME CombatInv,
         inputs' \in [Player -> [Ticks -> Input \cup {None}]],
         \A q \in Player : \A t \in Ticks : t > tick => inputs'[q][t] = inputs[q][t],
         UNCHANGED <<tick, lastQueued>>, members' \subseteq members,
         alive' \in [Player -> BOOLEAN], deaths' \in [Player -> Nat],
         \A q \in Player : alive'[q] => alive[q] /\ deaths'[q] = deaths[q]
  PROVE  CombatInv'
<1>1. Typed'
  BY DEF CombatInv, Typed
<1>2. ASSUME NEW q \in Player
      PROVE  (InOrder(q) /\ Fresh(q))'
  <2>1. InOrder(q) /\ Fresh(q)
    BY DEF CombatInv
  <2>2. InOrder(q)'
    BY <2>1 DEF InOrder
  <2>3. Fresh(q)'
    BY <2>1 DEF Fresh
  <2> QED
    BY <2>2, <2>3
<1> QED
  BY <1>1, <1>2 DEF CombatInv

\* A member that respawns has nothing ahead and starts its queue anew.
LEMMA RespawnKeeps ==
  ASSUME CombatAssumption, CombatInv, NEW p \in Player, NEW v \in Player,
         KillAndRespawn(p, v)
  PROVE  CombatInv'
<1>1. /\ inputs' = [TurnInputs(p) EXCEPT
           ![v] = [u \in Ticks |-> IF u > tick THEN None ELSE @[u]]]
      /\ lastQueued' = [lastQueued EXCEPT ![v] = tick]
      /\ deaths' = [deaths EXCEPT ![v] = @ + 1]
      /\ UNCHANGED <<tick, members, alive>>
  BY DEF KillAndRespawn, Kills, Hits, Turn, DiscardFuture, Requeue
<1>2. Ticks \subseteq Nat /\ tick \in Nat /\ tick <= GameTicks /\ Window \in Nat
  BY Bounds, CombatAssumption DEF CombatInv, Typed, Ticks
<1>3. /\ inputs' \in [Player -> [Ticks -> Input \cup {None}]]
      /\ \A t \in Ticks : t > tick => inputs'[v][t] = None
      /\ \A q \in Player \ {v} : inputs'[q] = TurnInputs(p)[q]
  BY <1>1, TurnKeepsAhead
<1>4. /\ lastQueued'[v] = tick /\ \A q \in Player \ {v} : lastQueued'[q] = lastQueued[q]
      /\ \A q \in Player \ {v} : deaths'[q] = deaths[q]
  BY <1>1 DEF CombatInv, Typed
<1>5. Typed'
  BY <1>1, <1>2, <1>3 DEF CombatInv, Typed
<1>6. InOrder(v)' /\ Fresh(v)'
  BY <1>1, <1>2, <1>3, <1>4 DEF InOrder, Fresh
<1>7. ASSUME NEW q \in Player \ {v}
      PROVE  (InOrder(q) /\ Fresh(q))'
  <2>1. InOrder(q) /\ Fresh(q)
    BY DEF CombatInv
  <2>2. \A t \in Ticks : t > tick => inputs'[q][t] = inputs[q][t]
    BY <1>3, TurnKeepsAhead
  <2> QED
    BY <1>1, <1>4, <2>1, <2>2 DEF InOrder, Fresh
<1> QED
  BY <1>5, <1>6, <1>7 DEF CombatInv

LEMMA TurnOfKeeps ==
  ASSUME CombatAssumption, CombatInv, NEW p \in Player, TurnOf(p)
  PROVE  CombatInv'
<1>0. alive \in [Player -> BOOLEAN] /\ deaths \in [Player -> Nat]
      /\ inputs \in [Player -> [Ticks -> Input \cup {None}]]
  BY DEF CombatInv, Typed
<1>1. CASE SkipDead(p)
  BY <1>0, <1>1, AheadKept DEF SkipDead, scoreVars, syncVars
<1>2. CASE Miss(p) \/ \E v \in Player : Wound(p, v)
  <2>1. /\ inputs' = TurnInputs(p)
        /\ UNCHANGED <<tick, members, lastQueued, alive, deaths>>
    BY <1>2 DEF Miss, Wound, Hits, Turn, OwnState, TurnSync
  <2> QED
    BY <1>0, <2>1, TurnKeepsAhead, AheadKept
<1>3. ASSUME NEW v \in Player, KillForGood(p, v)
      PROVE  CombatInv'
  <2>1. /\ inputs' = TurnInputs(p) /\ UNCHANGED <<tick, members, lastQueued>>
        /\ alive' = [alive EXCEPT ![v] = FALSE]
        /\ deaths' = [deaths EXCEPT ![v] = @ + 1]
    BY <1>3 DEF KillForGood, Kills, Hits, Turn, OwnState, TurnSync
  <2>2. /\ alive' \in [Player -> BOOLEAN] /\ deaths' \in [Player -> Nat]
        /\ \A q \in Player : alive'[q] => alive[q] /\ deaths'[q] = deaths[q]
    BY <1>0, <2>1
  <2> QED
    BY <2>1, <2>2, TurnKeepsAhead, AheadKept
<1> QED
  BY <1>1, <1>2, <1>3, RespawnKeeps, CombatAssumption DEF TurnOf

LEMMA CombatStep ==
  ASSUME CombatAssumption, CombatInv, [Next]_vars
  PROVE  CombatInv'
<1>0. alive \in [Player -> BOOLEAN] /\ deaths \in [Player -> Nat]
      /\ inputs \in [Player -> [Ticks -> Input \cup {None}]]
  BY DEF CombatInv, Typed
<1>1. CASE UNCHANGED vars
  BY <1>0, <1>1, AheadKept DEF vars, scoreVars, syncVars
<1>2. ASSUME NEW p \in Player, Leave(p)
      PROVE  CombatInv'
  BY <1>0, <1>2, AheadKept DEF Leave, scoreVars, syncVars
<1> QED
  BY <1>1, <1>2, JoinKeeps, InputKeeps, BeginTickKeeps, TurnOfKeeps,
     CombatAssumption DEF Next

LEMMA CombatAlwaysSound == Spec => []CombatInv
<1>1. CombatInv /\ [Next]_vars => CombatInv'
  BY CombatStep, CombatAssumption
<1>2. Init => CombatInv
  BY CombatInit, CombatAssumption
<1> QED
  BY <1>1, <1>2, PTL DEF Spec

-----------------------------------------------------------------------------
\* For any hold window and any number of deaths: the inputs ahead of a member that
\* lives fill consecutive ticks, never more than the window holds
\* (nextAvailableInputTick, cleanupSyncState, discardFutureSyncState).
THEOREM QueueAlwaysInOrder == Spec => []QueueInOrder
<1>1. ASSUME CombatInv
      PROVE  QueueInOrder
  <2> SUFFICES ASSUME NEW p \in members, alive[p]
               PROVE  /\ {t \in Ticks : t > tick /\ inputs[p][t] # None}
                           = (tick + 1)..lastQueued[p]
                      /\ lastQueued[p] - tick <= HoldTicks + 1
    BY DEF QueueInOrder
  <2>1. p \in Player /\ InOrder(p)
    BY <1>1 DEF CombatInv, Typed
  <2>2. /\ tick \in Nat /\ tick <= GameTicks /\ Window = HoldTicks + 1
        /\ HoldTicks \in Nat /\ GameTicks \in Nat /\ lastQueued[p] \in Nat
    BY <1>1, <2>1, Bounds, CombatAssumption DEF CombatInv, Typed, Window
  <2>3. lastQueued[p] <= tick + Window
    BY <2>1 DEF InOrder
  <2>4. \A t \in Ticks : t \in Nat /\ (t > tick /\ inputs[p][t] # None
                                        <=> t \in (tick + 1)..lastQueued[p])
    BY <2>1, <2>2 DEF InOrder, Ticks
  <2>5. (tick + 1)..lastQueued[p] \subseteq Ticks
    BY <2>2, <2>3 DEF Ticks
  <2> QED
    BY <2>2, <2>3, <2>4, <2>5
<1> QED
  BY <1>1, CombatAlwaysSound, PTL

\* Nothing that waits for a later tick is from before the death of its player, who has
\* respawned since (discardFutureSyncState).
THEOREM FutureAlwaysFresh == Spec => []FutureIsFresh
<1>1. CombatInv => FutureIsFresh
  BY DEF CombatInv, Typed, Fresh, FutureIsFresh
<1> QED
  BY <1>1, CombatAlwaysSound, PTL

\* For any damage and hit points: each step counts one death at most, of a member that
\* lived out of its invincibility, and one kill for it (applyFireDamage).
THEOREM FragsAlwaysSound == Spec => FragsSound
<1> DEFINE Counted == \/ kills' = kills /\ deaths' = deaths
                      \/ \E p \in members : \E t \in members \ {p} :
                           /\ kills' = [kills EXCEPT ![p] = @ + 1]
                           /\ deaths' = [deaths EXCEPT ![t] = @ + 1]
                           /\ alive[t] /\ safeUntil[t] <= tick
           TodoIn == todo \subseteq members
<1>1. Init => TodoIn
  BY DEF Init
<1>2. TodoIn /\ [Next]_vars => TodoIn'
  BY DEF Next, vars, Join, Leave, Between, PlayerInput, BeginTick, TurnOf, SkipDead,
     Miss, Wound, KillForGood, KillAndRespawn, Kills, Hits, Turn
<1>3. ASSUME TodoIn, [Next]_vars, members' = members
      PROVE  Counted
  <2>1. ASSUME NEW p \in Player, NEW t \in Player,
               KillForGood(p, t) \/ KillAndRespawn(p, t)
        PROVE  Counted
    <3>1. Kills(p, t)
      BY <2>1 DEF KillForGood, KillAndRespawn
    <3> QED
      BY <1>3, <3>1 DEF Kills, Hits, Turn, Vulnerable
  <2>2. ASSUME NEW p \in Player, Join(p)
        PROVE  FALSE
    BY <1>3, <2>2 DEF Join
  <2> QED
    BY <1>3, <2>1, <2>2 DEF Next, vars, scoreVars, Leave, PlayerInput, BeginTick,
       TurnOf, SkipDead, Miss, Wound
<1>4. TodoIn /\ [Next]_vars => [members' = members => Counted]_vars
  BY <1>3
<1> QED
  BY <1>1, <1>2, <1>4, PTL DEF Spec, FragsSound

-----------------------------------------------------------------------------
(* Shots.                                                                  *)

\* The fire inputs of a queue.
FireIn(queue) == {t \in Ticks : queue[t] # None /\ queue[t].fire}

\* Of every player, also of one that has left or is dead: no more fire inputs wait
\* than were accepted and not shot yet.  There is a turn only once a tick has begun.
ShotsInv ==
  /\ owed \in [Player -> Int]
  /\ \A p \in Player : Cardinality(FireIn(inputs[p])) <= owed[p]
  /\ todo # {} => tick > 0

LEMMA FireInFinite ==
  ASSUME CombatAssumption, NEW queue
  PROVE  IsFiniteSet(FireIn(queue)) /\ Cardinality(FireIn(queue)) \in Nat
<1>1. 1 \in Int /\ GameTicks + Window \in Int
  BY Bounds, CombatAssumption
<1>2. IsFiniteSet(Ticks)
  BY <1>1, FS_Interval DEF Ticks
<1>3. IsFiniteSet(FireIn(queue))
  BY <1>2, FS_Subset DEF FireIn
<1> QED
  BY <1>3, FS_CardinalityType

\* A queue with no new fire input counts no more.
LEMMA NoneAdded ==
  ASSUME CombatAssumption, NEW before, NEW after,
         FireIn(after) \subseteq FireIn(before)
  PROVE  Cardinality(FireIn(after)) <= Cardinality(FireIn(before))
BY FireInFinite, FS_Subset

\* One that has lost a fire input counts one less, or fewer.
LEMMA OneTaken ==
  ASSUME CombatAssumption, NEW before, NEW after, NEW t \in FireIn(before),
         FireIn(after) \subseteq FireIn(before) \ {t}
  PROVE  Cardinality(FireIn(after)) <= Cardinality(FireIn(before)) - 1
<1>1. IsFiniteSet(FireIn(before))
  BY FireInFinite
<1>2. IsFiniteSet(FireIn(before) \ {t})
        /\ Cardinality(FireIn(before) \ {t}) = Cardinality(FireIn(before)) - 1
  BY <1>1, FS_RemoveElement
<1>3. Cardinality(FireIn(after)) <= Cardinality(FireIn(before) \ {t})
  BY <1>2, FS_Subset
<1> QED
  BY <1>2, <1>3

\* One with an input more counts at most one more.
LEMMA OneAdded ==
  ASSUME CombatAssumption, NEW before, NEW after, NEW t,
         FireIn(after) \subseteq FireIn(before) \cup {t}
  PROVE  Cardinality(FireIn(after)) <= Cardinality(FireIn(before)) + 1
<1>1. IsFiniteSet(FireIn(before)) /\ Cardinality(FireIn(before)) \in Nat
  BY FireInFinite
<1>2. IsFiniteSet(FireIn(before) \cup {t})
        /\ Cardinality(FireIn(before) \cup {t})
             = IF t \in FireIn(before) THEN Cardinality(FireIn(before))
                                       ELSE Cardinality(FireIn(before)) + 1
  BY <1>1, FS_AddElement
<1>3. Cardinality(FireIn(after)) <= Cardinality(FireIn(before) \cup {t})
  BY <1>2, FS_Subset
<1>4. Cardinality(FireIn(after)) \in Nat /\ Cardinality(FireIn(before) \cup {t}) \in Nat
  BY <1>2, FireInFinite, FS_CardinalityType
<1> QED
  BY <1>1, <1>2, <1>3, <1>4

\* A step that adds no input and owes no less keeps the count.
LEMMA CountKept ==
  ASSUME CombatAssumption, ShotsInv, NEW q \in Player, owed'[q] = owed[q],
         FireIn(inputs'[q]) \subseteq FireIn(inputs[q])
  PROVE  Cardinality(FireIn(inputs'[q])) <= owed'[q]
<1>1. Cardinality(FireIn(inputs[q])) \in Nat /\ Cardinality(FireIn(inputs'[q])) \in Nat
  BY FireInFinite
<1>2. Cardinality(FireIn(inputs'[q])) <= Cardinality(FireIn(inputs[q]))
  BY NoneAdded
<1>3. Cardinality(FireIn(inputs[q])) <= owed[q] /\ owed[q] \in Int
  BY DEF ShotsInv
<1> QED
  BY <1>1, <1>2, <1>3

LEMMA ShotsInit == ASSUME CombatAssumption, Init PROVE ShotsInv
<1>1. ASSUME NEW p \in Player
      PROVE  Cardinality(FireIn(inputs[p])) <= owed[p]
  <2>1. FireIn(inputs[p]) = {}
    BY DEF Init, NoInputs, FireIn
  <2>2. owed[p] = 0
    BY DEF Init
  <2> QED
    BY <2>1, <2>2, FS_EmptySet
<1> QED
  BY <1>1 DEF Init, ShotsInv

LEMMA InputKeepsShots ==
  ASSUME CombatAssumption, CombatInv, ShotsInv, NEW p \in Player, NEW fire \in BOOLEAN,
         PlayerInput(p, fire)
  PROVE  ShotsInv'
<1> DEFINE t == CHOOSE f \in FreeTicks(p) : \A u \in FreeTicks(p) : f <= u
           i == [fire |-> fire, life |-> deaths[p]]
<1>1. /\ inputs' = [inputs EXCEPT ![p][t] = i]
      /\ owed' = [owed EXCEPT ![p] = @ + (IF fire THEN 1 ELSE 0)]
      /\ todo' = todo /\ tick' = tick
  BY DEF PlayerInput
<1>2. t \in Ticks
  BY NextFree, CombatAssumption DEF PlayerInput
<1> HIDE DEF t
<1>3. i.fire = fire
  OBVIOUS
<1> HIDE DEF i
<1>4. /\ \A u \in Ticks : inputs'[p][u] = IF u = t THEN i ELSE inputs[p][u]
      /\ \A q \in Player \ {p} : inputs'[q] = inputs[q]
  BY <1>1, <1>2 DEF CombatInv, Typed
<1>5. /\ owed' \in [Player -> Int]
      /\ owed'[p] = owed[p] + (IF fire THEN 1 ELSE 0)
      /\ \A q \in Player \ {p} : owed'[q] = owed[q]
  BY <1>1 DEF ShotsInv
<1>6. Cardinality(FireIn(inputs'[p])) <= owed'[p]
  <2>1. CASE fire
    <3>1. FireIn(inputs'[p]) \subseteq FireIn(inputs[p]) \cup {t}
      BY <1>4 DEF FireIn
    <3>2. Cardinality(FireIn(inputs'[p])) <= Cardinality(FireIn(inputs[p])) + 1
      BY <3>1, OneAdded, CombatAssumption
    <3>3. Cardinality(FireIn(inputs[p])) <= owed[p] /\ owed[p] \in Int
      BY DEF ShotsInv
    <3>4. Cardinality(FireIn(inputs[p])) \in Nat /\ Cardinality(FireIn(inputs'[p])) \in Nat
      BY FireInFinite, CombatAssumption
    <3> QED
      BY <1>5, <2>1, <3>2, <3>3, <3>4
  <2>2. CASE ~fire
    <3>1. FireIn(inputs'[p]) \subseteq FireIn(inputs[p])
      BY <1>3, <1>4, <2>2 DEF FireIn
    <3>2. owed'[p] = owed[p]
      BY <1>5, <2>2 DEF ShotsInv
    <3> QED
      BY <3>1, <3>2, CountKept, CombatAssumption
  <2> QED
    BY <2>1, <2>2
<1>7. ASSUME NEW q \in Player \ {p}
      PROVE  Cardinality(FireIn(inputs'[q])) <= owed'[q]
  BY <1>4, <1>5, CountKept, CombatAssumption
<1> QED
  BY <1>1, <1>5, <1>6, <1>7 DEF ShotsInv

\* A turn takes the input of its tick out of the queue, and adds none.
LEMMA TurnTakes ==
  ASSUME CombatAssumption, CombatInv, NEW p \in Player
  PROVE  /\ FireIn(TurnInputs(p)[p]) \subseteq FireIn(inputs[p]) \ {tick}
         /\ \A q \in Player \ {p} : TurnInputs(p)[q] = inputs[q]
<1>1. Ticks \subseteq Nat /\ tick \in Nat
  BY DEF CombatInv, Typed, Ticks
<1>2. /\ TurnInputs(p)[p] = [t \in Ticks |-> IF t <= tick THEN None ELSE inputs[p][t]]
      /\ \A q \in Player \ {p} : TurnInputs(p)[q] = inputs[q]
  BY DEF CombatInv, Typed, TurnInputs
<1> QED
  BY <1>1, <1>2 DEF FireIn

\* What a turn does to what is owed and to the queues, whoever is hit and dies.
LEMMA TurnKeepsShots ==
  ASSUME CombatAssumption, CombatInv, ShotsInv, NEW p \in Player, Turn(p),
         owed' = [owed EXCEPT ![p] = @ - (IF Shoots(p) THEN 1 ELSE 0)],
         \A q \in Player : FireIn(inputs'[q]) \subseteq FireIn(TurnInputs(p)[q])
  PROVE  ShotsInv'
<1>1. /\ FireIn(TurnInputs(p)[p]) \subseteq FireIn(inputs[p]) \ {tick}
      /\ \A q \in Player \ {p} : TurnInputs(p)[q] = inputs[q]
  BY TurnTakes, CombatAssumption
<1>2. /\ owed' \in [Player -> Int]
      /\ owed'[p] = owed[p] - (IF Shoots(p) THEN 1 ELSE 0)
      /\ \A q \in Player \ {p} : owed'[q] = owed[q]
  BY DEF ShotsInv
<1>3. tick \in Ticks
  BY Bounds, CombatAssumption DEF Turn, ShotsInv, CombatInv, Typed, Ticks
<1>4. Cardinality(FireIn(inputs'[p])) <= owed'[p]
  <2>1. CASE Shoots(p)
    <3>1. tick \in FireIn(inputs[p])
      BY <1>3, <2>1 DEF Shoots, Exact, InputForTick, FireIn
    <3>2. Cardinality(FireIn(inputs'[p])) <= Cardinality(FireIn(inputs[p])) - 1
      BY <1>1, <3>1, OneTaken, CombatAssumption
    <3>3. Cardinality(FireIn(inputs[p])) <= owed[p] /\ owed[p] \in Int
      BY DEF ShotsInv
    <3>4. Cardinality(FireIn(inputs[p])) \in Nat /\ Cardinality(FireIn(inputs'[p])) \in Nat
      BY FireInFinite, CombatAssumption
    <3> QED
      BY <1>2, <2>1, <3>2, <3>3, <3>4
  <2>2. CASE ~Shoots(p)
    <3>1. owed'[p] = owed[p]
      BY <1>2, <2>2 DEF ShotsInv
    <3>2. FireIn(inputs'[p]) \subseteq FireIn(inputs[p])
      BY <1>1
    <3> QED
      BY <3>1, <3>2, CountKept, CombatAssumption
  <2> QED
    BY <2>1, <2>2
<1>5. ASSUME NEW q \in Player \ {p}
      PROVE  Cardinality(FireIn(inputs'[q])) <= owed'[q]
  BY <1>1, <1>2, CountKept, CombatAssumption
<1>6. todo' # {} => tick' > 0
  BY DEF Turn, ShotsInv
<1> QED
  BY <1>2, <1>4, <1>5, <1>6 DEF ShotsInv

LEMMA TurnOfKeepsShots ==
  ASSUME CombatAssumption, CombatInv, ShotsInv, NEW p \in Player, TurnOf(p)
  PROVE  ShotsInv'
<1>1. CASE SkipDead(p)
  BY <1>1 DEF SkipDead, syncVars, ShotsInv
<1>2. CASE Miss(p)
  BY <1>2, TurnKeepsShots, CombatAssumption DEF Miss, OwnState, TurnSync
<1>3. ASSUME NEW t \in Player, Hits(p, t)
      PROVE  Turn(p) /\ owed' = [owed EXCEPT ![p] = @ - (IF Shoots(p) THEN 1 ELSE 0)]
  BY <1>3 DEF Hits
<1>4. ASSUME NEW t \in Player, Wound(p, t) \/ KillForGood(p, t)
      PROVE  ShotsInv'
  <2>1. Hits(p, t) /\ inputs' = TurnInputs(p)
    BY <1>4 DEF Wound, KillForGood, Kills, OwnState, TurnSync
  <2> QED
    BY <1>3, <2>1, TurnKeepsShots, CombatAssumption
<1>5. ASSUME NEW t \in Player, KillAndRespawn(p, t)
      PROVE  ShotsInv'
  <2>1. Hits(p, t)
    BY <1>5 DEF KillAndRespawn, Kills
  <2>2. inputs' = [TurnInputs(p) EXCEPT
                     ![t] = [u \in Ticks |-> IF u > tick THEN None ELSE @[u]]]
    BY <1>5 DEF KillAndRespawn, DiscardFuture
  <2>3. TurnInputs(p) \in [Player -> [Ticks -> Input \cup {None}]]
    BY TurnKeepsAhead
  <2>4. ASSUME NEW q \in Player
        PROVE  FireIn(inputs'[q]) \subseteq FireIn(TurnInputs(p)[q])
    BY <2>2, <2>3 DEF FireIn
  <2> QED
    BY <1>3, <2>1, <2>4, TurnKeepsShots, CombatAssumption
<1> QED
  BY <1>1, <1>2, <1>4, <1>5 DEF TurnOf

LEMMA ShotsStep ==
  ASSUME CombatAssumption, CombatInv, ShotsInv, [Next]_vars
  PROVE  ShotsInv'
<1>1. CASE UNCHANGED vars
  BY <1>1 DEF vars, syncVars, ShotsInv
<1>2. ASSUME NEW p \in Player, Join(p)
      PROVE  ShotsInv'
  <2>1. /\ inputs' = [inputs EXCEPT ![p] = NoInputs] /\ owed' = [owed EXCEPT ![p] = 0]
        /\ todo' = {}
    BY <1>2 DEF Join, Between
  <2>2. /\ inputs'[p] = NoInputs /\ owed' \in [Player -> Int] /\ owed'[p] = 0
        /\ \A q \in Player \ {p} : inputs'[q] = inputs[q] /\ owed'[q] = owed[q]
    BY <2>1 DEF CombatInv, Typed, ShotsInv
  <2>3. FireIn(inputs'[p]) = {}
    BY <2>2 DEF NoInputs, FireIn
  <2>4. Cardinality(FireIn(inputs'[p])) <= owed'[p]
    BY <2>2, <2>3, FS_EmptySet
  <2> QED
    BY <2>1, <2>2, <2>4 DEF ShotsInv
<1>3. ASSUME NEW p \in Player, Leave(p)
      PROVE  ShotsInv'
  BY <1>3 DEF Leave, syncVars, ShotsInv
<1>4. CASE BeginTick
  <2>1. tick' > 0
    BY <1>4 DEF BeginTick, CombatInv, Typed
  <2> QED
    BY <1>4, <2>1 DEF BeginTick, syncVars, ShotsInv
<1> QED
  BY <1>1, <1>2, <1>3, <1>4, InputKeepsShots, TurnOfKeepsShots, CombatAssumption
     DEF Next

\* For any number of players, hold window, damage and length of a game: a member has
\* never shot more often than it had fire inputs accepted, less those that still
\* wait, whoever dies and respawns in between (inputForTick,
\* handlePlayerFire, cleanupSyncState, discardFutureSyncState).
THEOREM FiresOnce == Spec => []FireOnce
<1>1. Init => ShotsInv
  BY ShotsInit, CombatAssumption
<1>2. CombatInv /\ ShotsInv /\ [Next]_vars => ShotsInv'
  BY ShotsStep, CombatAssumption
<1>3. ASSUME CombatInv, ShotsInv
      PROVE  FireOnce
  <2> SUFFICES ASSUME NEW p \in members
               PROVE  owed[p] >= Cardinality(FireIn(inputs[p]))
    BY DEF FireOnce, FireIn
  <2>1. Cardinality(FireIn(inputs[p])) \in Nat
    BY FireInFinite, CombatAssumption
  <2> QED
    BY <1>3, <2>1 DEF CombatInv, Typed, ShotsInv
<1> QED
  BY <1>1, <1>2, <1>3, CombatAlwaysSound, PTL DEF Spec

-----------------------------------------------------------------------------
(* Types.                                                                  *)

\* What TypeOK says beyond the invariants above.
Scores ==
  /\ todo \subseteq members
  /\ hp \in [Player -> 0..HP]
  /\ kills \in [Player -> Nat]
  /\ safeUntil \in [Player -> 0..(GameTicks + SafeTicks)]
  /\ last \in [Player -> Input \cup {None}]
  /\ lastTick \in [Player -> 0..GameTicks]

\* What a turn of p writes of its own state is typed.
LEMMA TurnTyped ==
  ASSUME CombatAssumption, CombatInv, ShotsInv, Scores, NEW p \in Player, Turn(p)
  PROVE  /\ TurnSafe(p) \in [Player -> 0..(GameTicks + SafeTicks)]
         /\ TurnLast(p) \in [Player -> Input \cup {None}]
         /\ TurnLastTick(p) \in [Player -> 0..GameTicks]
<1>1. tick \in Ticks /\ tick \in 0..GameTicks
  BY Bounds, CombatAssumption DEF Turn, ShotsInv, CombatInv, Typed, Ticks
<1>2. GameTicks \in Nat /\ SafeTicks \in Nat
  BY DEF CombatAssumption
<1>3. inputs[p][tick] \in Input \cup {None}
  BY <1>1 DEF CombatInv, Typed
<1> QED
  BY <1>1, <1>2, <1>3 DEF TurnSafe, TurnLast, TurnLastTick, Scores

\* What a hit leaves is neither negative nor more than there was.
LEMMA DamageTyped ==
  ASSUME CombatAssumption, Scores, NEW v \in Player
  PROVE  DamagedHP(v) \in 0..HP
<1>1. hp[v] \in 0..HP /\ HP \in Nat /\ Damage \in Nat \ {0}
  BY DEF CombatAssumption, Scores
<1> QED
  BY <1>1 DEF DamagedHP

\* A turn ends with a miss or a hit, and a hit wounds, kills, or kills and brings back.
LEMMA TurnOfKeepsScores ==
  ASSUME CombatAssumption, CombatInv, ShotsInv, Scores, NEW p \in Player, TurnOf(p)
  PROVE  Scores'
<1>1. HP \in Nat /\ GameTicks \in Nat /\ SafeTicks \in Nat /\ tick \in 0..GameTicks
  BY DEF CombatAssumption, CombatInv, Typed
<1>2. CASE SkipDead(p)
  BY <1>2 DEF SkipDead, scoreVars, syncVars, Scores
<1>3. CASE Miss(p)
  BY <1>3, TurnTyped, CombatAssumption DEF Miss, Turn, OwnState, TurnSync, Scores
<1>4. ASSUME NEW v \in Player, Hits(p, v)
      PROVE  /\ Turn(p) /\ todo' \subseteq members'
             /\ TurnSafe(p) \in [Player -> 0..(GameTicks + SafeTicks)]
             /\ TurnLast(p) \in [Player -> Input \cup {None}]
             /\ TurnLastTick(p) \in [Player -> 0..GameTicks]
             /\ DamagedHP(v) \in 0..HP
  BY <1>4, TurnTyped, DamageTyped, CombatAssumption DEF Hits, Turn, Scores
<1>5. ASSUME NEW v \in Player, Wound(p, v)
      PROVE  Scores'
  <2>1. Hits(p, v) /\ hp' = [hp EXCEPT ![v] = DamagedHP(v)] /\ UNCHANGED kills
        /\ safeUntil' = TurnSafe(p) /\ last' = TurnLast(p) /\ lastTick' = TurnLastTick(p)
    BY <1>5 DEF Wound, OwnState, TurnSync
  <2> QED
    BY <1>4, <2>1 DEF Scores
<1>6. ASSUME NEW v \in Player, KillForGood(p, v)
      PROVE  Scores'
  <2>1. Hits(p, v) /\ hp' = [hp EXCEPT ![v] = DamagedHP(v)]
        /\ kills' = [kills EXCEPT ![p] = kills[p] + 1]
        /\ safeUntil' = TurnSafe(p) /\ last' = TurnLast(p) /\ lastTick' = TurnLastTick(p)
    BY <1>6 DEF KillForGood, Kills, OwnState, TurnSync
  <2> QED
    BY <1>4, <2>1 DEF Scores
<1>7. ASSUME NEW v \in Player, KillAndRespawn(p, v)
      PROVE  Scores'
  <2>1. Hits(p, v) /\ hp' = [hp EXCEPT ![v] = HP]
        /\ kills' = [kills EXCEPT ![p] = kills[p] + 1]
        /\ safeUntil' = [TurnSafe(p) EXCEPT ![v] = tick + SafeTicks]
        /\ last' = [TurnLast(p) EXCEPT ![v] = None]
        /\ lastTick' = [TurnLastTick(p) EXCEPT ![v] = 0]
    BY <1>7 DEF KillAndRespawn, Kills, DiscardFuture
  <2>2. tick + SafeTicks \in 0..(GameTicks + SafeTicks) /\ HP \in 0..HP /\ 0 \in 0..GameTicks
    BY <1>1
  <2> QED
    BY <1>4, <2>1, <2>2 DEF Scores
<1> QED
  BY <1>2, <1>3, <1>5, <1>6, <1>7 DEF TurnOf

\* Every step keeps what players have within its bounds.
LEMMA ScoresStep ==
  ASSUME CombatAssumption, CombatInv, ShotsInv, Scores, [Next]_vars
  PROVE  Scores'
<1>1. HP \in Nat \ {0} /\ GameTicks \in Nat /\ SafeTicks \in Nat
  BY DEF CombatAssumption
<1>2. CASE UNCHANGED vars
  BY <1>2 DEF vars, scoreVars, syncVars, Scores
<1>3. ASSUME NEW p \in Player, Join(p)
      PROVE  Scores'
  BY <1>1, <1>3 DEF Join, Between, Scores
<1>4. ASSUME NEW p \in Player, Leave(p)
      PROVE  Scores'
  BY <1>4 DEF Leave, Between, scoreVars, syncVars, Scores
<1>5. ASSUME NEW p \in Player, NEW fire \in BOOLEAN, PlayerInput(p, fire)
      PROVE  Scores'
  BY <1>5 DEF PlayerInput, scoreVars, Scores
<1>6. CASE BeginTick
  BY <1>6 DEF BeginTick, scoreVars, syncVars, Scores
<1> QED
  BY <1>2, <1>3, <1>4, <1>5, <1>6, TurnOfKeepsScores, CombatAssumption DEF Next

\* Hit points never fall below zero or rise above those of a new player, nobody has a
\* turn who is no member, and ticks, ends of invincibility and queued inputs stay
\* within the game and the hold window, for any damage, window and length of a
\* game (applyFireDamage, updatePlayers, nextAvailableInputTick).
THEOREM CombatTyped == Spec => []TypeOK
<1>1. Init => ShotsInv /\ Scores
  <2>1. Init => ShotsInv
    BY ShotsInit, CombatAssumption
  <2>2. HP \in Nat /\ GameTicks \in Nat /\ SafeTicks \in Nat
    BY CombatAssumption DEF CombatAssumption
  <2> QED
    BY <2>1, <2>2 DEF Init, Scores
<1>2. CombatInv /\ ShotsInv /\ [Next]_vars => ShotsInv'
  BY ShotsStep, CombatAssumption
<1>3. CombatInv /\ ShotsInv /\ Scores /\ [Next]_vars => Scores'
  BY ScoresStep, CombatAssumption
<1>4. ASSUME CombatInv, ShotsInv, Scores
      PROVE  TypeOK
  <2>1. lastQueued \in [Player -> 0..(GameTicks + Window)]
    <3>1. tick \in 0..GameTicks /\ GameTicks \in Nat /\ Window \in Nat
          /\ lastQueued \in [Player -> Nat]
      BY <1>4, Bounds, CombatAssumption DEF CombatInv, Typed
    <3>2. \A p \in Player : lastQueued[p] \in Nat /\ lastQueued[p] <= tick + Window
      BY <1>4, <3>1 DEF CombatInv, InOrder
    <3>3. \A p \in Player : lastQueued[p] \in 0..(GameTicks + Window)
      BY <3>1, <3>2
    <3> QED
      BY <3>1, <3>3
  <2> QED
    BY <1>4, <2>1 DEF CombatInv, Typed, ShotsInv, Scores, TypeOK
<1>5. CombatInv /\ ShotsInv /\ Scores => TypeOK
  BY <1>4
<1> QED
  BY <1>1, <1>2, <1>3, <1>5, CombatAlwaysSound, PTL DEF Spec
=============================================================================
