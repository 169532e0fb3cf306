----------------------------- MODULE RoomProofs -----------------------------
(***************************************************************************)
(* Theorems about a room, for any number of players, callers, seats, spawn  *)
(* points and ticks, and that it implements its Game.                      *)
(***************************************************************************)
EXTENDS RoomGame, FiniteSetTheorems, SequenceTheorems, TLAPS

-----------------------------------------------------------------------------
(* Lemmas about the operators of Room.                                     *)

\* nextSpawnPoint returns a free spawn point whenever one is left.
LEMMA NextSpawnFree ==
  ASSUME RoomAssumption, NEW r \in Room, FreeSpawns(r) # {}
  PROVE  NextSpawn(r) \in FreeSpawns(r)
<1>1. FreeSpawns(r) \in SUBSET Nat
  BY DEF FreeSpawns, RoomAssumption
<1>2. IsWellFoundedOn(OpToRel(<, Nat), Nat)
  BY NatLessThanWellFounded
<1>3. PICK s \in FreeSpawns(r) :
        \A t \in FreeSpawns(r) : ~(<<t, s>> \in OpToRel(<, Nat))
  BY <1>1, <1>2, WFMin
<1>4. \A m, n \in Nat : m < n => <<m, n>> \in OpToRel(<, Nat)
  BY DEF OpToRel
<1>5. \A t \in FreeSpawns(r) : ~(t < s)
  BY <1>1, <1>3, <1>4
<1>6. \A t \in FreeSpawns(r) : s <= t
  BY <1>1, <1>5
<1> QED
  BY <1>6 DEF NextSpawn

\* What the loop gets when it takes an event, and what stays in the channel.
LEMMA TakesType ==
  ASSUME TypeOK, NEW r \in Room, NEW t, Takes(r, t)
  PROVE  /\ Head(events[r]) \in Event
         /\ Head(events[r]).type = t
         /\ events' \in [Room -> Seq(Event)]
<1>1. events[r] \in Seq(Event) /\ events[r] # <<>>
  BY DEF TypeOK, Takes
<1>2. Head(events[r]) \in Event /\ Tail(events[r]) \in Seq(Event)
  BY <1>1, HeadTailProperties
<1> QED
  BY <1>1, <1>2 DEF Takes, TypeOK

\* A join event names a player and the caller to answer.
LEMMA JoinEventType ==
  ASSUME NEW e \in Event, e.type = "join"
  PROVE  e.player \in Player /\ e.from \in Caller
BY DEF Event, JoinEvent, LeaveEvent, InputEvent

\* A leave event names a player.
LEMMA LeaveEventType ==
  ASSUME NEW e \in Event, e.type = "leave"
  PROVE  e.player \in Player
BY DEF Event, JoinEvent, LeaveEvent, InputEvent

\* Appending an event of any type keeps the channel well typed.
LEMMA PushType ==
  ASSUME TypeOK, NEW r \in Room, NEW e \in Event,
         events' = [events EXCEPT ![r] = Append(@, e)]
  PROVE  events' \in [Room -> Seq(Event)]
<1>1. events[r] \in Seq(Event)
  BY DEF TypeOK
<1>2. Append(events[r], e) \in Seq(Event)
  BY <1>1, AppendProperties
<1> QED
  BY <1>2 DEF TypeOK

\* Moving a call on to its next step keeps the set of calls well typed.
LEMMA AdvanceType ==
  ASSUME TypeOK, NEW k \in calls, NEW step \in {"checked", "reserved", "undo"},
         Advance(k, step)
  PROVE  calls' \in SUBSET Call
<1>1. k \in Call /\ calls \subseteq Call
  BY DEF TypeOK
<1>2. [k EXCEPT !.at = step] \in Call
  BY <1>1 DEF Call
<1> QED
  BY <1>1, <1>2 DEF Advance

-----------------------------------------------------------------------------
(* Type correctness.                                                       *)

LEMMA InitType == ASSUME RoomAssumption, Init PROVE TypeOK
<1>1. \A S : <<>> \in Seq(S)
  BY EmptySeq
<1> QED
  BY <1>1 DEF RoomAssumption, Init, TypeOK

\* The steps of a caller that depend on a player.
LEMMA CallerType ==
  ASSUME RoomAssumption, TypeOK,
         NEW c \in Caller, NEW r \in Room, NEW p \in Player,
         JoinCheck(c, r, p) \/ Leave(c, r, p)
  PROVE  TypeOK'
<1>1. CASE JoinCheck(c, r, p)
  <2>1. [caller |-> c, room |-> r, player |-> p, at |-> "checked"] \in Call
    BY DEF Call
  <2>2. calls' \in SUBSET Call
    BY <1>1, <2>1 DEF JoinCheck, TypeOK
  <2> QED
    BY <1>1, <2>2 DEF JoinCheck, loopVars, TypeOK
<1>2. CASE Leave(c, r, p)
  <2>1. [type |-> "leave", player |-> p] \in Event
    BY DEF Event, LeaveEvent
  <2>2. events' \in [Room -> Seq(Event)]
    BY <1>2, <2>1, PushType DEF Leave
  <2> QED
    BY <1>2, <2>2 DEF Leave, loopVars, TypeOK
<1> QED
  BY <1>1, <1>2

\* The steps of a call of Join.
LEMMA CallType ==
  ASSUME RoomAssumption, TypeOK, NEW k \in calls, CallStep(k)
  PROVE  TypeOK'
<1>0. k \in Call /\ k.room \in Room /\ k.player \in Player /\ k.caller \in Caller
  BY DEF TypeOK, Call
<1>1. CASE JoinReserve(k)
  <2>1. calls' \in SUBSET Call
    BY <1>1, AdvanceType DEF JoinReserve
  <2>2. joinSlots' \in [Room -> Int]
    BY <1>0, <1>1 DEF JoinReserve, TypeOK
  <2> QED
    BY <1>1, <2>1, <2>2 DEF JoinReserve, loopVars, TypeOK
<1>2. CASE JoinPush(k)
  <2>1. [type |-> "join", player |-> k.player, from |-> k.caller] \in Event
    BY <1>0 DEF Event, JoinEvent
  <2>2. events' \in [Room -> Seq(Event)]
    BY <1>0, <1>2, <2>1, PushType DEF JoinPush
  <2>3. calls' \in SUBSET Call
    BY <1>2 DEF JoinPush, TypeOK
  <2> QED
    BY <1>0, <1>2, <2>2, <2>3 DEF JoinPush, loopVars, TypeOK
<1>3. CASE JoinPushFails(k)
  <2>1. calls' \in SUBSET Call
    BY <1>3, AdvanceType DEF JoinPushFails
  <2> QED
    BY <1>3, <2>1 DEF JoinPushFails, loopVars, TypeOK
<1>4. CASE JoinUndo(k)
  <2>1. joinSlots' \in [Room -> Int] /\ calls' \in SUBSET Call
    BY <1>0, <1>4 DEF JoinUndo, TypeOK
  <2> QED
    BY <1>4, <2>1 DEF JoinUndo, loopVars, TypeOK
<1> QED
  BY <1>1, <1>2, <1>3, <1>4 DEF CallStep

\* handleJoinEvent.
LEMMA HandleJoinType ==
  ASSUME RoomAssumption, TypeOK, NEW r \in Room, HandleJoin(r)
  PROVE  TypeOK'
<1> DEFINE e == Head(events[r])
<1>1. Takes(r, "join") /\ UNCHANGED <<loop, stopped, gameEnded, calls>>
  BY DEF HandleJoin
<1>2. e.player \in Player /\ e.from \in Caller
  BY <1>1, TakesType, JoinEventType
<1>3. events' \in [Room -> Seq(Event)]
  BY <1>1, TakesType
<1>4. CASE RefuseJoin(r, e)
  <2>1. ack' \in [Caller -> {"none", "ok", "no"}]
    BY <1>2, <1>4 DEF RefuseJoin, TypeOK
  <2>2. releasing' \in [Room -> BOOLEAN]
    BY <1>4 DEF RefuseJoin, TypeOK
  <2> QED
    BY <1>1, <1>3, <1>4, <2>1, <2>2 DEF RefuseJoin, TypeOK
<1>5. CASE ~JoinRefused(r, e.player) /\ AcceptJoin(r, e)
  <2> DEFINE roster == players[r] \cup {e.player}
  <2>1. NextSpawn(r) \in 0..NumSpawns
    BY <1>5, NextSpawnFree DEF JoinRefused, FreeSpawns, RoomAssumption
  <2>2. players' \in [Room -> SUBSET Player] /\ bodies' \in [Room -> SUBSET Player]
    BY <1>2, <1>5 DEF AcceptJoin, TypeOK
  <2>3. spawnID' \in [Room -> [Player -> 0..NumSpawns]]
    <3>1. spawnID' = [spawnID EXCEPT ![r][e.player] = NextSpawn(r)]
      BY <1>5 DEF AcceptJoin
    <3> QED
      BY <1>2, <2>1, <3>1 DEF TypeOK
  <2>4. ack' \in [Caller -> {"none", "ok", "no"}]
    BY <1>2, <1>5 DEF AcceptJoin, TypeOK
  <2>5. gameStarted' \in [Room -> BOOLEAN] /\ joinClosed' \in [Room -> BOOLEAN]
    BY <1>5 DEF AcceptJoin, TypeOK, StartsGame
  <2>6. joinSlots' \in [Room -> Int]
    BY <1>5 DEF AcceptJoin, TypeOK, RoomAssumption
  <2>7. remaining' \in [Room -> 0..GameTicks]
    BY <1>5 DEF AcceptJoin, GameLength, TypeOK, RoomAssumption
  <2> QED
    BY <1>1, <1>3, <1>5, <2>2, <2>3, <2>4, <2>5, <2>6, <2>7
    DEF AcceptJoin, TypeOK
<1> QED
  BY <1>4, <1>5 DEF HandleJoin

\* handleLeave.
LEMMA HandleLeaveType ==
  ASSUME RoomAssumption, TypeOK, NEW r \in Room, HandleLeave(r)
  PROVE  TypeOK'
<1> DEFINE p == Head(events[r]).player
<1>1. Takes(r, "leave")
  BY DEF HandleLeave
<1>2. p \in Player /\ events' \in [Room -> Seq(Event)]
  BY <1>1, TakesType, LeaveEventType
<1>3. CASE p \in players[r]
  <2>0. /\ players' = [players EXCEPT ![r] = players[r] \ {p}]
        /\ bodies' \in {bodies, [bodies EXCEPT ![r] = bodies[r] \ {p}]}
    BY <1>3 DEF HandleLeave
  <2>1. players' \in [Room -> SUBSET Player]
    BY <2>0 DEF TypeOK
  <2>2. spawnID' \in [Room -> [Player -> 0..NumSpawns]]
    <3>1. spawnID' = [spawnID EXCEPT ![r][p] = 0] /\ 0 \in 0..NumSpawns
      BY <1>3 DEF HandleLeave, RoomAssumption
    <3> QED
      BY <1>2, <3>1 DEF TypeOK
  <2>3. bodies' \in [Room -> SUBSET Player]
    <3>1. bodies \in [Room -> SUBSET Player]
      BY DEF TypeOK
    <3>2. [bodies EXCEPT ![r] = bodies[r] \ {p}] \in [Room -> SUBSET Player]
      BY <3>1
    <3> QED
      BY <2>0, <3>1, <3>2
  <2>4. joinSlots' \in [Room -> Int]
    <3>1. IsFiniteSet(players[r] \ {p})
      BY FS_Subset DEF TypeOK, RoomAssumption
    <3>2. Cardinality(players[r] \ {p}) \in Int
      BY <3>1, FS_CardinalityType
    <3> QED
      BY <1>3, <3>2 DEF HandleLeave, TypeOK
  <2> QED
    BY <1>2, <2>1, <2>2, <2>3, <2>4 DEF HandleLeave, TypeOK
<1>4. CASE p \notin players[r]
  BY <1>2, <1>4 DEF HandleLeave, TypeOK
<1> QED
  BY <1>3, <1>4

\* The other steps of the room's goroutine.
LEMMA LoopType ==
  ASSUME RoomAssumption, TypeOK, NEW r \in Room, LoopStep(r)
  PROVE  TypeOK'
<1>1. CASE HandleJoin(r)
  BY <1>1, HandleJoinType
<1>2. CASE HandleLeave(r)
  BY <1>2, HandleLeaveType
<1>3. CASE HandleInput(r)
  BY <1>3, TakesType DEF HandleInput, loopVars, TypeOK
<1>4. CASE ReleaseJoinSlot(r)
  BY <1>4 DEF ReleaseJoinSlot, TypeOK
<1>5. CASE Tick(r)
  <2> DEFINE left == IF remaining[r] > 0 THEN remaining[r] - 1 ELSE 0
  <2>1. remaining' \in [Room -> 0..GameTicks]
    BY <1>5 DEF Tick, TypeOK, RoomAssumption
  <2>2. gameEnded' \in [Room -> BOOLEAN] /\ joinClosed' \in [Room -> BOOLEAN]
    BY <1>5 DEF Tick, TypeOK, ShouldFinish
  <2>3. loop' \in [Room -> {"none", "running", "finishing", "exited"}]
    BY <1>5 DEF Tick, TypeOK
  <2> QED
    BY <1>5, <2>1, <2>2, <2>3 DEF Tick, TypeOK
<1>6. CASE FinishExit(r)
  BY <1>6 DEF FinishExit, TypeOK
<1>7. CASE StopExit(r)
  BY <1>7 DEF StopExit, TypeOK
<1> QED
  BY <1>1, <1>2, <1>3, <1>4, <1>5, <1>6, <1>7 DEF LoopStep, HandleEvent

\* No step of a caller or of a room leaves the state space that TypeOK states:
\* in particular the game clock never runs past its length, and a spawn point
\* is handed out only when one is free.
THEOREM TypeCorrect == Spec => []TypeOK
<1>1. Init => TypeOK
  BY RoomAssumption, InitType
<1>2. TypeOK /\ [Next]_vars => TypeOK'
  <2> SUFFICES ASSUME TypeOK, [Next]_vars PROVE TypeOK'
    OBVIOUS
  <2>1. ASSUME NEW r \in Room, Start(r) \/ Stop(r) PROVE TypeOK'
    BY <2>1 DEF Start, Stop, TypeOK
  <2>2. ASSUME NEW r \in Room, LoopStep(r) PROVE TypeOK'
    BY <2>2, RoomAssumption, LoopType
  <2>3. ASSUME NEW c \in Caller, NEW r \in Room, NEW p \in Player,
               JoinCheck(c, r, p) \/ Leave(c, r, p)
        PROVE  TypeOK'
    BY <2>3, RoomAssumption, CallerType
  <2>4. ASSUME NEW c \in Caller, NEW r \in Room, PushInput(c, r) PROVE TypeOK'
    <3>1. [type |-> "input"] \in Event
      BY DEF Event, InputEvent
    <3>2. events' \in [Room -> Seq(Event)]
      BY <2>4, <3>1, PushType DEF PushInput
    <3> QED
      BY <2>4, <3>2 DEF PushInput, loopVars, TypeOK
  <2>5. ASSUME NEW k \in calls, CallStep(k) PROVE TypeOK'
    BY <2>5, RoomAssumption, CallType
  <2>6. CASE UNCHANGED vars
    BY <2>6 DEF vars, TypeOK
  <2> QED
    BY <2>1, <2>2, <2>3, <2>4, <2>5, <2>6 DEF Next
<1> QED
  BY <1>1, <1>2, PTL DEF Spec
-----------------------------------------------------------------------------
(* The roster.                                                             *)

\* Only handleJoinEvent and handleLeave touch the roster.
LEMMA RosterWriters ==
  ASSUME [Next]_vars
  PROVE  \/ UNCHANGED <<players, spawnID, bodies>>
         \/ \E r \in Room : /\ HandleJoin(r)
                            /\ AcceptJoin(r, Head(events[r]))
                            /\ ~JoinRefused(r, Head(events[r]).player)
         \/ \E r \in Room : HandleLeave(r)
<1>1. CASE UNCHANGED vars
  BY <1>1 DEF vars
<1>2. ASSUME NEW r \in Room, HandleJoin(r), RefuseJoin(r, Head(events[r]))
      PROVE  UNCHANGED <<players, spawnID, bodies>>
  BY <1>2 DEF RefuseJoin
<1>3. ASSUME NEW r \in Room, LoopStep(r), ~HandleJoin(r), ~HandleLeave(r)
      PROVE  UNCHANGED <<players, spawnID, bodies>>
  BY <1>3 DEF LoopStep, HandleEvent, HandleInput, ReleaseJoinSlot, Tick,
              FinishExit, StopExit, loopVars
<1>4. ASSUME NEW r \in Room, Start(r) \/ Stop(r)
      PROVE  UNCHANGED <<players, spawnID, bodies>>
  BY <1>4 DEF Start, Stop
<1>5. ASSUME NEW c \in Caller, NEW r \in Room, NEW p \in Player,
             JoinCheck(c, r, p) \/ Leave(c, r, p)
      PROVE  UNCHANGED <<players, spawnID, bodies>>
  BY <1>5 DEF JoinCheck, Leave, loopVars
<1>6. ASSUME NEW c \in Caller, NEW r \in Room, PushInput(c, r)
      PROVE  UNCHANGED <<players, spawnID, bodies>>
  BY <1>6 DEF PushInput, loopVars
<1>7. ASSUME NEW k \in calls, CallStep(k)
      PROVE  UNCHANGED <<players, spawnID, bodies>>
  BY <1>7 DEF CallStep, JoinReserve, JoinPush, JoinPushFails, JoinUndo, loopVars
<1> QED
  BY <1>1, <1>2, <1>3, <1>4, <1>5, <1>6, <1>7 DEF Next, HandleJoin

\* An accepted join adds one member to the roster, with a free spawn point.
LEMMA AcceptAdds ==
  ASSUME RoomAssumption, TypeOK, NEW r \in Room, HandleJoin(r),
         AcceptJoin(r, Head(events[r])),
         ~JoinRefused(r, Head(events[r]).player)
  PROVE  \E p \in Player, s \in FreeSpawns(r) :
           /\ p \notin players[r]
           /\ ~gameStarted[r]
           /\ Cardinality(players[r] \cup {p}) = Cardinality(players[r]) + 1
           /\ Cardinality(players[r] \cup {p}) \in 0..MaxPlayers
           /\ players' = [players EXCEPT ![r] = players[r] \cup {p}]
           /\ spawnID' = [spawnID EXCEPT ![r][p] = s]
           /\ bodies' = [bodies EXCEPT ![r] = bodies[r] \cup {p}]
<1> DEFINE p == Head(events[r]).player
<1>1. p \in Player
  <2>1. Takes(r, "join")
    BY DEF HandleJoin
  <2> QED
    BY <2>1, TakesType, JoinEventType
<1>2. /\ ~gameStarted[r] /\ p \notin players[r]
      /\ ~(Cardinality(players[r]) >= MaxPlayers) /\ FreeSpawns(r) # {}
  BY DEF JoinRefused
<1>3. NextSpawn(r) \in FreeSpawns(r)
  BY <1>2, NextSpawnFree
<1>4. IsFiniteSet(players[r])
  BY FS_Subset DEF TypeOK, RoomAssumption
<1>5. /\ Cardinality(players[r]) \in Nat
      /\ Cardinality(players[r] \cup {p}) = Cardinality(players[r]) + 1
  BY <1>2, <1>4, FS_CardinalityType, FS_AddElement
<1>6. Cardinality(players[r] \cup {p}) \in 0..MaxPlayers
  BY <1>2, <1>5 DEF RoomAssumption
<1>7. /\ players' = [players EXCEPT ![r] = players[r] \cup {p}]
      /\ spawnID' = [spawnID EXCEPT ![r][p] = NextSpawn(r)]
      /\ bodies' = [bodies EXCEPT ![r] = bodies[r] \cup {p}]
  BY DEF AcceptJoin
<1> HIDE DEF p
<1> QED
  BY <1>1, <1>2, <1>3, <1>5, <1>6, <1>7

\* A leave takes at most one member out of the roster, and no other's body.
LEMMA LeaveRemoves ==
  ASSUME RoomAssumption, TypeOK, NEW r \in Room, HandleLeave(r)
  PROVE  \/ UNCHANGED <<players, spawnID, bodies>>
         \/ \E p \in players[r] :
              /\ Cardinality(players[r] \ {p}) = Cardinality(players[r]) - 1
              /\ Cardinality(players[r] \ {p}) \in Nat
              /\ players' = [players EXCEPT ![r] = players[r] \ {p}]
              /\ spawnID' = [spawnID EXCEPT ![r][p] = 0]
              /\ bodies[r] \ {p} \subseteq bodies'[r]
              /\ \A q \in Room \ {r} : bodies'[q] = bodies[q]
              /\ joinSlots' = [joinSlots EXCEPT ![r] = Cardinality(players[r] \ {p})]
<1> DEFINE p == Head(events[r]).player
<1>1. CASE p \notin players[r]
  BY <1>1 DEF HandleLeave
<1>2. CASE p \in players[r]
  <2>1. /\ players' = [players EXCEPT ![r] = players[r] \ {p}]
        /\ spawnID' = [spawnID EXCEPT ![r][p] = 0]
        /\ joinSlots' = [joinSlots EXCEPT ![r] = Cardinality(players[r] \ {p})]
        /\ bodies' \in {bodies, [bodies EXCEPT ![r] = bodies[r] \ {p}]}
    BY <1>2 DEF HandleLeave
  <2> HIDE DEF p
  <2>2. bodies[r] \ {p} \subseteq bodies'[r]
    BY <2>1 DEF TypeOK
  <2>3. \A q \in Room \ {r} : bodies'[q] = bodies[q]
    BY <2>1 DEF TypeOK
  <2>4. IsFiniteSet(players[r])
    BY FS_Subset DEF TypeOK, RoomAssumption
  <2>5. /\ Cardinality(players[r] \ {p}) = Cardinality(players[r]) - 1
        /\ Cardinality(players[r] \ {p}) \in Nat
    BY <1>2, <2>4, FS_CardinalityType, FS_RemoveElement
  <2> QED
    BY <1>2, <2>1, <2>2, <2>3, <2>5
<1> QED
  BY <1>1, <1>2

\* RosterSound and TypeOK are inductive together.
LEMMA RosterStep ==
  ASSUME RoomAssumption, TypeOK, RosterSound, [Next]_vars
  PROVE  RosterSound'
<1>1. CASE UNCHANGED <<players, spawnID, bodies>>
  BY <1>1 DEF RosterSound
<1>2. ASSUME NEW r \in Room, HandleJoin(r), AcceptJoin(r, Head(events[r])),
             ~JoinRefused(r, Head(events[r]).player)
      PROVE  RosterSound'
  <2>1. PICK p \in Player, s \in FreeSpawns(r) :
          /\ p \notin players[r]
          /\ Cardinality(players[r] \cup {p}) \in 0..MaxPlayers
          /\ players' = [players EXCEPT ![r] = players[r] \cup {p}]
          /\ spawnID' = [spawnID EXCEPT ![r][p] = s]
          /\ bodies' = [bodies EXCEPT ![r] = bodies[r] \cup {p}]
    BY <1>2, AcceptAdds
  <2>2. s # 0 /\ \A q \in players[r] : spawnID[r][q] # s
    BY DEF FreeSpawns, RoomAssumption
  <2>3. spawnID'[r][p] = s /\ \A q \in Player \ {p} : spawnID'[r][q] = spawnID[r][q]
    BY <2>1 DEF TypeOK
  <2>4. players'[r] = players[r] \cup {p} /\ bodies'[r] = bodies[r] \cup {p}
    BY <2>1 DEF TypeOK
  <2>5. \A q \in Room \ {r} : /\ players'[q] = players[q]
                              /\ spawnID'[q] = spawnID[q]
                              /\ bodies'[q] = bodies[q]
    BY <2>1 DEF TypeOK
  <2>6. players[r] \subseteq Player
    BY DEF TypeOK
  <2>7. Cardinality(players'[r]) <= MaxPlayers
    <3>1. Cardinality(players'[r]) = Cardinality(players[r] \cup {p})
      BY <2>4
    <3>2. MaxPlayers \in Nat
      BY DEF RoomAssumption
    <3> QED
      BY <2>1, <3>1, <3>2
  <2>8. players'[r] \subseteq bodies'[r]
    BY <2>4 DEF RosterSound
  <2>9. \A q \in players'[r] : spawnID'[r][q] # 0
    BY <2>2, <2>3, <2>4, <2>6 DEF RosterSound
  <2>10. \A q, t \in players'[r] : spawnID'[r][q] = spawnID'[r][t] => q = t
    BY <2>2, <2>3, <2>4, <2>6 DEF RosterSound
  <2> QED
    BY <2>5, <2>7, <2>8, <2>9, <2>10 DEF RosterSound
<1>3. ASSUME NEW r \in Room, HandleLeave(r), ~UNCHANGED <<players, spawnID, bodies>>
      PROVE  RosterSound'
  <2>1. PICK p \in players[r] :
          /\ Cardinality(players[r] \ {p}) = Cardinality(players[r]) - 1
          /\ Cardinality(players[r] \ {p}) \in Nat
          /\ players' = [players EXCEPT ![r] = players[r] \ {p}]
          /\ spawnID' = [spawnID EXCEPT ![r][p] = 0]
          /\ bodies[r] \ {p} \subseteq bodies'[r]
          /\ \A q \in Room \ {r} : bodies'[q] = bodies[q]
    BY <1>3, LeaveRemoves
  <2>2. p \in Player /\ players[r] \subseteq Player
    BY DEF TypeOK
  <2>3. players'[r] = players[r] \ {p}
    BY <2>1 DEF TypeOK
  <2>4. \A q \in Player \ {p} : spawnID'[r][q] = spawnID[r][q]
    BY <2>1, <2>2 DEF TypeOK
  <2>5. \A q \in Room \ {r} : /\ players'[q] = players[q]
                              /\ spawnID'[q] = spawnID[q]
                              /\ bodies'[q] = bodies[q]
    BY <2>1 DEF TypeOK
  <2>6. IsFiniteSet(players[r])
    BY FS_Subset DEF TypeOK, RoomAssumption
  <2>7. Cardinality(players'[r]) <= MaxPlayers
    <3>1. Cardinality(players'[r]) = Cardinality(players[r] \ {p})
      BY <2>3
    <3>2. Cardinality(players[r]) \in Nat /\ Cardinality(players[r]) <= MaxPlayers
      BY <2>6, FS_CardinalityType DEF RosterSound
    <3>3. MaxPlayers \in Nat
      BY DEF RoomAssumption
    <3> QED
      BY <2>1, <3>1, <3>2, <3>3
  <2>8. players'[r] \subseteq bodies'[r]
    BY <2>1, <2>3 DEF RosterSound
  <2>9. \A q \in players'[r] : spawnID'[r][q] # 0
    BY <2>2, <2>3, <2>4 DEF RosterSound
  <2>10. \A q, t \in players'[r] : spawnID'[r][q] = spawnID'[r][t] => q = t
    BY <2>2, <2>3, <2>4 DEF RosterSound
  <2> QED
    BY <2>5, <2>7, <2>8, <2>9, <2>10 DEF RosterSound
<1> QED
  BY <1>1, <1>2, <1>3, RosterWriters

\* At every moment the roster of a room is sound: at most maxPlayers members,
\* each with a body and with a spawn point no other member has, however joins,
\* leaves and failing physics calls interleave.
THEOREM RosterCorrect == Spec => []RosterSound
<1>1. Init => RosterSound
  BY RoomAssumption, FS_EmptySet DEF Init, RosterSound, RoomAssumption
<1>2. TypeOK /\ RosterSound /\ [Next]_vars => RosterSound'
  BY RoomAssumption, RosterStep
<1> QED
  BY <1>1, <1>2, TypeCorrect, PTL DEF Spec

-----------------------------------------------------------------------------
(* The start of the game.                                                  *)

\* FullRoomStarted is inductive with TypeOK and RosterSound.
LEMMA FullRoomStep ==
  ASSUME RoomAssumption, TypeOK, RosterSound, FullRoomStarted, [Next]_vars
  PROVE  FullRoomStarted'
<1> USE DEF FullRoomStarted
<1>1. CASE UNCHANGED <<players, gameStarted, joinClosed>>
  BY <1>1
<1>2. ASSUME NEW r \in Room, HandleJoin(r), AcceptJoin(r, Head(events[r])),
             ~JoinRefused(r, Head(events[r]).player)
      PROVE  FullRoomStarted'
  <2>1. PICK p \in Player :
          /\ Cardinality(players[r] \cup {p}) \in 0..MaxPlayers
          /\ players' = [players EXCEPT ![r] = players[r] \cup {p}]
    BY <1>2, AcceptAdds
  <2>2. players'[r] = players[r] \cup {p}
    BY <2>1 DEF TypeOK
  <2>3. LET starts == StartsGame(r, players'[r])
        IN  /\ gameStarted' = [gameStarted EXCEPT ![r] = gameStarted[r] \/ starts]
            /\ joinClosed' = [joinClosed EXCEPT ![r] = joinClosed[r] \/ starts]
    <3>1. players'[r] = players[r] \cup {Head(events[r]).player}
      BY <1>2 DEF AcceptJoin, TypeOK
    <3> QED
      BY <1>2, <3>1 DEF AcceptJoin
  <2>4. Cardinality(players'[r]) = MaxPlayers => StartsGame(r, players'[r])
    BY DEF StartsGame, RoomAssumption
  <2>5. /\ gameStarted'[r] = (gameStarted[r] \/ StartsGame(r, players'[r]))
        /\ joinClosed'[r] = (joinClosed[r] \/ StartsGame(r, players'[r]))
    BY <2>3 DEF TypeOK
  <2>6. \A q \in Room \ {r} : /\ players'[q] = players[q]
                              /\ gameStarted'[q] = gameStarted[q]
                              /\ joinClosed'[q] = joinClosed[q]
    BY <2>1, <2>3 DEF TypeOK
  <2> QED
    BY <2>4, <2>5, <2>6
<1>3. ASSUME NEW r \in Room, HandleJoin(r), RefuseJoin(r, Head(events[r]))
      PROVE  FullRoomStarted'
  BY <1>1, <1>3 DEF RefuseJoin
<1>4. ASSUME NEW r \in Room, HandleLeave(r) PROVE FullRoomStarted'
  <2>1. UNCHANGED <<gameStarted, joinClosed>>
    BY <1>4 DEF HandleLeave
  <2>2. CASE UNCHANGED players
    BY <2>1, <2>2
  <2>3. ASSUME NEW p \in players[r],
               Cardinality(players[r] \ {p}) = Cardinality(players[r]) - 1,
               players' = [players EXCEPT ![r] = players[r] \ {p}]
        PROVE  FullRoomStarted'
    <3>1. Cardinality(players'[r]) = Cardinality(players[r]) - 1
      BY <2>3 DEF TypeOK
    <3>2. IsFiniteSet(players[r])
      BY FS_Subset DEF TypeOK, RoomAssumption
    <3>3. Cardinality(players[r]) \in Nat /\ Cardinality(players[r]) <= MaxPlayers
      BY <3>2, FS_CardinalityType DEF RosterSound
    <3>4. MaxPlayers \in Nat
      BY DEF RoomAssumption
    <3>5. Cardinality(players'[r]) # MaxPlayers
      BY <3>1, <3>3, <3>4
    <3>6. \A q \in Room \ {r} : players'[q] = players[q]
      BY <2>3 DEF TypeOK
    <3> QED
      BY <2>1, <3>5, <3>6
  <2> QED
    BY <1>4, <2>2, <2>3, LeaveRemoves
<1>5. ASSUME NEW r \in Room, Tick(r) PROVE FullRoomStarted'
  <2>1. UNCHANGED <<players, gameStarted>>
    BY <1>5 DEF Tick
  <2>2. \A q \in Room : joinClosed[q] => joinClosed'[q]
    BY <1>5 DEF Tick, TypeOK
  <2> QED
    BY <2>1, <2>2
<1>6. ASSUME NEW r \in Room,
             Start(r) \/ Stop(r) \/ HandleInput(r) \/ ReleaseJoinSlot(r)
               \/ FinishExit(r) \/ StopExit(r)
      PROVE  FullRoomStarted'
  BY <1>1, <1>6 DEF Start, Stop, HandleInput, ReleaseJoinSlot, FinishExit,
                    StopExit, loopVars
<1>7. ASSUME NEW c \in Caller, NEW r \in Room, NEW p \in Player,
             JoinCheck(c, r, p) \/ Leave(c, r, p)
      PROVE  FullRoomStarted'
  BY <1>1, <1>7 DEF JoinCheck, Leave, loopVars
<1>8. ASSUME NEW c \in Caller, NEW r \in Room, PushInput(c, r)
      PROVE  FullRoomStarted'
  BY <1>1, <1>8 DEF PushInput, loopVars
<1>9. ASSUME NEW k \in calls, CallStep(k) PROVE FullRoomStarted'
  BY <1>1, <1>9 DEF CallStep, JoinReserve, JoinPush, JoinPushFails, JoinUndo,
                    loopVars
<1>10. CASE UNCHANGED vars
  BY <1>1, <1>10 DEF vars
<1> QED
  BY <1>2, <1>3, <1>4, <1>5, <1>6, <1>7, <1>8, <1>9, <1>10
  DEF Next, LoopStep, HandleEvent, HandleJoin

\* A room that is full has started its game and closed its door; no room is
\* left full and waiting, and no started game admits callers.
THEOREM FullRoomCorrect == Spec => []FullRoomStarted
<1>1. Init => FullRoomStarted
  BY RoomAssumption, FS_EmptySet DEF Init, FullRoomStarted, RoomAssumption
<1>2. TypeOK /\ RosterSound /\ FullRoomStarted /\ [Next]_vars => FullRoomStarted'
  BY RoomAssumption, FullRoomStep
<1> QED
  BY <1>1, <1>2, TypeCorrect, RosterCorrect, PTL DEF Spec

\* No step lets a player into a game that has started, and none changes the
\* roster once the loop has left its select.
THEOREM RosterFreezes == Spec => RosterFrozen
<1> DEFINE Frozen ==
      \A r \in Room :
        /\ gameStarted[r] => players'[r] \subseteq players[r]
        /\ loop[r] \in {"finishing", "exited"} => players'[r] = players[r]
<1>1. TypeOK /\ [Next]_vars => Frozen
  <2> SUFFICES ASSUME TypeOK, [Next]_vars PROVE Frozen
    OBVIOUS
  <2>1. CASE UNCHANGED players
    BY <2>1
  <2>2. ASSUME NEW r \in Room, HandleJoin(r), AcceptJoin(r, Head(events[r])),
               ~JoinRefused(r, Head(events[r]).player)
        PROVE  Frozen
    <3>1. loop[r] = "running"
      BY <2>2 DEF HandleJoin, Takes
    <3>2. PICK p \in Player :
            /\ ~gameStarted[r]
            /\ players' = [players EXCEPT ![r] = players[r] \cup {p}]
      BY <2>2, AcceptAdds, RoomAssumption
    <3>3. \A q \in Room \ {r} : players'[q] = players[q]
      BY <3>2 DEF TypeOK
    <3> QED
      BY <3>1, <3>2, <3>3
  <2>3. ASSUME NEW r \in Room, HandleLeave(r), ~UNCHANGED players
        PROVE  Frozen
    <3>1. loop[r] = "running"
      BY <2>3 DEF HandleLeave, Takes
    <3>2. PICK p \in players[r] :
            players' = [players EXCEPT ![r] = players[r] \ {p}]
      BY <2>3, LeaveRemoves, RoomAssumption
    <3>3. players'[r] \subseteq players[r]
      BY <3>2 DEF TypeOK
    <3>4. \A q \in Room \ {r} : players'[q] = players[q]
      BY <3>2 DEF TypeOK
    <3> QED
      BY <3>1, <3>3, <3>4
  <2> QED
    BY <2>1, <2>2, <2>3, RosterWriters
<1>2. TypeOK /\ [Next]_vars => [Frozen]_vars
  BY <1>1
<1>3. RosterFrozen <=> [][Frozen]_vars
  BY DEF RosterFrozen
<1> HIDE DEF Frozen
<1> QED
  BY <1>2, <1>3, TypeCorrect, PTL DEF Spec

-----------------------------------------------------------------------------
(* The slot counter.                                                       *)

\* The joins of a channel, as PendingJoins finds them in the channel of a room.
JoinsIn(s) == {i \in DOMAIN s : s[i].type = "join"}

LEMMA PendingIsJoinsIn ==
  ASSUME NEW r \in Room
  PROVE  /\ PendingJoins(r) = JoinsIn(events[r])
         /\ PendingJoins(r)' = JoinsIn(events'[r])
BY DEF PendingJoins, JoinsIn

LEMMA JoinsInFinite ==
  ASSUME NEW S, NEW s \in Seq(S)
  PROVE  /\ IsFiniteSet(JoinsIn(s))
         /\ Cardinality(JoinsIn(s)) \in Nat
<1>1. DOMAIN s = 1..Len(s) /\ Len(s) \in Nat
  BY LenProperties
<1>2. IsFiniteSet(1..Len(s))
  BY <1>1, FS_Interval
<1>3. JoinsIn(s) \subseteq 1..Len(s)
  BY <1>1 DEF JoinsIn
<1> QED
  BY <1>2, <1>3, FS_Subset, FS_CardinalityType

\* An append adds a join exactly when it appends one.
LEMMA JoinsAppend ==
  ASSUME NEW s \in Seq(Event), NEW e \in Event
  PROVE  Cardinality(JoinsIn(Append(s, e)))
           = Cardinality(JoinsIn(s)) + (IF e.type = "join" THEN 1 ELSE 0)
<1> DEFINE t == Append(s, e)
<1>1. /\ t \in Seq(Event)
      /\ Len(t) = Len(s) + 1
      /\ \A i \in 1..Len(s) : t[i] = s[i]
      /\ t[Len(s) + 1] = e
  BY AppendProperties
<1> HIDE DEF t
<1>2. /\ DOMAIN s = 1..Len(s) /\ Len(s) \in Nat
      /\ DOMAIN t = 1..Len(t)
  BY <1>1, LenProperties
<1>3. IsFiniteSet(JoinsIn(s)) /\ Cardinality(JoinsIn(s)) \in Nat
  BY JoinsInFinite
<1>4. Len(s) + 1 \notin JoinsIn(s)
  BY <1>2 DEF JoinsIn
<1>5. CASE e.type = "join"
  <2>1. JoinsIn(t) = JoinsIn(s) \cup {Len(s) + 1}
    BY <1>1, <1>2, <1>5 DEF JoinsIn
  <2>2. Cardinality(JoinsIn(t)) = Cardinality(JoinsIn(s)) + 1
    BY <1>3, <1>4, <2>1, FS_AddElement
  <2> QED
    BY <1>5, <2>2 DEF t
<1>6. CASE e.type # "join"
  <2>1. JoinsIn(t) = JoinsIn(s)
    BY <1>1, <1>2, <1>6 DEF JoinsIn
  <2> QED
    BY <1>3, <1>6, <2>1 DEF t
<1> QED
  BY <1>5, <1>6

\* Taking the first event takes away a join exactly when it is one.
LEMMA JoinsTail ==
  ASSUME NEW s \in Seq(Event), s # <<>>
  PROVE  Cardinality(JoinsIn(Tail(s)))
           = Cardinality(JoinsIn(s)) - (IF Head(s).type = "join" THEN 1 ELSE 0)
<1> DEFINE t == Tail(s)
           later == JoinsIn(s) \ {1}
           shift == [i \in JoinsIn(t) |-> i + 1]
<1>1. /\ t \in Seq(Event)
      /\ Len(t) = Len(s) - 1
      /\ \A i \in 1..Len(t) : t[i] = s[i + 1]
  BY HeadTailProperties
<1>2. Head(s) = s[1]
  OBVIOUS
<1> HIDE DEF t
<1>3. /\ DOMAIN s = 1..Len(s) /\ Len(s) \in Nat
      /\ DOMAIN t = 1..Len(t) /\ Len(t) \in Nat
  BY <1>1, LenProperties
<1>4. Len(s) >= 1
  BY <1>1, <1>3
<1>5. IsFiniteSet(JoinsIn(s)) /\ Cardinality(JoinsIn(s)) \in Nat
  BY JoinsInFinite
<1>6. IsFiniteSet(JoinsIn(t))
  BY <1>1, JoinsInFinite
<1>7. shift \in Bijection(JoinsIn(t), later)
  <2>1. shift \in [JoinsIn(t) -> later]
    BY <1>1, <1>3 DEF JoinsIn
  <2>2. \A i, j \in JoinsIn(t) : shift[i] = shift[j] => i = j
    BY <1>3 DEF JoinsIn
  <2>3. \A k \in later : \E i \in JoinsIn(t) : shift[i] = k
    <3> SUFFICES ASSUME NEW k \in later PROVE k - 1 \in JoinsIn(t) /\ (k - 1) + 1 = k
      OBVIOUS
    <3>1. k \in 2..Len(s) /\ s[k].type = "join"
      BY <1>3 DEF JoinsIn
    <3>2. k - 1 \in 1..Len(t) /\ (k - 1) + 1 = k
      BY <1>1, <1>3, <3>1
    <3>3. t[k - 1] = s[k]
      BY <1>1, <3>2
    <3> QED
      BY <1>3, <3>1, <3>2, <3>3 DEF JoinsIn
  <2> QED
    BY <2>1, <2>2, <2>3 DEF Bijection, Injection, Surjection, IsInjective
<1>8. Cardinality(later) = Cardinality(JoinsIn(t))
  BY <1>6, <1>7, FS_Bijection DEF ExistsBijection
<1>9. CASE Head(s).type = "join"
  <2>1. 1 \in JoinsIn(s)
    BY <1>2, <1>3, <1>4, <1>9 DEF JoinsIn
  <2>2. Cardinality(later) = Cardinality(JoinsIn(s)) - 1
    BY <1>5, <2>1, FS_RemoveElement
  <2> QED
    BY <1>8, <1>9, <2>2 DEF t
<1>10. CASE Head(s).type # "join"
  <2>1. 1 \notin JoinsIn(s)
    BY <1>2, <1>10 DEF JoinsIn
  <2>2. later = JoinsIn(s)
    BY <2>1
  <2>3. Cardinality(JoinsIn(t)) = Cardinality(JoinsIn(s))
    BY <1>8, <2>2
  <2> QED
    BY <1>5, <1>10, <2>3 DEF t
<1> QED
  BY <1>9, <1>10

\* The calls of a set of calls that have added to the counter of room r.
PromisedIn(C, r) == {k \in C : k.room = r /\ k.at # "checked"}

LEMMA PromisedFinite ==
  ASSUME OneCallEach, NEW r \in Room
  PROVE  /\ Promised(r) = PromisedIn(calls, r)
         /\ Promised(r)' = PromisedIn(calls', r)
         /\ IsFiniteSet(Promised(r))
         /\ Cardinality(Promised(r)) \in Nat
<1>1. Promised(r) = PromisedIn(calls, r) /\ Promised(r)' = PromisedIn(calls', r)
  BY DEF Promised, PromisedIn
<1>2. Promised(r) \subseteq calls
  BY DEF Promised
<1>3. IsFiniteSet(Promised(r))
  BY <1>2, FS_Subset DEF OneCallEach
<1> QED
  BY <1>1, <1>3, FS_CardinalityType

\* A call that moves on is counted from its Add(1) until it is over.
LEMMA PromisedAdvance ==
  ASSUME TypeOK, OneCallEach, NEW k \in calls, NEW step \in {"reserved", "undo"},
         Advance(k, step), NEW r \in Room
  PROVE  Cardinality(Promised(r)')
           = Cardinality(Promised(r))
               + (IF k.room = r /\ k.at = "checked" THEN 1 ELSE 0)
<1> DEFINE l == [k EXCEPT !.at = step]
<1>1. calls \subseteq Call
  BY DEF TypeOK
<1>2. l.room = k.room /\ l.caller = k.caller /\ l.at = step
  BY <1>1 DEF Call
<1>3. k.at # step => l \notin calls
  BY <1>2 DEF OneCallEach
<1>4. k.at = step => l = k
  BY <1>1 DEF Call
<1>5. calls' = (calls \ {k}) \cup {l}
  BY DEF Advance
<1> HIDE DEF l
<1>6. IsFiniteSet(Promised(r)) /\ Cardinality(Promised(r)) \in Nat
  BY PromisedFinite
<1>7. CASE k.room # r
  <2>1. Promised(r)' = Promised(r)
    BY <1>2, <1>5, <1>7 DEF Promised
  <2> QED
    BY <1>6, <1>7, <2>1
<1>8. CASE k.room = r /\ k.at = "checked"
  <2>1. Promised(r)' = Promised(r) \cup {l}
    BY <1>2, <1>5, <1>8 DEF Promised
  <2>2. l \notin Promised(r)
    BY <1>3, <1>8 DEF Promised
  <2>3. Cardinality(Promised(r)') = Cardinality(Promised(r)) + 1
    BY <1>6, <2>1, <2>2, FS_AddElement
  <2> QED
    BY <1>8, <2>3
<1>9. CASE k.room = r /\ k.at # "checked"
  <2>1. Promised(r)' = (Promised(r) \ {k}) \cup {l} /\ k \in Promised(r)
    BY <1>2, <1>5, <1>9 DEF Promised
  <2>2. l \notin Promised(r) \ {k}
    BY <1>3, <1>4 DEF Promised
  <2>3. /\ IsFiniteSet(Promised(r) \ {k})
        /\ Cardinality(Promised(r) \ {k}) = Cardinality(Promised(r)) - 1
    BY <1>6, <2>1, FS_RemoveElement
  <2>4. Cardinality(Promised(r)') = Cardinality(Promised(r) \ {k}) + 1
    BY <2>1, <2>2, <2>3, FS_AddElement
  <2> QED
    BY <1>6, <1>9, <2>3, <2>4
<1> QED
  BY <1>7, <1>8, <1>9

\* A call that ends is counted no longer.
LEMMA PromisedEnd ==
  ASSUME TypeOK, OneCallEach, NEW k \in calls, k.at # "checked",
         calls' = calls \ {k}, NEW r \in Room
  PROVE  Cardinality(Promised(r)')
           = Cardinality(Promised(r)) - (IF k.room = r THEN 1 ELSE 0)
<1>1. IsFiniteSet(Promised(r)) /\ Cardinality(Promised(r)) \in Nat
  BY PromisedFinite
<1>2. Promised(r)' = Promised(r) \ {k}
  BY DEF Promised
<1>3. CASE k.room = r
  <2>1. k \in Promised(r)
    BY <1>3 DEF Promised
  <2>2. Cardinality(Promised(r)') = Cardinality(Promised(r)) - 1
    BY <1>1, <1>2, <2>1, FS_RemoveElement
  <2> QED
    BY <1>3, <2>2
<1>4. CASE k.room # r
  <2>1. Promised(r)' = Promised(r)
    BY <1>2, <1>4 DEF Promised
  <2> QED
    BY <1>1, <1>4, <2>1
<1> QED
  BY <1>3, <1>4

\* OneCallEach is inductive with TypeOK.
LEMMA OneCallStep ==
  ASSUME TypeOK, OneCallEach, [Next]_vars
  PROVE  OneCallEach'
<1> USE DEF OneCallEach
<1>1. CASE UNCHANGED calls
  BY <1>1
<1>2. ASSUME NEW c \in Caller, NEW r \in Room, NEW p \in Player,
             JoinCheck(c, r, p)
      PROVE  OneCallEach'
  <2> DEFINE k == [caller |-> c, room |-> r, player |-> p, at |-> "checked"]
  <2>1. calls' = calls \cup {k}
    BY <1>2 DEF JoinCheck
  <2>2. \A l \in calls : l.caller # c
    BY <1>2 DEF JoinCheck, InCall
  <2>3. k.caller = c
    OBVIOUS
  <2> HIDE DEF k
  <2>4. IsFiniteSet(calls')
    BY <2>1, FS_AddElement
  <2> QED
    BY <2>1, <2>2, <2>3, <2>4
<1>3. ASSUME NEW k \in calls, NEW step \in {"reserved", "undo"}, Advance(k, step)
      PROVE  OneCallEach'
  <2> DEFINE l == [k EXCEPT !.at = step]
  <2>1. calls' = (calls \ {k}) \cup {l}
    BY <1>3 DEF Advance
  <2>2. l.caller = k.caller
    BY DEF TypeOK, Call
  <2> HIDE DEF l
  <2>3. IsFiniteSet(calls')
    BY <2>1, FS_AddElement, FS_RemoveElement
  <2> QED
    BY <2>1, <2>2, <2>3
<1>4. ASSUME NEW k \in calls, calls' = calls \ {k} PROVE OneCallEach'
  BY <1>4, FS_RemoveElement
<1>5. ASSUME NEW k \in calls, CallStep(k) PROVE OneCallEach'
  BY <1>3, <1>4, <1>5 DEF CallStep, JoinReserve, JoinPush, JoinPushFails, JoinUndo
<1>6. ASSUME NEW r \in Room, Start(r) \/ Stop(r) \/ LoopStep(r)
      PROVE  OneCallEach'
  BY <1>1, <1>6 DEF Start, Stop, LoopStep, HandleEvent, HandleJoin, HandleLeave,
                    HandleInput, ReleaseJoinSlot, Tick, FinishExit, StopExit
<1>7. ASSUME NEW c \in Caller, NEW r \in Room, NEW p \in Player,
             Leave(c, r, p)
      PROVE  OneCallEach'
  BY <1>1, <1>7 DEF Leave
<1>8. ASSUME NEW c \in Caller, NEW r \in Room, PushInput(c, r)
      PROVE  OneCallEach'
  BY <1>1, <1>8 DEF PushInput
<1> QED
  BY <1>1, <1>2, <1>5, <1>6, <1>7, <1>8 DEF Next, vars

\* The seats of room r that somebody holds or asks for.
Asked(r) == Cardinality(players[r]) + Cardinality(PendingJoins(r))
              + Cardinality(Promised(r)) + (IF releasing[r] THEN 1 ELSE 0)

LEMMA CountsType ==
  ASSUME RoomAssumption, TypeOK, OneCallEach, NEW r \in Room
  PROVE  /\ Cardinality(players[r]) \in Nat
         /\ Cardinality(PendingJoins(r)) \in Nat
         /\ Cardinality(Promised(r)) \in Nat
<1>1. IsFiniteSet(players[r])
  BY FS_Subset DEF TypeOK, RoomAssumption
<1>2. events[r] \in Seq(Event)
  BY DEF TypeOK
<1> QED
  BY <1>1, <1>2, FS_CardinalityType, JoinsInFinite, PendingIsJoinsIn, PromisedFinite

\* Pushing an event on the channel of room q, seen from room r.
LEMMA PendingPush ==
  ASSUME TypeOK, NEW q \in Room, NEW r \in Room, NEW e \in Event,
         events' = [events EXCEPT ![q] = Append(events[q], e)]
  PROVE  Cardinality(PendingJoins(r)')
           = Cardinality(PendingJoins(r))
               + (IF q = r /\ e.type = "join" THEN 1 ELSE 0)
<1>1. events[r] \in Seq(Event)
  BY DEF TypeOK
<1>2. Cardinality(JoinsIn(events[r])) \in Nat
  BY <1>1, JoinsInFinite
<1>3. CASE q = r
  <2>1. events'[r] = Append(events[r], e)
    BY <1>3 DEF TypeOK
  <2>2. Cardinality(JoinsIn(events'[r]))
          = Cardinality(JoinsIn(events[r])) + (IF e.type = "join" THEN 1 ELSE 0)
    BY <1>1, <2>1, JoinsAppend
  <2> QED
    BY <1>3, <2>2, PendingIsJoinsIn
<1>4. CASE q # r
  <2>1. events'[r] = events[r]
    BY <1>4 DEF TypeOK
  <2> QED
    BY <1>2, <1>4, <2>1, PendingIsJoinsIn
<1> QED
  BY <1>3, <1>4

\* The loop of room q taking an event, seen from room r.
LEMMA PendingTake ==
  ASSUME TypeOK, NEW q \in Room, NEW r \in Room, NEW t, Takes(q, t)
  PROVE  Cardinality(PendingJoins(r)')
           = Cardinality(PendingJoins(r))
               - (IF q = r /\ t = "join" THEN 1 ELSE 0)
<1>1. events[r] \in Seq(Event)
  BY DEF TypeOK
<1>2. Cardinality(JoinsIn(events[r])) \in Nat
  BY <1>1, JoinsInFinite
<1>3. /\ events[q] # <<>> /\ Head(events[q]).type = t
      /\ events' = [events EXCEPT ![q] = Tail(events[q])]
  BY DEF Takes
<1>4. CASE q = r
  <2>1. events'[r] = Tail(events[r])
    BY <1>3, <1>4 DEF TypeOK
  <2>2. Cardinality(JoinsIn(events'[r]))
          = Cardinality(JoinsIn(events[r])) - (IF t = "join" THEN 1 ELSE 0)
    BY <1>1, <1>3, <1>4, <2>1, JoinsTail
  <2> QED
    BY <1>4, <2>2, PendingIsJoinsIn
<1>5. CASE q # r
  <2>1. events'[r] = events[r]
    BY <1>3, <1>5 DEF TypeOK
  <2> QED
    BY <1>2, <1>5, <2>1, PendingIsJoinsIn
<1> QED
  BY <1>4, <1>5

\* What each step does to the counter and to the seats asked for.
LEMMA SlotHandleJoin ==
  ASSUME RoomAssumption, TypeOK, OneCallEach, NEW q \in Room, NEW r \in Room,
         HandleJoin(q), ~joinClosed'[r], joinSlots[r] <= Asked(r)
  PROVE  joinSlots'[r] <= Asked(r)'
<1> USE CountsType DEF Asked
<1>1. joinSlots[r] \in Int
  BY DEF TypeOK
<1>2. Takes(q, "join") /\ UNCHANGED calls
  BY DEF HandleJoin
<1>3. Cardinality(PendingJoins(r)')
        = Cardinality(PendingJoins(r)) - (IF q = r THEN 1 ELSE 0)
  BY <1>2, PendingTake
<1>4. Promised(r)' = Promised(r)
  BY <1>2 DEF Promised
<1>5. CASE RefuseJoin(q, Head(events[q]))
  <2>1. UNCHANGED <<players, joinSlots>>
    BY <1>5 DEF RefuseJoin
  <2>2. CASE q # r
    <3>1. releasing'[r] = releasing[r]
      BY <1>5, <2>2 DEF RefuseJoin, TypeOK
    <3> QED
      BY <1>1, <1>3, <1>4, <2>1, <2>2, <3>1
  <2>3. CASE q = r
    <3>1. ~releasing[r]
      BY <1>2, <2>3 DEF Takes
    <3>2. Cardinality(PendingJoins(r)') >= 0
      <4>1. events'[r] \in Seq(Event)
        BY <1>2, TakesType
      <4> QED
        BY <4>1, JoinsInFinite, PendingIsJoinsIn
    <3>3. CASE joinSlots[r] > 0
      <4>1. releasing'[r]
        BY <1>5, <2>3, <3>3 DEF RefuseJoin, TypeOK
      <4>2. players'[r] = players[r] /\ joinSlots'[r] = joinSlots[r]
        BY <2>1
      <4>3. Cardinality(PendingJoins(r)') = Cardinality(PendingJoins(r)) - 1
        BY <1>3, <2>3
      <4> QED
        BY <1>1, <1>4, <3>1, <4>1, <4>2, <4>3
    <3>4. CASE ~(joinSlots[r] > 0)
      <4>1. joinSlots'[r] <= 0
        BY <1>1, <2>1, <3>4
      <4>2. players'[r] = players[r]
        BY <2>1
      <4>3. /\ Cardinality(players'[r]) \in Nat
            /\ Cardinality(Promised(r)') \in Nat
            /\ Cardinality(PendingJoins(r)') \in Int
        BY <1>3, <1>4, <4>2
      <4> QED
        BY <1>1, <2>1, <3>2, <4>1, <4>3
    <3> QED
      BY <3>3, <3>4
  <2> QED
    BY <2>2, <2>3
<1>6. CASE AcceptJoin(q, Head(events[q])) /\ ~JoinRefused(q, Head(events[q]).player)
  <2>1. PICK p \in Player :
          /\ Cardinality(players[q] \cup {p}) = Cardinality(players[q]) + 1
          /\ players' = [players EXCEPT ![q] = players[q] \cup {p}]
    BY <1>6, AcceptAdds
  <2>2. UNCHANGED releasing
    BY <1>6 DEF AcceptJoin
  <2>3. CASE q # r
    <3>1. players'[r] = players[r] /\ joinSlots'[r] = joinSlots[r]
      BY <1>6, <2>3 DEF AcceptJoin, TypeOK
    <3> QED
      BY <1>1, <1>3, <1>4, <2>2, <2>3, <3>1
  <2>4. CASE q = r
    <3>1. players'[r] = players[r] \cup {p}
      BY <2>1, <2>4 DEF TypeOK
    <3>2. ~StartsGame(r, players[r] \cup {Head(events[r]).player})
      BY <1>6, <2>4 DEF AcceptJoin, TypeOK
    <3>3. joinSlots'[r] = joinSlots[r]
      BY <1>6, <2>4, <3>2 DEF AcceptJoin, TypeOK
    <3>4. Cardinality(players'[r]) = Cardinality(players[r]) + 1
      BY <2>1, <2>4, <3>1
    <3>5. releasing[r] = FALSE /\ releasing'[r] = FALSE
      BY <1>2, <2>2, <2>4 DEF Takes, TypeOK
    <3>6. Cardinality(PendingJoins(r)') = Cardinality(PendingJoins(r)) - 1
      BY <1>3, <2>4
    <3>7. Cardinality(Promised(r)') = Cardinality(Promised(r))
      BY <1>4
    <3> QED
      BY <1>1, <3>3, <3>4, <3>5, <3>6, <3>7
  <2> QED
    BY <2>3, <2>4
<1> QED
  BY <1>5, <1>6 DEF HandleJoin

LEMMA SlotHandleLeave ==
  ASSUME RoomAssumption, TypeOK, OneCallEach, NEW q \in Room, NEW r \in Room,
         HandleLeave(q), joinSlots[r] <= Asked(r)
  PROVE  joinSlots'[r] <= Asked(r)'
<1> USE CountsType DEF Asked
<1>1. joinSlots[r] \in Int
  BY DEF TypeOK
<1>2. Takes(q, "leave") /\ UNCHANGED <<calls, releasing>>
  BY DEF HandleLeave
<1>3. Cardinality(PendingJoins(r)') = Cardinality(PendingJoins(r))
  BY <1>2, PendingTake
<1>4. Promised(r)' = Promised(r)
  BY <1>2 DEF Promised
<1>5. CASE UNCHANGED <<players, joinSlots>>
  BY <1>1, <1>2, <1>3, <1>4, <1>5
<1>6. ASSUME NEW p \in players[q],
             Cardinality(players[q] \ {p}) \in Nat,
             players' = [players EXCEPT ![q] = players[q] \ {p}],
             joinSlots' = [joinSlots EXCEPT ![q] = Cardinality(players[q] \ {p})]
      PROVE  joinSlots'[r] <= Asked(r)'
  <2>1. CASE q = r
    <3>1. players'[r] = players[r] \ {p}
      BY <1>6, <2>1 DEF TypeOK
    <3>2. joinSlots'[r] = Cardinality(players[r] \ {p})
      BY <1>6, <2>1 DEF TypeOK
    <3> QED
      BY <1>2, <1>3, <1>4, <1>6, <2>1, <3>1, <3>2
  <2>2. CASE q # r
    <3>1. players'[r] = players[r] /\ joinSlots'[r] = joinSlots[r]
      BY <1>6, <2>2 DEF TypeOK
    <3> QED
      BY <1>1, <1>2, <1>3, <1>4, <3>1
  <2> QED
    BY <2>1, <2>2
<1>7. \/ UNCHANGED <<players, joinSlots>>
      \/ \E p \in players[q] :
           /\ Cardinality(players[q] \ {p}) \in Nat
           /\ players' = [players EXCEPT ![q] = players[q] \ {p}]
           /\ joinSlots' = [joinSlots EXCEPT ![q] = Cardinality(players[q] \ {p})]
  <2>1. CASE Head(events[q]).player \notin players[q]
    BY <2>1 DEF HandleLeave
  <2>2. CASE Head(events[q]).player \in players[q]
    <3>1. \A p : Cardinality(players[q] \ {p}) \in Nat
      <4>1. IsFiniteSet(players[q])
        BY FS_Subset DEF TypeOK, RoomAssumption
      <4> QED
        BY <4>1, FS_RemoveElement, FS_CardinalityType
    <3> QED
      BY <2>2, <3>1 DEF HandleLeave
  <2> QED
    BY <2>1, <2>2
<1> QED
  BY <1>5, <1>6, <1>7

LEMMA SlotCall ==
  ASSUME RoomAssumption, TypeOK, OneCallEach, NEW k \in calls, NEW r \in Room,
         CallStep(k), joinSlots[r] <= Asked(r)
  PROVE  joinSlots'[r] <= Asked(r)'
<1> USE CountsType DEF Asked
<1>0. joinSlots[r] \in Int /\ k \in Call /\ k.room \in Room
  BY DEF TypeOK, Call
<1>1. UNCHANGED <<players, releasing>>
  BY DEF CallStep, JoinReserve, JoinPush, JoinPushFails, JoinUndo, loopVars
<1>2. CASE JoinReserve(k)
  <2>1. /\ k.at = "checked" /\ UNCHANGED events
        /\ joinSlots' = [joinSlots EXCEPT ![k.room] = joinSlots[k.room] + 1]
    BY <1>2 DEF JoinReserve
  <2>2. Cardinality(Promised(r)')
          = Cardinality(Promised(r)) + (IF k.room = r THEN 1 ELSE 0)
    BY <1>2, <2>1, PromisedAdvance DEF JoinReserve
  <2>3. joinSlots'[r] = joinSlots[r] + (IF k.room = r THEN 1 ELSE 0)
    BY <1>0, <2>1 DEF TypeOK
  <2>4. PendingJoins(r)' = PendingJoins(r)
    BY <2>1 DEF PendingJoins
  <2> QED
    BY <1>0, <1>1, <2>2, <2>3, <2>4
<1>3. CASE JoinPush(k)
  <2> DEFINE e == [type |-> "join", player |-> k.player, from |-> k.caller]
  <2>1. /\ k.at = "reserved" /\ calls' = calls \ {k} /\ UNCHANGED joinSlots
        /\ events' = [events EXCEPT ![k.room] = Append(events[k.room], e)]
    BY <1>3 DEF JoinPush
  <2>2. e \in Event /\ e.type = "join"
    BY <1>0 DEF Event, JoinEvent, Call
  <2> HIDE DEF e
  <2>3. Cardinality(PendingJoins(r)')
          = Cardinality(PendingJoins(r)) + (IF k.room = r THEN 1 ELSE 0)
    BY <1>0, <2>1, <2>2, PendingPush
  <2>4. Cardinality(Promised(r)')
          = Cardinality(Promised(r)) - (IF k.room = r THEN 1 ELSE 0)
    BY <2>1, PromisedEnd
  <2> QED
    BY <1>0, <1>1, <2>1, <2>3, <2>4
<1>4. CASE JoinPushFails(k)
  <2>1. k.at = "reserved" /\ UNCHANGED <<events, joinSlots>>
    BY <1>4 DEF JoinPushFails
  <2>2. Cardinality(Promised(r)') = Cardinality(Promised(r))
    BY <1>4, <2>1, PromisedAdvance DEF JoinPushFails
  <2>3. PendingJoins(r)' = PendingJoins(r)
    BY <2>1 DEF PendingJoins
  <2> QED
    BY <1>0, <1>1, <2>1, <2>2, <2>3
<1>5. CASE JoinUndo(k)
  <2>1. /\ k.at = "undo" /\ calls' = calls \ {k} /\ UNCHANGED events
        /\ joinSlots' = [joinSlots EXCEPT ![k.room] = joinSlots[k.room] - 1]
    BY <1>5 DEF JoinUndo
  <2>2. Cardinality(Promised(r)')
          = Cardinality(Promised(r)) - (IF k.room = r THEN 1 ELSE 0)
    BY <2>1, PromisedEnd
  <2>3. joinSlots'[r] = joinSlots[r] - (IF k.room = r THEN 1 ELSE 0)
    BY <1>0, <2>1 DEF TypeOK
  <2>4. PendingJoins(r)' = PendingJoins(r)
    BY <2>1 DEF PendingJoins
  <2> QED
    BY <1>0, <1>1, <2>2, <2>3, <2>4
<1> QED
  BY <1>2, <1>3, <1>4, <1>5 DEF CallStep

\* NoSlotLeak is inductive with TypeOK and OneCallEach.
LEMMA SlotStep ==
  ASSUME RoomAssumption, TypeOK, OneCallEach, NoSlotLeak, [Next]_vars
  PROVE  NoSlotLeak'
<1> SUFFICES ASSUME NEW r \in Room, ~joinClosed'[r]
             PROVE  joinSlots'[r] <= Asked(r)'
  BY DEF NoSlotLeak, Asked
<1>1. joinSlots[r] \in Int
  BY DEF TypeOK
<1>2. ~joinClosed[r] => joinSlots[r] <= Asked(r)
  BY DEF NoSlotLeak, Asked
<1>3. ~joinClosed[r]
  <2>1. ASSUME NEW q \in Room, HandleJoin(q), joinClosed[r] PROVE joinClosed'[r]
    BY <2>1 DEF HandleJoin, RefuseJoin, AcceptJoin, TypeOK
  <2>2. ASSUME NEW q \in Room, Tick(q), joinClosed[r] PROVE joinClosed'[r]
    BY <2>2 DEF Tick, TypeOK
  <2>3. CASE UNCHANGED joinClosed
    BY <2>3
  <2>4. ASSUME NEW q \in Room, Start(q) \/ Stop(q) \/ LoopStep(q),
               ~HandleJoin(q), ~Tick(q)
        PROVE  UNCHANGED joinClosed
    BY <2>4 DEF Start, Stop, LoopStep, HandleEvent, HandleLeave, HandleInput,
                ReleaseJoinSlot, FinishExit, StopExit
  <2>5. ASSUME NEW c \in Caller, NEW q \in Room, NEW p \in Player,
               JoinCheck(c, q, p) \/ Leave(c, q, p)
        PROVE  UNCHANGED joinClosed
    BY <2>5 DEF JoinCheck, Leave
  <2>6. ASSUME NEW c \in Caller, NEW q \in Room, PushInput(c, q)
        PROVE  UNCHANGED joinClosed
    BY <2>6 DEF PushInput
  <2>7. ASSUME NEW k \in calls, CallStep(k) PROVE UNCHANGED joinClosed
    BY <2>7 DEF CallStep, JoinReserve, JoinPush, JoinPushFails, JoinUndo
  <2> QED
    BY <2>1, <2>2, <2>3, <2>4, <2>5, <2>6, <2>7 DEF Next, LoopStep, vars
<1>4. joinSlots[r] <= Asked(r)
  BY <1>2, <1>3
<1>5. CASE UNCHANGED <<players, releasing, joinSlots, calls>>
           /\ Cardinality(PendingJoins(r)') = Cardinality(PendingJoins(r))
  <2>1. Promised(r)' = Promised(r)
    BY <1>5 DEF Promised
  <2> QED
    BY <1>4, <1>5, <2>1 DEF Asked
<1>6. CASE UNCHANGED <<players, releasing, joinSlots, calls, events>>
  BY <1>5, <1>6 DEF PendingJoins
<1>7. ASSUME NEW q \in Room,
             Start(q) \/ Stop(q) \/ Tick(q) \/ FinishExit(q) \/ StopExit(q)
      PROVE  joinSlots'[r] <= Asked(r)'
  BY <1>6, <1>7 DEF Start, Stop, Tick, FinishExit, StopExit
<1>8. ASSUME NEW q \in Room, HandleInput(q) PROVE joinSlots'[r] <= Asked(r)'
  <2>1. Takes(q, "input") /\ UNCHANGED <<players, releasing, joinSlots, calls>>
    BY <1>8 DEF HandleInput, loopVars
  <2>2. Cardinality(PendingJoins(r)') = Cardinality(PendingJoins(r))
    BY <2>1, PendingTake, CountsType
  <2> QED
    BY <1>5, <2>1, <2>2
<1>9. ASSUME NEW q \in Room, ReleaseJoinSlot(q) PROVE joinSlots'[r] <= Asked(r)'
  <2>1. UNCHANGED <<players, events, calls>>
    BY <1>9 DEF ReleaseJoinSlot
  <2>2. PendingJoins(r)' = PendingJoins(r) /\ Promised(r)' = Promised(r)
    BY <2>1 DEF PendingJoins, Promised
  <2>3. CASE q # r
    <3>1. releasing'[r] = releasing[r] /\ joinSlots'[r] = joinSlots[r]
      BY <1>9, <2>3 DEF ReleaseJoinSlot, TypeOK
    <3> QED
      BY <1>4, <2>1, <2>2, <3>1 DEF Asked
  <2>4. CASE q = r
    <3>1. releasing[r] /\ ~releasing'[r] /\ joinSlots'[r] = joinSlots[r] - 1
      BY <1>9, <2>4 DEF ReleaseJoinSlot, TypeOK
    <3> QED
      BY <1>1, <1>4, <2>1, <2>2, <3>1, CountsType DEF Asked
  <2> QED
    BY <2>3, <2>4
<1>10. ASSUME NEW c \in Caller, NEW q \in Room, NEW p \in Player, JoinCheck(c, q, p)
       PROVE  joinSlots'[r] <= Asked(r)'
  <2>1. UNCHANGED <<players, releasing, joinSlots, events>>
    BY <1>10 DEF JoinCheck, loopVars
  <2>2. PendingJoins(r)' = PendingJoins(r)
    BY <2>1 DEF PendingJoins
  <2>3. Promised(r)' = Promised(r)
    BY <1>10 DEF JoinCheck, Promised
  <2> QED
    BY <1>4, <2>1, <2>2, <2>3 DEF Asked
<1>11. ASSUME NEW c \in Caller, NEW q \in Room, NEW p \in Player, Leave(c, q, p)
       PROVE  joinSlots'[r] <= Asked(r)'
  <2> DEFINE e == [type |-> "leave", player |-> p]
  <2>1. e \in Event /\ e.type # "join"
    BY DEF Event, LeaveEvent
  <2>2. /\ UNCHANGED <<players, releasing, joinSlots, calls>>
        /\ events' = [events EXCEPT ![q] = Append(events[q], e)]
    BY <1>11 DEF Leave, loopVars
  <2> HIDE DEF e
  <2>3. Cardinality(PendingJoins(r)') = Cardinality(PendingJoins(r))
    <3>1. Cardinality(PendingJoins(r)')
            = Cardinality(PendingJoins(r))
                + (IF q = r /\ e.type = "join" THEN 1 ELSE 0)
      BY <2>1, <2>2, PendingPush
    <3> QED
      BY <2>1, <3>1, CountsType
  <2> QED
    BY <1>5, <2>2, <2>3
<1>12. ASSUME NEW c \in Caller, NEW q \in Room, PushInput(c, q)
       PROVE  joinSlots'[r] <= Asked(r)'
  <2> DEFINE e == [type |-> "input"]
  <2>1. e \in Event /\ e.type # "join"
    BY DEF Event, InputEvent
  <2>2. /\ UNCHANGED <<players, releasing, joinSlots, calls>>
        /\ events' = [events EXCEPT ![q] = Append(events[q], e)]
    BY <1>12 DEF PushInput, loopVars
  <2> HIDE DEF e
  <2>3. Cardinality(PendingJoins(r)') = Cardinality(PendingJoins(r))
    <3>1. Cardinality(PendingJoins(r)')
            = Cardinality(PendingJoins(r))
                + (IF q = r /\ e.type = "join" THEN 1 ELSE 0)
      BY <2>1, <2>2, PendingPush
    <3> QED
      BY <2>1, <3>1, CountsType
  <2> QED
    BY <1>5, <2>2, <2>3
<1>13. ASSUME NEW q \in Room, HandleJoin(q) PROVE joinSlots'[r] <= Asked(r)'
  BY <1>4, <1>13, SlotHandleJoin
<1>14. ASSUME NEW q \in Room, HandleLeave(q) PROVE joinSlots'[r] <= Asked(r)'
  BY <1>4, <1>14, SlotHandleLeave
<1>15. ASSUME NEW k \in calls, CallStep(k) PROVE joinSlots'[r] <= Asked(r)'
  BY <1>4, <1>15, SlotCall
<1>16. CASE UNCHANGED vars
  BY <1>6, <1>16 DEF vars
<1> QED
  BY <1>7, <1>8, <1>9, <1>10, <1>11, <1>12, <1>13, <1>14, <1>15, <1>16
  DEF Next, LoopStep, HandleEvent

\* Until the game starts the slot counter never exceeds the members plus the
\* joins still on their way: no interleaving of refused joins, failed pushes,
\* leaves and releases takes a seat from the room for good.
THEOREM NoSlotLeakCorrect == Spec => []NoSlotLeak
<1>1. Init => OneCallEach
  BY FS_EmptySet DEF Init, OneCallEach
<1>2. TypeOK /\ OneCallEach /\ [Next]_vars => OneCallEach'
  BY OneCallStep
<1>3. Init => NoSlotLeak
  <2> SUFFICES ASSUME Init, NEW r \in Room
               PROVE  joinSlots[r] <= Asked(r)
    BY DEF NoSlotLeak, Asked
  <2>1. TypeOK /\ OneCallEach
    BY RoomAssumption, InitType, <1>1
  <2>2. joinSlots[r] = 0 /\ releasing[r] = FALSE
    BY DEF Init
  <2> QED
    BY RoomAssumption, <2>1, <2>2, CountsType DEF Asked
<1>4. TypeOK /\ OneCallEach /\ NoSlotLeak /\ [Next]_vars => NoSlotLeak'
  BY RoomAssumption, SlotStep
<1> QED
  BY <1>1, <1>2, <1>3, <1>4, TypeCorrect, PTL DEF Spec

-----------------------------------------------------------------------------
(* A room is a Game.                                                       *)

\* Where the goroutine is says whether the game has ended: finishGame sets
\* gameEnded on the way out of the loop and nowhere else.
EndedInLoop ==
  \A r \in Room : /\ loop[r] \in {"none", "running"} => ~gameEnded[r]
                  /\ loop[r] = "finishing" => gameEnded[r]

\* The actions that touch what phase and roster are read off.
Moves(r) ==
  \/ Start(r) \/ Tick(r) \/ FinishExit(r) \/ StopExit(r) \/ HandleLeave(r)
  \/ /\ HandleJoin(r)
     /\ AcceptJoin(r, Head(events[r]))
     /\ ~JoinRefused(r, Head(events[r]).player)

observed == <<loop, players, gameStarted, gameEnded>>

-----------------------------------------------------------------------------
LEMMA PhaseWriters ==
  ASSUME [Next]_vars
  PROVE  UNCHANGED observed \/ \E r \in Room : Moves(r)
<1> USE DEF observed
<1>1. CASE UNCHANGED vars
  BY <1>1 DEF vars
<1>2. ASSUME NEW r \in Room, HandleJoin(r), RefuseJoin(r, Head(events[r]))
      PROVE  UNCHANGED observed
  BY <1>2 DEF HandleJoin, RefuseJoin
<1>3. ASSUME NEW r \in Room, HandleInput(r) \/ ReleaseJoinSlot(r) \/ Stop(r)
      PROVE  UNCHANGED observed
  BY <1>3 DEF HandleInput, ReleaseJoinSlot, Stop, loopVars
<1>4. ASSUME NEW r \in Room, Start(r) \/ Stop(r) \/ LoopStep(r)
      PROVE  UNCHANGED observed \/ Moves(r)
  BY <1>2, <1>3, <1>4 DEF LoopStep, HandleEvent, HandleJoin, Moves
<1>5. ASSUME NEW c \in Caller, NEW r \in Room, NEW p \in Player,
             JoinCheck(c, r, p) \/ Leave(c, r, p)
      PROVE  UNCHANGED observed
  BY <1>5 DEF JoinCheck, Leave, loopVars
<1>6. ASSUME NEW c \in Caller, NEW r \in Room, PushInput(c, r)
      PROVE  UNCHANGED observed
  BY <1>6 DEF PushInput, loopVars
<1>7. ASSUME NEW k \in calls, CallStep(k)
      PROVE  UNCHANGED observed
  BY <1>7 DEF CallStep, JoinReserve, JoinPush, JoinPushFails, JoinUndo, loopVars
<1> QED
  BY <1>1, <1>4, <1>5, <1>6, <1>7 DEF Next

\* What such an action does to the loop and to the flags of the game of its room.
LEMMA MovesOne ==
  ASSUME RoomAssumption, TypeOK, NEW r \in Room, Moves(r), NEW q \in Room \ {r}
  PROVE  /\ loop'[q] = loop[q] /\ players'[q] = players[q]
         /\ gameStarted'[q] = gameStarted[q] /\ gameEnded'[q] = gameEnded[q]
<1>1. CASE Start(r) \/ Tick(r) \/ FinishExit(r) \/ StopExit(r)
  BY <1>1 DEF TypeOK, Start, Tick, FinishExit, StopExit
<1>2. CASE HandleLeave(r)
  BY <1>2 DEF TypeOK, HandleLeave
<1>3. CASE HandleJoin(r) /\ AcceptJoin(r, Head(events[r]))
  BY <1>3 DEF TypeOK, HandleJoin, AcceptJoin
<1> QED
  BY <1>1, <1>2, <1>3 DEF Moves

\* EndedInLoop is inductive on top of the types.
LEMMA EndedInLoopStep ==
  ASSUME RoomAssumption, TypeOK, EndedInLoop, [Next]_vars
  PROVE  EndedInLoop'
<1> USE DEF EndedInLoop
<1>1. CASE UNCHANGED observed
  BY <1>1 DEF observed
<1>2. ASSUME NEW r \in Room, Moves(r)
      PROVE  EndedInLoop'
  <2>1. \A q \in Room \ {r} : loop'[q] = loop[q] /\ gameEnded'[q] = gameEnded[q]
    BY <1>2, MovesOne, RoomAssumption
  <2>2. CASE Start(r) \/ FinishExit(r) \/ StopExit(r)
    <3>1. loop'[r] \in {"running", "exited"} /\ gameEnded'[r] = gameEnded[r]
      BY <2>2 DEF TypeOK, Start, FinishExit, StopExit
    <3>2. loop'[r] = "running" => loop[r] = "none"
      BY <2>2 DEF TypeOK, Start, FinishExit, StopExit
    <3> QED
      BY <2>1, <3>1, <3>2
  <2>3. CASE Tick(r)
    <3> DEFINE left == IF remaining[r] > 0 THEN remaining[r] - 1 ELSE 0
               ends == ShouldFinish(r, left)
    <3>1. ends \in BOOLEAN
      BY DEF ShouldFinish
    <3>2. /\ loop[r] = "running"
          /\ gameEnded' = [gameEnded EXCEPT ![r] = ends]
          /\ loop' = [loop EXCEPT ![r] = IF ends THEN "finishing" ELSE @]
      BY <2>3 DEF Tick
    <3> HIDE DEF ends
    <3>3. gameEnded'[r] = ends /\ loop'[r] = IF ends THEN "finishing" ELSE "running"
      BY <3>2 DEF TypeOK
    <3> QED
      BY <2>1, <3>1, <3>3
  <2>4. CASE HandleLeave(r) \/ HandleJoin(r)
    <3>1. UNCHANGED <<loop, gameEnded>>
      BY <2>4 DEF HandleLeave, HandleJoin
    <3> QED
      BY <3>1
  <2> QED
    BY <1>2, <2>2, <2>3, <2>4 DEF Moves
<1> QED
  BY <1>1, <1>2, PhaseWriters

\* The phase of a room whose loop and flags stay as they are.
LEMMA SamePhase ==
  ASSUME NEW r \in Room, loop'[r] = loop[r],
         gameStarted'[r] = gameStarted[r], gameEnded'[r] = gameEnded[r]
  PROVE  Phase(r)' = Phase(r)
BY DEF Phase

\* The four phases, without the order of the cases.
LEMMA PhaseIs ==
  ASSUME NEW r \in Room
  PROVE  /\ gameEnded[r] => Phase(r) = "over"
         /\ ~gameEnded[r] /\ loop[r] = "exited" => Phase(r) = "aborted"
         /\ ~gameEnded[r] /\ loop[r] # "exited" /\ gameStarted[r]
              => Phase(r) = "playing"
         /\ ~gameEnded[r] /\ loop[r] # "exited" /\ ~gameStarted[r]
              => Phase(r) = "waiting"
BY DEF Phase

LEMMA PhaseIsNext ==
  ASSUME NEW r \in Room
  PROVE  /\ gameEnded'[r] => Phase(r)' = "over"
         /\ ~gameEnded'[r] /\ loop'[r] = "exited" => Phase(r)' = "aborted"
         /\ ~gameEnded'[r] /\ loop'[r] # "exited" /\ gameStarted'[r]
              => Phase(r)' = "playing"
         /\ ~gameEnded'[r] /\ loop'[r] # "exited" /\ ~gameStarted'[r]
              => Phase(r)' = "waiting"
BY DEF Phase

-----------------------------------------------------------------------------
(* The step of each action, in the Game of its room.                       *)

\* Game brings its own name for the cardinality of a set.
LEMMA SameCardinality ==
  ASSUME NEW r \in Room, NEW S
  PROVE  Life(r)!Cardinality(S) = Cardinality(S)
BY DEF Life!Cardinality, Cardinality, Life!IsFiniteSet, IsFiniteSet

\* An accepted join is Enter: the game starts with the member that fills the
\* roster, which by JoinRefused cannot have been full before.
LEMMA JoinEnters ==
  ASSUME RoomAssumption, TypeOK, EndedInLoop, NEW r \in Room,
         HandleJoin(r), AcceptJoin(r, Head(events[r])),
         ~JoinRefused(r, Head(events[r]).player)
  PROVE  \E p \in Player : Life(r)!Enter(p)
<1>1. PICK p \in Player :
        /\ p \notin players[r] /\ ~gameStarted[r]
        /\ Cardinality(players[r] \cup {p}) \in 0..MaxPlayers
        /\ players' = [players EXCEPT ![r] = players[r] \cup {p}]
  BY AcceptAdds, RoomAssumption
<1>2. players'[r] = players[r] \cup {p}
  BY <1>1 DEF TypeOK
<1>3. loop[r] = "running" /\ ~gameEnded[r]
  BY DEF HandleJoin, Takes, EndedInLoop
<1>4. UNCHANGED <<loop, gameEnded>>
  BY DEF HandleJoin
<1>5. gameStarted'[r] <=> Cardinality(players'[r]) >= MaxPlayers
  <2>1. players'[r] = players[r] \cup {Head(events[r]).player}
    BY DEF AcceptJoin, TypeOK
  <2>2. gameStarted'[r] =
          (gameStarted[r] \/ StartsGame(r, players[r] \cup {Head(events[r]).player}))
    BY DEF AcceptJoin, TypeOK
  <2> QED
    BY <1>1, <2>1, <2>2 DEF StartsGame
<1>6. Cardinality(players'[r]) >= MaxPlayers
        <=> Cardinality(players[r] \cup {p}) = MaxPlayers
  <2>1. \A n \in 0..MaxPlayers : n >= MaxPlayers <=> n = MaxPlayers
    BY RoomAssumption DEF RoomAssumption
  <2>2. Cardinality(players'[r]) = Cardinality(players[r] \cup {p})
    BY <1>2
  <2>3. Cardinality(players[r] \cup {p}) \in 0..MaxPlayers
    BY <1>1
  <2> QED
    BY <2>1, <2>2, <2>3
<1>7. Phase(r) = "waiting"
  BY <1>1, <1>3, PhaseIs
<1>8. Phase(r)' = IF Cardinality(players[r] \cup {p}) = MaxPlayers
                  THEN "playing" ELSE "waiting"
  BY <1>3, <1>4, <1>5, <1>6, PhaseIsNext
<1> QED
  BY <1>1, <1>2, <1>7, <1>8, SameCardinality DEF Life!Enter

\* A leave is Quit, or nothing when the player is no member.
LEMMA LeaveQuits ==
  ASSUME RoomAssumption, TypeOK, EndedInLoop, NEW r \in Room, HandleLeave(r)
  PROVE  \/ \E p \in Player : Life(r)!Quit(p)
         \/ UNCHANGED <<Phase(r), players[r]>>
<1>1. loop[r] = "running" /\ ~gameEnded[r]
  BY DEF HandleLeave, Takes, EndedInLoop
<1>2. UNCHANGED <<loop, gameStarted, gameEnded>>
  BY DEF HandleLeave
<1>3. Phase(r)' = Phase(r)
  BY <1>2, SamePhase
<1>4. Phase(r) \in {"waiting", "playing"}
  BY <1>1, PhaseIs
<1>5. CASE UNCHANGED players
  BY <1>3, <1>5
<1>6. CASE \E p \in players[r] : players' = [players EXCEPT ![r] = players[r] \ {p}]
  <2>1. PICK p \in players[r] : players' = [players EXCEPT ![r] = players[r] \ {p}]
    BY <1>6
  <2>2. p \in Player /\ players'[r] = players[r] \ {p}
    BY <2>1 DEF TypeOK
  <2> QED
    BY <1>3, <1>4, <2>1, <2>2 DEF Life!Quit
<1> QED
  BY <1>5, <1>6, LeaveRemoves, RoomAssumption

\* The tick that ends the game is TimeUp, any other one nothing.
LEMMA TickEnds ==
  ASSUME RoomAssumption, TypeOK, EndedInLoop, NEW r \in Room, Tick(r)
  PROVE  Life(r)!TimeUp \/ UNCHANGED <<Phase(r), players[r]>>
<1> DEFINE left == IF remaining[r] > 0 THEN remaining[r] - 1 ELSE 0
           ends == ShouldFinish(r, left)
<1>1. /\ loop[r] = "running" /\ gameStarted[r] /\ ~gameEnded[r]
      /\ gameEnded' = [gameEnded EXCEPT ![r] = ends]
      /\ loop' = [loop EXCEPT ![r] = IF ends THEN "finishing" ELSE @]
      /\ UNCHANGED <<players, gameStarted>>
  BY DEF Tick
<1>2. ends \in BOOLEAN
  BY DEF ShouldFinish
<1> HIDE DEF ends
<1>3. gameEnded'[r] = ends /\ loop'[r] \in {"running", "finishing"}
  BY <1>1 DEF TypeOK
<1>4. Phase(r) = "playing"
  BY <1>1, PhaseIs
<1>5. Phase(r)' = IF ends THEN "over" ELSE "playing"
  BY <1>1, <1>2, <1>3, PhaseIsNext
<1> QED
  BY <1>1, <1>2, <1>4, <1>5 DEF Life!TimeUp

\* The end of the goroutine is Abort, unless its game is over.
LEMMA ExitAborts ==
  ASSUME RoomAssumption, TypeOK, EndedInLoop, NEW r \in Room,
         Start(r) \/ FinishExit(r) \/ StopExit(r)
  PROVE  Life(r)!Abort \/ UNCHANGED <<Phase(r), players[r]>>
<1>1. UNCHANGED <<players, gameStarted, gameEnded>>
  BY DEF Start, FinishExit, StopExit
<1>2. CASE Start(r)
  <2>1. loop[r] = "none" /\ loop'[r] = "running" /\ ~gameEnded[r]
    BY <1>2 DEF Start, TypeOK, EndedInLoop
  <2>2. Phase(r)' = Phase(r)
    BY <1>1, <2>1, PhaseIs, PhaseIsNext
  <2> QED
    BY <1>1, <2>2
<1>3. CASE FinishExit(r)
  <2>1. gameEnded[r]
    BY <1>3 DEF FinishExit, EndedInLoop
  <2>2. Phase(r)' = Phase(r)
    BY <1>1, <2>1, PhaseIs, PhaseIsNext
  <2> QED
    BY <1>1, <2>2
<1>4. CASE StopExit(r)
  <2>1. loop[r] = "running" /\ loop'[r] = "exited" /\ ~gameEnded[r]
    BY <1>4 DEF StopExit, TypeOK, EndedInLoop
  <2>2. Phase(r) \in {"waiting", "playing"} /\ Phase(r)' = "aborted"
    BY <1>1, <2>1, PhaseIs, PhaseIsNext
  <2> QED
    BY <1>1, <2>2 DEF Life!Abort
<1> QED
  BY <1>2, <1>3, <1>4

\* Every step of the room is a step of every Game or none of it.
GameStep == \A r \in Room : Life(r)!Next \/ UNCHANGED <<Phase(r), players[r]>>

LEMMA StepImplements ==
  ASSUME RoomAssumption, TypeOK, EndedInLoop, [Next]_vars
  PROVE  GameStep
<1>1. CASE UNCHANGED observed
  <2> SUFFICES ASSUME NEW q \in Room PROVE UNCHANGED <<Phase(q), players[q]>>
    BY DEF GameStep
  <2>1. UNCHANGED <<loop, players, gameStarted, gameEnded>>
    BY <1>1 DEF observed
  <2> QED
    BY <2>1, SamePhase
<1>2. ASSUME NEW r \in Room, Moves(r)
      PROVE  GameStep
  <2>1. ASSUME NEW q \in Room \ {r}
        PROVE  UNCHANGED <<Phase(q), players[q]>>
    BY <1>2, MovesOne, SamePhase, RoomAssumption
  <2>2. Life(r)!Next \/ UNCHANGED <<Phase(r), players[r]>>
    <3>1. CASE HandleLeave(r)
      BY <3>1, LeaveQuits, RoomAssumption DEF Life!Next
    <3>2. CASE Tick(r)
      BY <3>2, TickEnds, RoomAssumption DEF Life!Next
    <3>3. CASE Start(r) \/ FinishExit(r) \/ StopExit(r)
      BY <3>3, ExitAborts, RoomAssumption DEF Life!Next
    <3>4. CASE /\ HandleJoin(r)
               /\ AcceptJoin(r, Head(events[r]))
               /\ ~JoinRefused(r, Head(events[r]).player)
      BY <3>4, JoinEnters, RoomAssumption DEF Life!Next
    <3> QED
      BY <1>2, <3>1, <3>2, <3>3, <3>4 DEF Moves
  <2> QED
    BY <2>1, <2>2 DEF GameStep
<1> QED
  BY <1>1, <1>2, PhaseWriters

-----------------------------------------------------------------------------
\* A room of any number of seats, with any number of callers in any interleaving,
\* plays the Game it promises: players gather, the game starts at the very moment
\* the roster is full, nobody enters it later, and it ends by its time or is
\* aborted once (handleJoinEvent, handleLeave, update, finishGame, loop).
THEOREM RoomImplementsGame == Spec => ImplementsGame
<1>1. Init => EndedInLoop
  BY DEF Init, EndedInLoop
<1>2. TypeOK /\ EndedInLoop /\ [Next]_vars => EndedInLoop'
  BY RoomAssumption, EndedInLoopStep
<1>3. Spec => []EndedInLoop
  BY <1>1, <1>2, TypeCorrect, PTL DEF Spec
<1>4. TypeOK /\ EndedInLoop /\ [Next]_vars => [GameStep]_vars
  BY RoomAssumption, StepImplements
<1>5. Spec => [][GameStep]_vars
  BY <1>3, <1>4, TypeCorrect, PTL DEF Spec
<1>6. Init => \A r \in Room : Life(r)!Init
  <2> SUFFICES ASSUME Init, NEW r \in Room PROVE Life(r)!Init
    OBVIOUS
  <2>1. Phase(r) = "waiting" /\ players[r] = {}
    BY PhaseIs DEF Init
  <2> QED
    BY <2>1 DEF Life!Init
<1>7. ImplementsGame <=> (\A r \in Room : Life(r)!Init) /\ [][GameStep]_vars
  BY DEF ImplementsGame, GameStep
<1> HIDE DEF ImplementsGame
<1> QED
  BY <1>5, <1>6, <1>7, PTL DEF Spec
=============================================================================
