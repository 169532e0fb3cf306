------------------------------ MODULE Matcher ------------------------------
(***************************************************************************)
(* The allocator of matchserver/logic/matcher.go: a request for a player    *)
(* and a mode gets a seat in a room of that mode, reserved for tokenExpire. *)
(* AllocateRoom reads the clock before it takes the lock, so requests come  *)
(* into the critical section with clocks of different age.                  *)
(*                                                                         *)
(* A room id is random in the code (newRoomID), so it is new; here ids are  *)
(* 1, 2, ... in the order the rooms are made, which is also the order of a  *)
(* server's list of rooms.  Of a room token only its last second is kept:   *)
(* what else it says, its player, room and server, is the reservation's.    *)
(* A restart of the match server loses everything but the ids it gave out.  *)
(***************************************************************************)
EXTENDS Integers, FiniteSets

CONSTANTS Request,      \* requests of matchserver clients, each served at most once
          Player, Mode,
          NumServers,   \* servers, in the order of the configuration
          MaxRooms,     \* maxRooms of a server
          MaxPlayers,   \* maxPlayersPerRoom of a server
          Expire,       \* tokenExpire
          Second,       \* readings of the clock in a second, the unit of a token's time
          MaxLives,     \* bound of the model: restarts of the match server
          MaxTime,      \* bound of the model: the last reading of the clock
          NumIDs,       \* bound of the model: rooms ever made
          None          \* nil

ASSUME MatcherAssumption ==
  /\ IsFiniteSet(Player)
  /\ NumServers \in Nat \ {0}
  /\ MaxRooms \in Nat \ {0}
  /\ MaxPlayers \in Nat \ {0}
  /\ Expire \in Nat \ {0}
  /\ Second \in Nat \ {0}
  /\ MaxLives \in Nat
  /\ MaxTime \in Nat
  /\ NumIDs \in Nat
  /\ None \notin Nat
  /\ None \notin [room : Nat, expireAt : Int, exp : Int]

Server == 1..NumServers
RoomID == 1..NumIDs
Key == Player \X Mode

VARIABLES
  clock,         \* time.Now
  request,       \* what each request is at, with the clock it has read
  rooms,         \* serverState.rooms
  mode,          \* roomState.mode of the rooms made so far
  seats,         \* keys of roomState.reservations
  reservations,  \* Matcher.reservations: room, expireAt and roomToken of each key
  made,          \* rooms made so far
  life           \* restarts of the match server so far

vars == <<clock, request, rooms, mode, seats, reservations, made, life>>

\* reservationState; exp is the last second of its token.
Reservation ==
  [room : RoomID, expireAt : Expire..(MaxTime + Expire), exp : 0..(MaxTime + Expire)]

TypeOK ==
  /\ clock \in 0..MaxTime
  /\ request \in [Request -> [at : {"new", "full", "error"}]
                    \cup [at : {"begun"}, key : Key, now : 0..MaxTime]
                    \cup [at : {"done"}, key : Key, seat : Reservation, life : 0..MaxLives]]
  /\ rooms \in [Server -> SUBSET RoomID]
  /\ mode \in [RoomID -> Mode \cup {None}]
  /\ seats \in [RoomID -> SUBSET Key]
  /\ reservations \in [Key -> Reservation \cup {None}]
  /\ made \in 0..NumIDs
  /\ life \in 0..MaxLives

Init ==
  /\ clock = 0
  /\ request = [q \in Request |-> [at |-> "new"]]
  /\ rooms = [s \in Server |-> {}]
  /\ mode = [r \in RoomID |-> None]
  /\ seats = [r \in RoomID |-> {}]
  /\ reservations = [k \in Key |-> None]
  /\ made = 0
  /\ life = 0

Advance ==
  /\ clock < MaxTime
  /\ clock' = clock + 1
  /\ UNCHANGED <<request, rooms, mode, seats, reservations, made, life>>

\* AllocateRoom before the lock.
Begin(q, k) ==
  /\ request[q].at = "new"
  /\ request' = [request EXCEPT ![q] = [at |-> "begun", key |-> k, now |-> clock]]
  /\ UNCHANGED <<clock, rooms, mode, seats, reservations, made, life>>

\* NewMatcher, after the match server went down: calls that were under way fail.
Restart ==
  /\ life < MaxLives
  /\ life' = life + 1
  /\ request' = [q \in Request |->
       IF request[q].at = "begun" THEN [at |-> "error"] ELSE request[q]]
  /\ rooms' = [s \in Server |-> {}]
  /\ seats' = [r \in RoomID |-> {}]
  /\ reservations' = [k \in Key |-> None]
  /\ UNCHANGED <<clock, mode, made>>

-----------------------------------------------------------------------------
(* Room tokens (pkg/roomtoken): their time is in seconds, cut off.          *)

\* Generate: ExpiresAt of a token signed now.
TokenExp == (clock + Expire) \div Second

ParsesMutant(exp) == clock \div Second < exp
\* Parse accepts a token during its last second.
Parses(exp) == clock \div Second <= exp

-----------------------------------------------------------------------------
(* The critical section.  It first purges: what follows is in terms of the *)
(* state after the purge with clock reading t.                             *)

ExpiredMutant(k, t) == reservations[k] # None /\ reservations[k].expireAt <= t + 1
Expired(k, t) == reservations[k] # None /\ reservations[k].expireAt <= t

\* purgeExpiredReservations.
KeptReservations(t) == [k \in Key |-> IF Expired(k, t) THEN None ELSE reservations[k]]

KeptSeatsMutant(t) == seats
KeptSeats(t) ==
  [r \in RoomID |->
     seats[r] \ {k \in Key : Expired(k, t) /\ reservations[k].room = r}]

\* pruneEmptyRooms.
KeptRooms(t) == [s \in Server |-> {r \in rooms[s] : KeptSeats(t)[r] # {}}]

AvailableMutant(s, m, t) ==
  {r \in KeptRooms(t)[s] : /\ mode[r] = m
                           /\ Cardinality(KeptSeats(t)[r]) <= MaxPlayers}
AvailableIfEmpty(s, m, t) ==
  {r \in KeptRooms(t)[s] : /\ mode[r] = m
                           /\ Cardinality(KeptSeats(t)[r]) < MaxPlayers - 1}
\* findAvailableRoom takes the first of these in the server's list.
Available(s, m, t) ==
  {r \in KeptRooms(t)[s] : /\ mode[r] = m
                           /\ Cardinality(KeptSeats(t)[r]) < MaxPlayers}

\* Server s can take a player of mode m: a seat is free, or a room can be made.
CanMake(s, t) == Cardinality(KeptRooms(t)[s]) < MaxRooms
CanTake(s, m, t) == Available(s, m, t) # {} \/ CanMake(s, t)

\* The server that allocateLocked settles on.
FirstServer(s, m, t) ==
  CanTake(s, m, t) /\ \A u \in 1..(s - 1) : ~CanTake(u, m, t)

Locked(q) == request[q].at = "begun"

\* toAllocateResult.
Told(k, seat) == [at |-> "done", key |-> k, seat |-> seat, life |-> life]

\* A live reservation is answered again.
Reuse(q) ==
  LET k == request[q].key
      t == request[q].now
  IN /\ Locked(q)
     /\ KeptReservations(t)[k] # None
     /\ request' = [request EXCEPT ![q] = Told(k, reservations[k])]
     /\ reservations' = KeptReservations(t)
     /\ seats' = KeptSeats(t)
     /\ rooms' = KeptRooms(t)
     /\ UNCHANGED <<clock, mode, made, life>>

\* The seat is entered in the room and in the index.
Reserve(q, r) ==
  LET k == request[q].key
      t == request[q].now
      seat == [room |-> r, expireAt |-> t + Expire, exp |-> TokenExp]
  IN /\ reservations' = [KeptReservations(t) EXCEPT ![k] = seat]
     /\ seats' = [KeptSeats(t) EXCEPT ![r] = @ \cup {k}]
     /\ request' = [request EXCEPT ![q] = Told(k, seat)]

\* Signing the token fails: nothing is reserved (a new room stays, empty).
SignFails(q) ==
  /\ reservations' = KeptReservations(request[q].now)
  /\ seats' = KeptSeats(request[q].now)
  /\ request' = [request EXCEPT ![q] = [at |-> "error"]]

NeedsSeat(q) == Locked(q) /\ KeptReservations(request[q].now)[request[q].key] = None

\* A seat in the first available room of the first server that has one.
Join(q, s) ==
  LET m == request[q].key[2]
      t == request[q].now
  IN /\ NeedsSeat(q)
     /\ FirstServer(s, m, t)
     /\ \E r \in Available(s, m, t) :
          /\ \A u \in Available(s, m, t) : r <= u
          /\ Reserve(q, r) \/ SignFails(q)
     /\ rooms' = KeptRooms(t)
     /\ UNCHANGED <<clock, mode, made, life>>

\* newRoomID.
NewID == made + 1

\* A seat in a room made for it.
Make(q, s) ==
  LET m == request[q].key[2]
      t == request[q].now
      r == NewID
  IN /\ NeedsSeat(q)
     /\ FirstServer(s, m, t)
     /\ Available(s, m, t) = {}
     /\ made < NumIDs
     /\ Reserve(q, r) \/ SignFails(q)
     /\ rooms' = [KeptRooms(t) EXCEPT ![s] = @ \cup {r}]
     /\ mode' = [mode EXCEPT ![r] = m]
     /\ made' = made + 1
     /\ UNCHANGED <<clock, life>>

\* No server can take the player, or no room id could be made.
Refuse(q) ==
  LET m == request[q].key[2]
      t == request[q].now
  IN /\ NeedsSeat(q)
     /\ \/ /\ \A s \in Server : ~CanTake(s, m, t)
           /\ request' = [request EXCEPT ![q] = [at |-> "full"]]
        \/ /\ \E s \in Server : FirstServer(s, m, t) /\ Available(s, m, t) = {}
           /\ request' = [request EXCEPT ![q] = [at |-> "error"]]
     /\ reservations' = KeptReservations(t)
     /\ seats' = KeptSeats(t)
     /\ rooms' = KeptRooms(t)
     /\ UNCHANGED <<clock, mode, made, life>>

Next ==
  \/ Advance
  \/ Restart
  \/ \E q \in Request :
       \/ \E k \in Key : Begin(q, k)
       \/ Reuse(q) \/ Refuse(q)
       \/ \E s \in Server : Join(q, s) \/ Make(q, s)

Spec == Init /\ [][Next]_vars

-----------------------------------------------------------------------------
(* Properties.                                                             *)

Listed == UNION {rooms[s] : s \in Server}

\* No server has more rooms than it may have, and no room more seats reserved
\* than players fit in it, all of them for the room's own mode (findAvailableRoom,
\* createRoom, the two maps that Reserve writes).
SeatsBounded ==
  /\ \A s \in Server : Cardinality(rooms[s]) <= MaxRooms
  /\ \A r \in Listed : /\ Cardinality(seats[r]) <= MaxPlayers
                       /\ \A k \in seats[r] : k[2] = mode[r]

\* The matcher's index and the rooms' own maps agree after every sequence of
\* purges, retries and failures: a key is in the index if and only if it has a
\* seat, in that room and no other, and the room is still listed, by one server.
IndexAgrees ==
  /\ \A k \in Key, r \in RoomID :
       k \in seats[r] <=> reservations[k] # None /\ reservations[k].room = r
  /\ \A r \in RoomID : seats[r] # {} => r \in Listed
  /\ \A s, u \in Server : rooms[s] \cap rooms[u] # {} => s = u

\* The test of repeated matching, for answers instead of calls: what a request was
\* told stays true until the time it was told is up, whatever other requests do, also
\* when they come to the lock with an old reading of the clock.  The seat is the
\* player's reservation still, so asking again gives it again, unless the match
\* server has restarted; and its token is accepted, although it counts in seconds
\* and was signed by a later clock than the reservation's.
ToldHolds ==
  \A q \in Request :
    request[q].at = "done" /\ clock < request[q].seat.expireAt =>
      /\ Parses(request[q].seat.exp)
      /\ request[q].life = life => reservations[request[q].key] = request[q].seat

\* The test of named rooms, as far as allocateLocked keeps it: a room is made on
\* a server only when no room of its mode on that server, or on one before it in
\* the configuration, has a seat left.
SharedByName ==
  [][\A s \in Server : \A r \in rooms'[s] \ rooms[s] :
       \A u \in (UNION {rooms'[v] : v \in 1..s}) \ {r} :
         mode'[u] = mode'[r] => Cardinality(seats'[u]) >= MaxPlayers]_vars
=============================================================================
