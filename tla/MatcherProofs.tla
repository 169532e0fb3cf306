---------------------------- MODULE MatcherProofs ----------------------------
(***************************************************************************)
(* Theorems about the match server, alone (Spec) and in the system of match  *)
(* and room servers (SystemSpec), for any number of players, modes, servers, *)
(* seats, requests and restarts.                                           *)
(***************************************************************************)
EXTENDS System, FiniteSetTheorems, TLAPS

-----------------------------------------------------------------------------
(* The index and the rooms' own maps, as values: S the seats of each room, V *)
(* the reservations and L the rooms of each server.                        *)

Seat == [room : RoomID, expireAt : Int, exp : Int]

Typed(S, V, L) ==
  /\ S \in [RoomID -> SUBSET Key]
  /\ V \in [Key -> Seat \cup {None}]
  /\ L \in [Server -> SUBSET RoomID]

Agrees(S, V, L) ==
  /\ \A k \in Key, r \in RoomID : k \in S[r] <=> V[k] # None /\ V[k].room = r
  /\ \A r \in RoomID : S[r] # {} => \E s \in Server : r \in L[s]
  /\ \A s, u \in Server : L[s] \cap L[u] # {} => s = u

\* Rooms and servers within their limits, md being the mode of each room.
Bounded(S, L, md) ==
  /\ \A s \in Server : IsFiniteSet(L[s]) /\ Cardinality(L[s]) <= MaxRooms
  /\ \A r \in RoomID : /\ IsFiniteSet(S[r]) /\ Cardinality(S[r]) <= MaxPlayers
                       /\ \A k \in S[r] : k[2] = md[r]

Sound(S, V, L, md) == Typed(S, V, L) /\ Agrees(S, V, L) /\ Bounded(S, L, md)

LEMMA SeatIsNotNone ==
  ASSUME MatcherAssumption, NEW seat \in Seat
  PROVE  seat # None
<1>1. RoomID \subseteq Nat
  BY DEF RoomID, MatcherAssumption
<1>2. seat \in [room : Nat, expireAt : Int, exp : Int]
  BY <1>1 DEF Seat
<1> QED
  BY <1>2 DEF MatcherAssumption

\* The purge at the head of the critical section, with any reading of the clock
\* (purgeExpiredReservations, pruneEmptyRooms).
LEMMA PurgeSound ==
  ASSUME MatcherAssumption, Sound(seats, reservations, rooms, mode), NEW t
  PROVE  Sound(KeptSeats(t), KeptReservations(t), KeptRooms(t), mode)
<1> DEFINE S == KeptSeats(t)
           V == KeptReservations(t)
           L == KeptRooms(t)
<1>0. Typed(seats, reservations, rooms) /\ Agrees(seats, reservations, rooms)
        /\ Bounded(seats, rooms, mode)
  BY DEF Sound
<1>1. Typed(S, V, L)
  BY <1>0 DEF Typed, KeptSeats, KeptReservations, KeptRooms
<1>2. \A r \in RoomID : S[r] \subseteq seats[r]
  BY DEF KeptSeats
<1>3. \A s \in Server : L[s] \subseteq rooms[s]
  BY DEF KeptRooms
<1>4. Agrees(S, V, L)
  <2>1. ASSUME NEW k \in Key, NEW r \in RoomID
        PROVE  k \in S[r] <=> V[k] # None /\ V[k].room = r
    <3>1. k \in seats[r] <=> reservations[k] # None /\ reservations[k].room = r
      BY <1>0 DEF Agrees
    <3> QED
      BY <3>1 DEF KeptSeats, KeptReservations, Expired
  <2>2. ASSUME NEW r \in RoomID, S[r] # {}
        PROVE  \E s \in Server : r \in L[s]
    <3>1. PICK s \in Server : r \in rooms[s]
      BY <1>0, <1>2, <2>2 DEF Agrees
    <3> QED
      BY <2>2, <3>1 DEF KeptRooms
  <2>3. \A s, u \in Server : L[s] \cap L[u] # {} => s = u
    BY <1>0, <1>3 DEF Agrees
  <2> QED
    BY <2>1, <2>2, <2>3 DEF Agrees
<1>5. Bounded(S, L, mode)
  <2>1. ASSUME NEW s \in Server
        PROVE  IsFiniteSet(L[s]) /\ Cardinality(L[s]) <= MaxRooms
    <3>1. IsFiniteSet(rooms[s]) /\ Cardinality(rooms[s]) <= MaxRooms
      BY <1>0 DEF Bounded
    <3>2. IsFiniteSet(L[s]) /\ Cardinality(L[s]) <= Cardinality(rooms[s])
      BY <1>3, <3>1, FS_Subset
    <3>3. Cardinality(L[s]) \in Nat /\ Cardinality(rooms[s]) \in Nat
      BY <3>1, <3>2, FS_CardinalityType
    <3> QED
      BY <3>1, <3>2, <3>3 DEF MatcherAssumption
  <2>2. ASSUME NEW r \in RoomID
        PROVE  /\ IsFiniteSet(S[r]) /\ Cardinality(S[r]) <= MaxPlayers
               /\ \A k \in S[r] : k[2] = mode[r]
    <3>1. /\ IsFiniteSet(seats[r]) /\ Cardinality(seats[r]) <= MaxPlayers
          /\ \A k \in seats[r] : k[2] = mode[r]
      BY <1>0 DEF Bounded
    <3>2. IsFiniteSet(S[r]) /\ Cardinality(S[r]) <= Cardinality(seats[r])
      BY <1>2, <3>1, FS_Subset
    <3>3. Cardinality(S[r]) \in Nat /\ Cardinality(seats[r]) \in Nat
      BY <3>1, <3>2, FS_CardinalityType
    <3> QED
      BY <1>2, <3>1, <3>2, <3>3 DEF MatcherAssumption
  <2> QED
    BY <2>1, <2>2 DEF Bounded
<1> QED
  BY <1>1, <1>4, <1>5 DEF Sound

\* A seat for key k in a listed room r of its mode that has one left: the two
\* writes of Reserve, seen as one.
LEMMA ReserveSound ==
  ASSUME MatcherAssumption, NEW S, NEW V, NEW L, NEW md, Sound(S, V, L, md),
         NEW k \in Key, V[k] = None, NEW r \in RoomID,
         \E s \in Server : r \in L[s],
         Cardinality(S[r]) < MaxPlayers, md[r] = k[2],
         NEW seat \in Seat, seat.room = r
  PROVE  Sound([S EXCEPT ![r] = @ \cup {k}], [V EXCEPT ![k] = seat], L, md)
<1> DEFINE T == [S EXCEPT ![r] = @ \cup {k}]
           W == [V EXCEPT ![k] = seat]
<1>0. Typed(S, V, L) /\ Agrees(S, V, L) /\ Bounded(S, L, md)
  BY DEF Sound
<1>1. Typed(T, W, L)
  BY <1>0 DEF Typed
<1>2. seat # None
  BY SeatIsNotNone
<1>3. /\ \A u \in RoomID : T[u] = IF u = r THEN S[r] \cup {k} ELSE S[u]
      /\ \A l \in Key : W[l] = IF l = k THEN seat ELSE V[l]
  BY <1>0 DEF Typed
<1> HIDE DEF T, W
<1>4. Agrees(T, W, L)
  <2>1. \A l \in Key, u \in RoomID : l \in T[u] <=> W[l] # None /\ W[l].room = u
    BY <1>0, <1>2, <1>3 DEF Agrees
  <2>2. \A u \in RoomID : T[u] # {} => \E s \in Server : u \in L[s]
    BY <1>0, <1>3 DEF Agrees
  <2> QED
    BY <1>0, <2>1, <2>2 DEF Agrees
<1>5. Bounded(T, L, md)
  <2>1. IsFiniteSet(S[r]) /\ \A l \in S[r] : l[2] = md[r]
    BY <1>0 DEF Bounded
  <2>2. /\ IsFiniteSet(S[r] \cup {k})
        /\ Cardinality(S[r] \cup {k}) \in {Cardinality(S[r]), Cardinality(S[r]) + 1}
    BY <2>1, FS_AddElement
  <2>3. Cardinality(S[r] \cup {k}) <= MaxPlayers
    BY <2>1, <2>2, FS_CardinalityType DEF MatcherAssumption
  <2>4. \A u \in RoomID : /\ IsFiniteSet(T[u]) /\ Cardinality(T[u]) <= MaxPlayers
                          /\ \A l \in T[u] : l[2] = md[u]
    BY <1>0, <1>3, <2>1, <2>2, <2>3 DEF Bounded
  <2> QED
    BY <1>0, <2>4 DEF Bounded
<1> QED
  BY <1>1, <1>4, <1>5 DEF Sound, T, W

\* A room r that is new, on a server s that can take one more.
LEMMA MakeSound ==
  ASSUME MatcherAssumption, NEW S, NEW V, NEW L, NEW md, Sound(S, V, L, md),
         NEW s \in Server, NEW r \in RoomID,
         \A u \in Server : r \notin L[u],
         Cardinality(L[s]) < MaxRooms,
         NEW M \in [Server -> SUBSET RoomID],
         \A u \in Server : M[u] = IF u = s THEN L[s] \cup {r} ELSE L[u],
         NEW nd, \A u \in RoomID \ {r} : nd[u] = md[u]
  PROVE  Sound(S, V, M, nd) /\ S[r] = {}
<1>0. Typed(S, V, L) /\ Agrees(S, V, L) /\ Bounded(S, L, md)
  BY DEF Sound
<1>1. Typed(S, V, M)
  BY <1>0 DEF Typed
<1>2. \A u \in Server : M[u] = IF u = s THEN L[s] \cup {r} ELSE L[u]
  OBVIOUS
<1>3. S[r] = {}
  BY <1>0 DEF Agrees
<1>4. \A u \in RoomID \ {r} : nd[u] = md[u]
  OBVIOUS
<1>5. Agrees(S, V, M)
  <2>1. \A u, w \in Server : M[u] \cap M[w] # {} => u = w
    BY <1>0, <1>2 DEF Agrees
  <2>2. \A u \in Server : L[u] \subseteq M[u]
    BY <1>2
  <2> QED
    BY <1>0, <2>1, <2>2 DEF Agrees
<1>6. Bounded(S, M, nd)
  <2>1. IsFiniteSet(L[s])
    BY <1>0 DEF Bounded
  <2>2. /\ IsFiniteSet(L[s] \cup {r})
        /\ Cardinality(L[s] \cup {r}) \in {Cardinality(L[s]), Cardinality(L[s]) + 1}
    BY <2>1, FS_AddElement
  <2>3. Cardinality(L[s] \cup {r}) <= MaxRooms
    BY <2>1, <2>2, FS_CardinalityType DEF MatcherAssumption
  <2> QED
    BY <1>0, <1>2, <1>3, <1>4, <2>2, <2>3 DEF Bounded
<1> QED
  BY <1>1, <1>3, <1>5, <1>6 DEF Sound

-----------------------------------------------------------------------------
(* The inductive invariant.                                                *)

\* What a request has read or was told: its clock is not ahead of time, and what it
\* was told in this life of the match server is its reservation until it expires.
RequestSound(q) ==
  /\ request[q].at = "begun" =>
       request[q].key \in Key /\ request[q].now \in Nat /\ request[q].now <= clock
  /\ request[q].at = "done" =>
       /\ request[q].key \in Key
       /\ request[q].seat \in Seat
       /\ request[q].life \in Nat /\ request[q].life <= life
       /\ request[q].life = life /\ clock < request[q].seat.expireAt =>
            reservations[request[q].key] = request[q].seat

MatcherInv ==
  /\ Sound(seats, reservations, rooms, mode)
  /\ clock \in Nat /\ life \in Nat /\ made \in Nat
  /\ DOMAIN mode = RoomID
  /\ \A s \in Server : \A r \in rooms[s] : r <= made
  /\ DOMAIN request = Request
  /\ \A q \in Request : RequestSound(q)

LEMMA MatcherInit == ASSUME MatcherAssumption, Init PROVE MatcherInv
<1>1. Typed(seats, reservations, rooms)
  BY DEF Init, Typed
<1>2. Agrees(seats, reservations, rooms)
  BY DEF Init, Agrees
<1>3. Bounded(seats, rooms, mode)
  BY FS_EmptySet DEF Init, Bounded, MatcherAssumption
<1> QED
  BY <1>1, <1>2, <1>3 DEF Init, Sound, MatcherInv, RequestSound

\* A reservation told to request q stays what it is under a purge whose clock reading
\* is not ahead of time.
LEMMA PurgeKeepsTold ==
  ASSUME MatcherInv, NEW q \in Request, NEW t \in Nat, t <= clock,
         request[q].at = "done", request[q].life = life,
         clock < request[q].seat.expireAt
  PROVE  KeptReservations(t)[request[q].key] = request[q].seat
<1>1. /\ request[q].key \in Key /\ request[q].seat \in Seat
      /\ reservations[request[q].key] = request[q].seat
  BY DEF MatcherInv, RequestSound
<1>2. clock \in Nat /\ request[q].seat.expireAt \in Int
  BY <1>1 DEF MatcherInv, Seat
<1>3. ~Expired(request[q].key, t)
  BY <1>1, <1>2 DEF Expired
<1> QED
  BY <1>1, <1>3 DEF KeptReservations

\* What the critical section does, whoever runs it: purge, then one of these.  The
\* request q that holds the lock gets its answer w.
LEMMA SectionStep ==
  ASSUME MatcherAssumption, MatcherInv, NEW q \in Request, NEW t \in Nat, t <= clock,
         Sound(seats', reservations', rooms', mode'),
         DOMAIN mode' = RoomID, made' \in Nat,
         \A s \in Server : \A r \in rooms'[s] : r <= made',
         UNCHANGED <<clock, life>>,
         NEW w, request' = [request EXCEPT ![q] = w],
         w.at # "begun",
         w.at = "done" => /\ w.key \in Key /\ w.seat \in Seat /\ w.life = life
                          /\ reservations'[w.key] = w.seat,
         \A k \in Key : \/ reservations'[k] = KeptReservations(t)[k]
                        \/ KeptReservations(t)[k] = None
  PROVE  MatcherInv'
<1>1. DOMAIN request' = Request /\ request'[q] = w
      /\ \A u \in Request \ {q} : request'[u] = request[u]
  BY DEF MatcherInv
<1>2. RequestSound(q)'
  BY <1>1 DEF MatcherInv, RequestSound
<1>3. ASSUME NEW u \in Request \ {q}
      PROVE  RequestSound(u)'
  <2>1. request'[u] = request[u] /\ RequestSound(u)
    BY <1>1 DEF MatcherInv
  <2>2. CASE /\ request[u].at = "done" /\ request[u].life = life
             /\ clock < request[u].seat.expireAt
    <3>1. KeptReservations(t)[request[u].key] = request[u].seat
      BY <2>2, PurgeKeepsTold
    <3>2. request[u].key \in Key /\ request[u].seat \in Seat
      BY <2>1, <2>2 DEF RequestSound
    <3>3. request[u].seat # None
      BY <3>2, SeatIsNotNone
    <3> QED
      BY <2>1, <2>2, <3>1, <3>2, <3>3 DEF RequestSound
  <2>3. CASE ~(/\ request[u].at = "done" /\ request[u].life = life
               /\ clock < request[u].seat.expireAt)
    BY <2>1, <2>3 DEF RequestSound
  <2> QED
    BY <2>2, <2>3
<1> QED
  BY <1>1, <1>2, <1>3 DEF MatcherInv

-----------------------------------------------------------------------------
(* Each action of the critical section.                                    *)

\* A request that holds the lock.
LEMMA LockedTypes ==
  ASSUME MatcherInv, NEW q \in Request, Locked(q)
  PROVE  /\ request[q].key \in Key /\ request[q].key[2] \in Mode
         /\ request[q].now \in Nat /\ request[q].now <= clock
<1>1. request[q].key \in Key /\ request[q].now \in Nat /\ request[q].now <= clock
  BY DEF Locked, MatcherInv, RequestSound
<1> QED
  BY <1>1 DEF Key

LEMMA KeptRoomsMade ==
  ASSUME MatcherInv, NEW t
  PROVE  \A s \in Server : \A r \in KeptRooms(t)[s] : r <= made
BY DEF MatcherInv, KeptRooms

LEMMA ReuseKeeps ==
  ASSUME MatcherAssumption, MatcherInv, NEW q \in Request, Reuse(q)
  PROVE  MatcherInv'
<1> DEFINE k == request[q].key
           t == request[q].now
           w == Told(k, reservations[k])
<1>1. k \in Key /\ t \in Nat /\ t <= clock
  BY LockedTypes DEF Reuse
<1>2. Sound(KeptSeats(t), KeptReservations(t), KeptRooms(t), mode)
  BY PurgeSound DEF MatcherInv
<1>3. /\ reservations' = KeptReservations(t) /\ seats' = KeptSeats(t)
      /\ rooms' = KeptRooms(t) /\ UNCHANGED <<clock, mode, made, life>>
      /\ request' = [request EXCEPT ![q] = w]
      /\ KeptReservations(t)[k] # None
  BY DEF Reuse
<1>4. KeptReservations(t)[k] = reservations[k] /\ reservations[k] \in Seat
  BY <1>1, <1>3 DEF KeptReservations, MatcherInv, Sound, Typed
<1>5. w.at = "done" /\ w.key = k /\ w.seat = reservations[k] /\ w.life = life
  BY DEF Told
<1>6. Sound(seats', reservations', rooms', mode')
  BY <1>2, <1>3
<1>7. DOMAIN mode' = RoomID /\ made' \in Nat
      /\ \A s \in Server : \A r \in rooms'[s] : r <= made'
  BY <1>3, KeptRoomsMade DEF MatcherInv
<1> HIDE DEF k, t, w
<1> QED
  BY <1>1, <1>3, <1>4, <1>5, <1>6, <1>7, SectionStep, MatcherAssumption

\* The answers that give no seat.
LEMMA RefuseKeeps ==
  ASSUME MatcherAssumption, MatcherInv, NEW q \in Request, Refuse(q)
  PROVE  MatcherInv'
<1> DEFINE t == request[q].now
<1>1. t \in Nat /\ t <= clock
  BY LockedTypes DEF Refuse, NeedsSeat
<1>2. Sound(KeptSeats(t), KeptReservations(t), KeptRooms(t), mode)
  BY PurgeSound DEF MatcherInv
<1>3. /\ reservations' = KeptReservations(t) /\ seats' = KeptSeats(t)
      /\ rooms' = KeptRooms(t) /\ UNCHANGED <<clock, mode, made, life>>
  BY DEF Refuse
<1>4. PICK w \in {[at |-> "full"], [at |-> "error"]} :
        request' = [request EXCEPT ![q] = w]
  BY DEF Refuse
<1>5. w.at # "begun" /\ w.at # "done"
  BY <1>4
<1>6. Sound(seats', reservations', rooms', mode')
  BY <1>2, <1>3
<1>7. DOMAIN mode' = RoomID /\ made' \in Nat
      /\ \A s \in Server : \A r \in rooms'[s] : r <= made'
  BY <1>3, KeptRoomsMade DEF MatcherInv
<1> HIDE DEF t
<1> QED
  BY <1>1, <1>3, <1>4, <1>5, <1>6, <1>7, SectionStep, MatcherAssumption

\* Reserve or SignFails, once the room r is listed with a seat left in it.
LEMMA SeatGiven ==
  ASSUME MatcherAssumption, MatcherInv, NEW q \in Request, NeedsSeat(q),
         NEW r \in RoomID,
         NEW L, NEW md,
         Sound(KeptSeats(request[q].now), KeptReservations(request[q].now), L, md),
         \E s \in Server : r \in L[s],
         Cardinality(KeptSeats(request[q].now)[r]) < MaxPlayers,
         md[r] = request[q].key[2],
         Reserve(q, r) \/ SignFails(q),
         rooms' = L, mode' = md,
         DOMAIN md = RoomID, made' \in Nat,
         \A s \in Server : \A u \in L[s] : u <= made',
         UNCHANGED <<clock, life>>
  PROVE  MatcherInv'
<1> DEFINE k == request[q].key
           t == request[q].now
           seat == [room |-> r, expireAt |-> t + Expire, exp |-> TokenExp]
<1>1. k \in Key /\ t \in Nat /\ t <= clock
  BY LockedTypes DEF NeedsSeat
<1>2. KeptReservations(t)[k] = None
  BY DEF NeedsSeat
<1>3. CASE SignFails(q)
  <2> DEFINE w == [at |-> "error"]
  <2>1. /\ reservations' = KeptReservations(t) /\ seats' = KeptSeats(t)
        /\ request' = [request EXCEPT ![q] = w]
    BY <1>3 DEF SignFails
  <2>2. Sound(seats', reservations', rooms', mode')
    BY <2>1
  <2>3. w.at # "begun" /\ w.at # "done"
    OBVIOUS
  <2> HIDE DEF w, t
  <2> QED
    BY <1>1, <2>1, <2>2, <2>3, SectionStep, MatcherAssumption
<1>4. CASE Reserve(q, r)
  <2> DEFINE w == Told(k, seat)
  <2>1. /\ reservations' = [KeptReservations(t) EXCEPT ![k] = seat]
        /\ seats' = [KeptSeats(t) EXCEPT ![r] = @ \cup {k}]
        /\ request' = [request EXCEPT ![q] = w]
    BY <1>4 DEF Reserve
  <2>2. seat \in Seat /\ seat.room = r
    <3>1. Expire \in Nat /\ Second \in Nat \ {0} /\ clock \in Nat
      BY DEF MatcherAssumption, MatcherInv
    <3>2. TokenExp \in Int /\ t + Expire \in Int
      BY <1>1, <3>1 DEF TokenExp
    <3> QED
      BY <3>2 DEF Seat
  <2>3. w.at = "done" /\ w.key = k /\ w.seat = seat /\ w.life = life
    BY DEF Told
  <2> HIDE DEF seat, w, k, t
  <2>4. Sound(seats', reservations', rooms', mode')
    BY <1>1, <1>2, <2>1, <2>2, ReserveSound, MatcherAssumption DEF k, t
  <2>5. KeptReservations(t) \in [Key -> Seat \cup {None}]
    BY DEF Sound, Typed, t
  <2>6. reservations'[k] = seat
        /\ \A l \in Key \ {k} : reservations'[l] = KeptReservations(t)[l]
    BY <1>1, <2>1, <2>5
  <2>7. \A l \in Key : \/ reservations'[l] = KeptReservations(t)[l]
                       \/ KeptReservations(t)[l] = None
    BY <1>2, <2>6
  <2> QED
    BY <1>1, <2>1, <2>2, <2>3, <2>4, <2>6, <2>7, SectionStep, MatcherAssumption
<1> QED
  BY <1>3, <1>4

\* A seat in a room that is there (findAvailableRoom).
LEMMA JoinKeeps ==
  ASSUME MatcherAssumption, MatcherInv, NEW q \in Request, NEW s \in Server,
         Join(q, s)
  PROVE  MatcherInv'
<1> DEFINE m == request[q].key[2]
           t == request[q].now
<1>1. PICK r \in Available(s, m, t) : Reserve(q, r) \/ SignFails(q)
  BY DEF Join
<1>2. /\ r \in KeptRooms(t)[s] /\ mode[r] = m
      /\ Cardinality(KeptSeats(t)[r]) < MaxPlayers
  BY <1>1 DEF Available
<1>3. Sound(KeptSeats(t), KeptReservations(t), KeptRooms(t), mode)
  BY PurgeSound DEF MatcherInv
<1>4. r \in RoomID
  BY <1>2, <1>3 DEF Sound, Typed
<1>5. NeedsSeat(q) /\ rooms' = KeptRooms(t) /\ UNCHANGED <<clock, mode, made, life>>
  BY DEF Join
<1>6. made' \in Nat /\ DOMAIN mode = RoomID
      /\ \A u \in Server : \A v \in KeptRooms(t)[u] : v <= made'
  BY <1>5, KeptRoomsMade DEF MatcherInv
<1> QED
  BY <1>1, <1>2, <1>3, <1>4, <1>5, <1>6, SeatGiven, MatcherAssumption

\* A seat in a room made for it (createRoom).
LEMMA MakeKeeps ==
  ASSUME MatcherAssumption, MatcherInv, NEW q \in Request, NEW s \in Server,
         Make(q, s)
  PROVE  MatcherInv'
<1> DEFINE m == request[q].key[2]
           t == request[q].now
           r == NewID
           L == [KeptRooms(t) EXCEPT ![s] = @ \cup {r}]
           md == [mode EXCEPT ![r] = m]
<1>1. Sound(KeptSeats(t), KeptReservations(t), KeptRooms(t), mode)
  BY PurgeSound DEF MatcherInv
<1>2. /\ NeedsSeat(q)
      /\ Reserve(q, r) \/ SignFails(q)
      /\ rooms' = L /\ mode' = md /\ made' = made + 1 /\ UNCHANGED <<clock, life>>
      /\ made < NumIDs
  BY DEF Make
<1>3. made \in Nat /\ NumIDs \in Nat /\ DOMAIN mode = RoomID
  BY DEF MatcherInv, MatcherAssumption
<1>4. r \in RoomID
  BY <1>2, <1>3 DEF NewID, RoomID
<1>5. \A u \in Server : \A v \in KeptRooms(t)[u] : v \in Nat /\ v <= made
  <2>1. RoomID \subseteq Nat
    BY DEF RoomID
  <2> QED
    BY <1>1, <2>1, KeptRoomsMade DEF Sound, Typed
<1>6. \A u \in Server : r \notin KeptRooms(t)[u]
  BY <1>3, <1>5 DEF NewID
<1>7. Cardinality(KeptRooms(t)[s]) < MaxRooms
  BY DEF Make, FirstServer, CanTake, CanMake
<1>8. /\ \A u \in Server : L[u] = IF u = s THEN KeptRooms(t)[s] \cup {r}
                                  ELSE KeptRooms(t)[u]
      /\ L \in [Server -> SUBSET RoomID]
  BY <1>1, <1>4 DEF Sound, Typed
<1>9. /\ Sound(KeptSeats(t), KeptReservations(t), L, md)
      /\ KeptSeats(t)[r] = {}
  <2>1. \A u \in RoomID \ {r} : md[u] = mode[u]
    BY <1>3
  <2> HIDE DEF L, md, r
  <2> QED
    BY <1>1, <1>4, <1>6, <1>7, <1>8, <2>1, MakeSound, MatcherAssumption
<1>10. \A u \in Server : \A v \in L[u] : v <= made'
  BY <1>2, <1>3, <1>5, <1>8 DEF NewID
<1>11. Cardinality(KeptSeats(t)[r]) < MaxPlayers
  BY <1>9, FS_EmptySet DEF MatcherAssumption
<1>12. md[r] = m /\ DOMAIN md = RoomID /\ made' \in Nat
  BY <1>2, <1>3, <1>4
<1>13. \E u \in Server : r \in L[u]
  BY <1>8
<1> HIDE DEF L, md, r
<1> QED
  BY <1>2, <1>4, <1>9, <1>10, <1>11, <1>12, <1>13, SeatGiven, MatcherAssumption

\* Outside the critical section.
LEMMA ElsewhereKeeps ==
  ASSUME MatcherAssumption, MatcherInv,
         Advance \/ Restart \/ \E q \in Request, k \in Key : Begin(q, k)
  PROVE  MatcherInv'
<1>1. CASE Advance
  <2>1. clock' = clock + 1 /\ clock \in Nat
        /\ UNCHANGED <<request, rooms, mode, seats, reservations, made, life>>
    BY <1>1 DEF Advance, MatcherInv
  <2>2. ASSUME NEW q \in Request
        PROVE  RequestSound(q)'
    <3>1. RequestSound(q)
      BY DEF MatcherInv
    <3> QED
      BY <2>1, <3>1 DEF RequestSound, Seat
  <2> QED
    BY <2>1, <2>2 DEF MatcherInv
<1>2. CASE Restart
  <2>1. /\ life' = life + 1 /\ life \in Nat
        /\ rooms' = [s \in Server |-> {}] /\ seats' = [r \in RoomID |-> {}]
        /\ reservations' = [k \in Key |-> None]
        /\ UNCHANGED <<clock, mode, made>>
    BY <1>2 DEF Restart, MatcherInv
  <2>2. Typed(seats', reservations', rooms') /\ Agrees(seats', reservations', rooms')
    BY <2>1 DEF Typed, Agrees
  <2>3. Bounded(seats', rooms', mode')
    BY <2>1, FS_EmptySet DEF Bounded, MatcherAssumption
  <2>4. ASSUME NEW q \in Request
        PROVE  RequestSound(q)'
    <3>1. request'[q] = request[q] \/ request'[q] = [at |-> "error"]
      BY <1>2 DEF Restart
    <3>2. CASE request'[q] = request[q] /\ request[q].at # "begun"
      <4>1. RequestSound(q)
        BY DEF MatcherInv
      <4> QED
        BY <2>1, <3>2, <4>1 DEF RequestSound
    <3>3. CASE request'[q] = [at |-> "error"]
      BY <3>3 DEF RequestSound
    <3> QED
      BY <1>2, <3>2, <3>3 DEF Restart
  <2>5. DOMAIN request' = Request
    BY <1>2 DEF Restart
  <2> QED
    BY <2>1, <2>2, <2>3, <2>4, <2>5 DEF MatcherInv, Sound
<1>3. ASSUME NEW q \in Request, NEW k \in Key, Begin(q, k)
      PROVE  MatcherInv'
  <2> DEFINE w == [at |-> "begun", key |-> k, now |-> clock]
  <2>1. /\ request' = [request EXCEPT ![q] = w]
        /\ UNCHANGED <<clock, rooms, mode, seats, reservations, made, life>>
    BY <1>3 DEF Begin
  <2>2. DOMAIN request' = Request /\ request'[q] = w
        /\ \A u \in Request \ {q} : request'[u] = request[u]
    BY <2>1 DEF MatcherInv
  <2>3. RequestSound(q)'
    BY <2>1, <2>2 DEF RequestSound, MatcherInv
  <2>4. ASSUME NEW u \in Request \ {q}
        PROVE  RequestSound(u)'
    <3>1. RequestSound(u)
      BY DEF MatcherInv
    <3> QED
      BY <2>1, <2>2, <3>1 DEF RequestSound
  <2>5. \A u \in Request : RequestSound(u)'
    BY <2>3, <2>4
  <2> QED
    BY <2>1, <2>2, <2>5 DEF MatcherInv
<1> QED
  BY <1>1, <1>2, <1>3

LEMMA MatcherStep ==
  ASSUME MatcherAssumption, MatcherInv, [Next]_vars
  PROVE  MatcherInv'
<1>1. CASE UNCHANGED vars
  BY <1>1 DEF vars, MatcherInv, RequestSound
<1> QED
  BY <1>1, ElsewhereKeeps, ReuseKeeps, RefuseKeeps, JoinKeeps, MakeKeeps,
     MatcherAssumption DEF Next

\* The invariant says what the properties do.
LEMMA MatcherInvImplies ==
  ASSUME MatcherInv
  PROVE  SeatsBounded /\ IndexAgrees
<1>1. Typed(seats, reservations, rooms) /\ Agrees(seats, reservations, rooms)
        /\ Bounded(seats, rooms, mode)
  BY DEF MatcherInv, Sound
<1>2. Listed \subseteq RoomID
  BY <1>1 DEF Listed, Typed
<1>3. SeatsBounded
  BY <1>1, <1>2 DEF SeatsBounded, Bounded
<1>4. IndexAgrees
  BY <1>1 DEF IndexAgrees, Agrees, Listed
<1> QED
  BY <1>3, <1>4

-----------------------------------------------------------------------------
\* What changes nothing in the rooms.
Aside(q) ==
  \/ Lose(q) \/ TokenExpired(q) \/ EntryFails(q) \/ TurnAway(q)
  \/ ReturnSlot(q) \/ JoinFails(q) \/ RefuseJoin(q)

LEMMA AsideKeeps ==
  ASSUME NEW q \in Request, Aside(q)
  PROVE  UNCHANGED vars /\ UNCHANGED host /\ UNCHANGED gameVars
BY DEF Aside, Lose, TokenExpired, EntryFails, TurnAway, ReturnSlot, JoinFails, RefuseJoin

\* A step of the system is one of its match server or leaves it alone.
LEMMA SystemStepsMatcher == SystemNext \/ UNCHANGED systemVars => [Next]_vars
<1>1. ASSUME NEW q \in Request, Serve(q)
      PROVE  [Next]_vars
  BY <1>1 DEF Serve, Next
<1>2. Elsewhere => [Next]_vars
  BY DEF Elsewhere, Next
<1>3. ASSUME NEW q \in Request, Ask(q)
      PROVE  [Next]_vars
  BY <1>3 DEF Ask, Next
<1>4. ASSUME NEW q \in Request, Aside(q) \/ TakeSlot(q) \/ AcceptJoin(q) \/ LeaveRoom(q)
      PROVE  UNCHANGED vars
  BY <1>4, AsideKeeps DEF TakeSlot, AcceptJoin, LeaveRoom
<1>5. ASSUME NEW r \in RoomID, FinishGame(r)
      PROVE  UNCHANGED vars
  BY <1>5 DEF FinishGame
<1>6. ASSUME NEW s \in Server, RoomServerRestart(s)
      PROVE  UNCHANGED vars
  BY <1>6 DEF RoomServerRestart
<1>7. UNCHANGED systemVars => UNCHANGED vars
  BY DEF systemVars
<1> QED
  BY <1>1, <1>2, <1>3, <1>4, <1>5, <1>6, <1>7 DEF SystemNext, Aside

LEMMA MatcherAlwaysSound == SystemSpec => []MatcherInv
<1>1. SystemInit => MatcherInv
  BY MatcherInit, MatcherAssumption DEF SystemInit
<1>2. MatcherInv /\ [SystemNext]_systemVars => MatcherInv'
  BY SystemStepsMatcher, MatcherStep, MatcherAssumption
<1> QED
  BY <1>1, <1>2, PTL DEF SystemSpec

\* The match server never gives out more seats than a room has, nor more rooms than a
\* server has, whatever tokens expire, requests come late or restarts happen
\* (findAvailableRoom, createRoom, purgeExpiredReservations).
THEOREM SeatsAlwaysBounded == SystemSpec => []SeatsBounded
<1>1. MatcherInv => SeatsBounded
  BY MatcherInvImplies
<1> QED
  BY <1>1, MatcherAlwaysSound, PTL

\* The index of reservations and the rooms' own maps never drift apart
\* (allocateLocked, purgeExpiredReservations, pruneEmptyRooms).
THEOREM IndexAlwaysAgrees == SystemSpec => []IndexAgrees
<1>1. MatcherInv => IndexAgrees
  BY MatcherInvImplies
<1> QED
  BY <1>1, MatcherAlwaysSound, PTL

-----------------------------------------------------------------------------
(* Tokens last as long as their reservations.                              *)

\* Whole seconds grow with the time.
LEMMA DivMonotone ==
  ASSUME NEW a \in Nat, NEW b \in Nat, NEW d \in Nat \ {0}, a <= b
  PROVE  a \div d <= b \div d
<1>1. /\ a \div d \in Int /\ b \div d \in Int
  OBVIOUS
<1>2. /\ d * (a \div d) <= a /\ b < d * (b \div d) + d
  OBVIOUS
<1> DEFINE x == a \div d
           y == b \div d
<1>3. SUFFICES ASSUME x > y PROVE FALSE
  BY <1>1
<1> HIDE DEF x, y
<1>4. x >= y + 1 /\ x \in Int /\ y \in Int
  BY <1>1, <1>3 DEF x, y
<1>5. d * x >= d * (y + 1)
  BY <1>4
<1>6. d * (y + 1) = d * y + d
  BY <1>4
<1>7. d * x <= a /\ b < d * y + d /\ d * x \in Int /\ d * y \in Int
  BY <1>2, <1>4 DEF x, y
<1> QED
  BY <1>5, <1>6, <1>7

\* A token's last second is not before the second in which its seat expires.
Lasting(seat) == seat.expireAt \div Second <= seat.exp

TokensLast ==
  /\ \A k \in Key : reservations[k] # None => Lasting(reservations[k])
  /\ \A q \in Request : request[q].at = "done" => Lasting(request[q].seat)

\* A token is signed after the clock of its reservation was read.
LEMMA SignedLasts ==
  ASSUME MatcherAssumption, clock \in Nat, NEW t \in Nat, t <= clock, NEW r
  PROVE  Lasting([room |-> r, expireAt |-> t + Expire, exp |-> TokenExp])
<1>1. Expire \in Nat /\ Second \in Nat \ {0}
  BY DEF MatcherAssumption
<1>2. t + Expire \in Nat /\ clock + Expire \in Nat /\ t + Expire <= clock + Expire
  BY <1>1
<1>3. (t + Expire) \div Second <= (clock + Expire) \div Second
  BY <1>1, <1>2, DivMonotone
<1> QED
  BY <1>3 DEF Lasting, TokenExp

LEMMA PurgeLasts ==
  ASSUME TokensLast, NEW t, NEW k \in Key, KeptReservations(t)[k] # None
  PROVE  Lasting(KeptReservations(t)[k])
BY DEF TokensLast, KeptReservations

\* What Reserve and SignFails write.
LEMMA SeatGivenLasts ==
  ASSUME MatcherAssumption, MatcherInv, TokensLast, NEW q \in Request, NeedsSeat(q),
         NEW r, Reserve(q, r) \/ SignFails(q)
  PROVE  TokensLast'
<1> DEFINE k == request[q].key
           t == request[q].now
           seat == [room |-> r, expireAt |-> t + Expire, exp |-> TokenExp]
<1>1. k \in Key /\ t \in Nat /\ t <= clock /\ clock \in Nat
  BY LockedTypes DEF NeedsSeat, MatcherInv
<1>2. Lasting(seat)
  BY <1>1, SignedLasts, MatcherAssumption
<1>3. \A l \in Key : \/ reservations'[l] = KeptReservations(t)[l]
                     \/ reservations'[l] = seat
  BY <1>1 DEF Reserve, SignFails, KeptReservations
<1>4. \A l \in Key : reservations'[l] # None => Lasting(reservations'[l])
  <2> HIDE DEF seat, t
  <2> QED
    BY <1>2, <1>3, PurgeLasts
<1>5. \A u \in Request : request'[u].at = "done" =>
        \/ request'[u] = request[u]
        \/ request'[u].seat = seat
  BY DEF Reserve, SignFails, Told, MatcherInv
<1>6. \A u \in Request : request'[u].at = "done" => Lasting(request'[u].seat)
  <2> HIDE DEF seat
  <2> QED
    BY <1>2, <1>5 DEF TokensLast
<1> QED
  BY <1>4, <1>6 DEF TokensLast, Lasting

LEMMA TokensLastStep ==
  ASSUME MatcherAssumption, MatcherInv, TokensLast, [Next]_vars
  PROVE  TokensLast'
<1>1. CASE UNCHANGED <<reservations, request>>
  BY <1>1 DEF TokensLast, Lasting
<1>2. CASE Restart
  BY <1>2 DEF Restart, TokensLast, Lasting
<1>3. ASSUME NEW q \in Request, NEW k \in Key, Begin(q, k)
      PROVE  TokensLast'
  <2>1. UNCHANGED reservations
        /\ \A u \in Request : request'[u].at = "done" => request'[u] = request[u]
    BY <1>3 DEF Begin, MatcherInv
  <2> QED
    BY <2>1 DEF TokensLast, Lasting
<1>4. ASSUME NEW q \in Request, Reuse(q)
      PROVE  TokensLast'
  <2> DEFINE k == request[q].key
             t == request[q].now
  <2>1. /\ reservations' = KeptReservations(t)
        /\ KeptReservations(t)[k] = reservations[k] /\ reservations[k] # None
        /\ k \in Key
    BY <1>4, LockedTypes DEF Reuse, KeptReservations
  <2>2. \A u \in Request : request'[u].at = "done" =>
          request'[u] = request[u] \/ request'[u].seat = reservations[k]
    BY <1>4 DEF Reuse, Told, MatcherInv
  <2>3. Lasting(reservations[k])
    BY <2>1 DEF TokensLast
  <2>4. \A l \in Key : reservations'[l] # None => Lasting(reservations'[l])
    BY <2>1, PurgeLasts
  <2>5. \A u \in Request : request'[u].at = "done" => Lasting(request'[u].seat)
    BY <2>2, <2>3 DEF TokensLast
  <2> QED
    BY <2>4, <2>5 DEF TokensLast, Lasting
<1>5. ASSUME NEW q \in Request, Refuse(q)
      PROVE  TokensLast'
  <2> DEFINE t == request[q].now
  <2>1. reservations' = KeptReservations(t)
        /\ \A u \in Request : request'[u].at = "done" => request'[u] = request[u]
    BY <1>5 DEF Refuse, MatcherInv
  <2>2. \A l \in Key : reservations'[l] # None => Lasting(reservations'[l])
    BY <2>1, PurgeLasts
  <2> QED
    BY <2>1, <2>2 DEF TokensLast, Lasting
<1>6. ASSUME NEW q \in Request, NEW s \in Server, Join(q, s) \/ Make(q, s)
      PROVE  TokensLast'
  <2>1. NeedsSeat(q) /\ \E r : Reserve(q, r) \/ SignFails(q)
    BY <1>6 DEF Join, Make
  <2> QED
    BY <2>1, SeatGivenLasts, MatcherAssumption
<1>7. Advance => UNCHANGED <<reservations, request>>
  BY DEF Advance
<1>8. UNCHANGED vars => UNCHANGED <<reservations, request>>
  BY DEF vars
<1> QED
  BY <1>1, <1>2, <1>3, <1>4, <1>5, <1>6, <1>7, <1>8 DEF Next

\* What a player was told is true until the time it was told is up, for any length of
\* a reservation and of a second: asking again gives the same seat unless the match
\* server has restarted, and the token, whose time is cut off to seconds, is accepted
\* (allocateLocked, roomtoken Generate and Parse).
THEOREM ToldAlwaysHolds == SystemSpec => []ToldHolds
<1>1. SystemInit => TokensLast
  BY DEF SystemInit, Init, TokensLast
<1>2. MatcherInv /\ TokensLast /\ [SystemNext]_systemVars => TokensLast'
  BY SystemStepsMatcher, TokensLastStep, MatcherAssumption
<1>3. ASSUME MatcherInv, TokensLast
      PROVE  ToldHolds
  <2> SUFFICES ASSUME NEW q \in Request, request[q].at = "done",
                      clock < request[q].seat.expireAt
               PROVE  /\ Parses(request[q].seat.exp)
                      /\ request[q].life = life =>
                           reservations[request[q].key] = request[q].seat
    BY DEF ToldHolds
  <2> DEFINE seat == request[q].seat
  <2>1. RequestSound(q) /\ clock \in Nat
    BY <1>3 DEF MatcherInv
  <2>2. seat.expireAt \in Nat /\ seat.exp \in Int /\ clock <= seat.expireAt
    BY <2>1 DEF RequestSound, Seat
  <2>3. clock \div Second <= seat.expireAt \div Second
    BY <2>1, <2>2, DivMonotone, MatcherAssumption DEF MatcherAssumption
  <2>4. seat.expireAt \div Second <= seat.exp
    BY <1>3 DEF TokensLast, Lasting
  <2>5. Second \in Nat \ {0}
    BY MatcherAssumption DEF MatcherAssumption
  <2>6. clock \div Second \in Int /\ seat.expireAt \div Second \in Int
    BY <2>1, <2>2, <2>5
  <2>7. Parses(seat.exp)
    <3> DEFINE x == clock \div Second
               y == seat.expireAt \div Second
    <3>1. x \in Int /\ y \in Int /\ x <= y /\ y <= seat.exp
      BY <2>3, <2>4, <2>6
    <3> HIDE DEF x, y
    <3>2. x <= seat.exp
      BY <2>2, <3>1
    <3> QED
      BY <3>2 DEF Parses, x
  <2> QED
    BY <2>1, <2>7 DEF RequestSound
<1>4. MatcherInv /\ TokensLast => ToldHolds
  BY <1>3
<1> QED
  BY <1>1, <1>2, <1>4, MatcherAlwaysSound, PTL DEF SystemSpec

-----------------------------------------------------------------------------
(* Rooms are shared.                                                       *)

\* The rooms of server s and of those before it, and what SharedByName asks of them.
UpTo(s) == UNION {rooms'[v] : v \in 1..s}
FullUpTo(s, r) ==
  \A u \in UpTo(s) \ {r} : mode'[u] = mode'[r] => Cardinality(seats'[u]) >= MaxPlayers

\* The room that is made is the only new one, and those of its mode that were looked
\* at before it have no seat left.
LEMMA MakeShares ==
  ASSUME MatcherAssumption, MatcherInv, NEW q \in Request, NEW s \in Server,
         Make(q, s), NEW v \in Server, NEW r \in rooms'[v] \ rooms[v]
  PROVE  FullUpTo(v, r)
<1> DEFINE m == request[q].key[2]
           t == request[q].now
           id == NewID
<1>1. /\ rooms' = [KeptRooms(t) EXCEPT ![s] = @ \cup {id}]
      /\ mode' = [mode EXCEPT ![id] = m]
      /\ FirstServer(s, m, t) /\ Available(s, m, t) = {}
      /\ NeedsSeat(q)
      /\ Reserve(q, id) \/ SignFails(q)
      /\ made < NumIDs
  BY DEF Make
<1>2. Sound(KeptSeats(t), KeptReservations(t), KeptRooms(t), mode)
  BY PurgeSound DEF MatcherInv
<1>3. /\ KeptRooms(t) \in [Server -> SUBSET RoomID]
      /\ KeptSeats(t) \in [RoomID -> SUBSET Key]
      /\ \A u \in RoomID : IsFiniteSet(KeptSeats(t)[u])
  BY <1>2 DEF Sound, Typed, Bounded
<1>4. \A u \in Server : rooms'[u] = IF u = s THEN KeptRooms(t)[s] \cup {id}
                                    ELSE KeptRooms(t)[u]
  BY <1>1, <1>3
<1>5. KeptRooms(t)[v] \subseteq rooms[v]
  BY DEF KeptRooms
<1>6. v = s /\ r = id
  BY <1>4, <1>5
<1>7. id \in RoomID
  BY <1>1 DEF NewID, RoomID, MatcherInv, MatcherAssumption
<1>8. ASSUME NEW u \in UpTo(s) \ {id}, mode'[u] = m
      PROVE  Cardinality(seats'[u]) >= MaxPlayers
  <2>1. PICK w \in 1..s : u \in rooms'[w]
    BY DEF UpTo
  <2>2. w \in Server /\ (w = s \/ w \in 1..(s - 1))
    BY <2>1 DEF Server, MatcherAssumption
  <2>3. u \in KeptRooms(t)[w] /\ u \in RoomID
    BY <1>3, <1>4, <1>8, <2>1, <2>2
  <2>4. mode[u] = m
    BY <1>1, <1>8, <2>3 DEF MatcherInv
  <2>5. Available(w, m, t) = {}
    BY <1>1, <2>2 DEF FirstServer, CanTake
  <2>6. ~(Cardinality(KeptSeats(t)[u]) < MaxPlayers)
    BY <2>3, <2>4, <2>5 DEF Available
  <2>7. Cardinality(KeptSeats(t)[u]) \in Nat
    BY <1>3, <2>3, FS_CardinalityType
  <2>8. seats'[u] = KeptSeats(t)[u]
    BY <1>1, <1>3, <1>8, <2>3 DEF Reserve, SignFails
  <2> QED
    BY <2>6, <2>7, <2>8 DEF MatcherAssumption
<1>9. mode'[id] = m
  BY <1>1, <1>7 DEF MatcherInv
<1> QED
  BY <1>6, <1>8, <1>9 DEF FullUpTo

\* For any servers and seats: a room is made only when every room of its mode, on its
\* server and on those before it, is full (allocateLocked, findAvailableRoom).
THEOREM RoomsAlwaysShared == SystemSpec => SharedByName
<1> DEFINE Shared == \A s \in Server : \A r \in rooms'[s] \ rooms[s] :
                       \A u \in (UNION {rooms'[v] : v \in 1..s}) \ {r} :
                         mode'[u] = mode'[r] => Cardinality(seats'[u]) >= MaxPlayers
<1>1. ASSUME MatcherInv, [Next]_vars
      PROVE  Shared
  <2>1. ASSUME NEW q \in Request, NEW s \in Server, Make(q, s)
        PROVE  Shared
    <3>1. ASSUME NEW v \in Server, NEW r \in rooms'[v] \ rooms[v]
          PROVE  FullUpTo(v, r)
      BY <1>1, <2>1, <3>1, MakeShares, MatcherAssumption
    <3> QED
      BY <3>1 DEF FullUpTo, UpTo
  <2>2. CASE \A s \in Server : rooms'[s] \subseteq rooms[s]
    BY <2>2
  <2>3. ASSUME NEW q \in Request, \/ Reuse(q) \/ Refuse(q)
                                  \/ \E s \in Server : Join(q, s)
        PROVE  Shared
    <3>1. rooms' = KeptRooms(request[q].now)
      BY <2>3 DEF Reuse, Refuse, Join
    <3>2. \A s \in Server : rooms'[s] \subseteq rooms[s]
      BY <3>1 DEF KeptRooms
    <3> QED
      BY <2>2, <3>2
  <2>4. CASE Advance \/ (\E q \in Request, k \in Key : Begin(q, k)) \/ UNCHANGED vars
    BY <2>2, <2>4 DEF Advance, Begin, vars
  <2>5. CASE Restart
    BY <2>2, <2>5 DEF Restart
  <2> HIDE DEF Shared
  <2> QED
    BY <1>1, <2>1, <2>3, <2>4, <2>5 DEF Next
<1>2. MatcherInv /\ [SystemNext]_systemVars => [Shared]_vars
  BY <1>1, SystemStepsMatcher
<1> QED
  BY <1>2, MatcherAlwaysSound, PTL DEF SystemSpec, SharedByName

-----------------------------------------------------------------------------
(* Clients.                                                                *)

ClientsTyped ==
  client \in [Request -> {"waits", "joining", "undo", "in", "refused", "out"}]

\* The joins of a room have been told their seats.
Counts(q) == client[q] \in {"joining", "undo"}
JoinsTold == \A q \in Request : Counts(q) => request[q].at = "done"

\* What a step may make of the clients.
LEMMA ClientMoves ==
  ASSUME ClientsTyped, SystemNext \/ UNCHANGED systemVars
  PROVE  \/ UNCHANGED client
         \/ \E q \in Request, c \in {"in", "refused", "out"} :
              client' = [client EXCEPT ![q] = c]
         \/ \E q \in Request, c \in {"joining", "undo"} :
              TakeSlot(q) /\ client' = [client EXCEPT ![q] = c]
         \/ /\ ClientsTyped'
            /\ \A q \in Request : client'[q] = client[q] \/ client'[q] \in {"refused", "out"}
<1>1. CASE Elsewhere \/ UNCHANGED systemVars \/ \E q \in Request : Ask(q) \/ Serve(q)
  BY <1>1 DEF Elsewhere, Ask, Serve, systemVars
<1>2. ASSUME NEW q \in Request, Aside(q) \/ LeaveRoom(q) \/ AcceptJoin(q)
      PROVE  \E c \in {"in", "refused", "out"} : client' = [client EXCEPT ![q] = c]
  BY <1>2 DEF Aside, Lose, TokenExpired, EntryFails, TurnAway, ReturnSlot, JoinFails,
              RefuseJoin, LeaveRoom, AcceptJoin
<1>3. ASSUME NEW q \in Request, TakeSlot(q)
      PROVE  \E c \in {"joining", "undo"} : client' = [client EXCEPT ![q] = c]
  BY <1>3 DEF TakeSlot
<1>4. ASSUME (\E r \in RoomID : FinishGame(r)) \/ (\E s \in Server : RoomServerRestart(s))
      PROVE  /\ ClientsTyped'
             /\ \A q \in Request : client'[q] = client[q] \/ client'[q] \in {"refused", "out"}
  BY <1>4 DEF FinishGame, Unhandled, RoomServerRestart, ClientsTyped
<1> QED
  BY <1>1, <1>2, <1>3, <1>4 DEF SystemNext, Aside

LEMMA ClientsStep == ClientsTyped /\ [SystemNext]_systemVars => ClientsTyped'
BY ClientMoves DEF ClientsTyped

\* An answer stays.
LEMMA ToldStays ==
  ASSUME MatcherInv, [Next]_vars, NEW u \in Request, request[u].at = "done"
  PROVE  request'[u] = request[u]
<1>1. ASSUME NEW q \in Request, q # u, NEW w, request' = [request EXCEPT ![q] = w]
      PROVE  request'[u] = request[u]
  BY <1>1 DEF MatcherInv
<1>2. ASSUME NEW q \in Request, NEW k \in Key, Begin(q, k)
      PROVE  request'[u] = request[u]
  BY <1>1, <1>2 DEF Begin
<1>3. ASSUME NEW q \in Request,
             \/ Reuse(q) \/ Refuse(q) \/ \E s \in Server : Join(q, s) \/ Make(q, s)
      PROVE  request'[u] = request[u]
  <2>1. q # u
    BY <1>3 DEF Reuse, Refuse, Join, Make, NeedsSeat, Locked
  <2>2. \E w : request' = [request EXCEPT ![q] = w]
    BY <1>3 DEF Reuse, Refuse, Join, Make, Reserve, SignFails
  <2> QED
    BY <1>1, <2>1, <2>2
<1>4. CASE Advance \/ Restart \/ UNCHANGED vars
  BY <1>4 DEF Advance, Restart, vars
<1> QED
  BY <1>2, <1>3, <1>4 DEF Next

\* Only a join that was told its seat takes a slot.
LEMMA JoinsToldStep ==
  ASSUME MatcherInv, ClientsTyped, JoinsTold, SystemNext \/ UNCHANGED systemVars
  PROVE  JoinsTold'
<1> SUFFICES ASSUME NEW q \in Request, Counts(q)'
             PROVE  request'[q].at = "done"
  BY DEF JoinsTold
<1>1. Counts(q) \/ TakeSlot(q)
  BY ClientMoves DEF Counts, ClientsTyped
<1>2. request[q].at = "done"
  BY <1>1 DEF JoinsTold, TakeSlot, Admitted, Arrives
<1> QED
  BY <1>2, ToldStays, SystemStepsMatcher

-----------------------------------------------------------------------------
(* The two limits, checked on both sides.                                  *)

\* Rooms are listed where they are hosted, and a game starts with all its seats taken.
GamesSound ==
  /\ host \in [RoomID -> Server \cup {None}]
  /\ phase \in [RoomID -> {"none", "waiting", "playing", "over"}]
  /\ roster \in [RoomID -> SUBSET Player]
  /\ starters \in [RoomID -> SUBSET Player]
  /\ \A s \in Server : \A r \in rooms[s] : host[r] = s
  /\ \A r \in RoomID : phase[r] \in {"playing", "over"} =>
       Cardinality(starters[r]) = MaxPlayers

\* A request that has its answer.
LEMMA ToldTypes ==
  ASSUME MatcherInv, NEW q \in Request, request[q].at = "done"
  PROVE  PlayerOf(q) \in Player /\ RoomOf(q) \in RoomID
<1>1. request[q].key \in Key /\ request[q].seat \in Seat
  BY DEF MatcherInv, RequestSound
<1> QED
  BY <1>1 DEF Key, Seat, PlayerOf, RoomOf

\* The critical section of the match server lists no room elsewhere.
LEMMA ServeKeepsGames ==
  ASSUME MatcherAssumption, MatcherInv, GamesSound, NEW q \in Request, Serve(q)
  PROVE  GamesSound'
<1>1. UNCHANGED gameVars
  BY DEF Serve
<1>2. ASSUME NEW t, rooms' = KeptRooms(t), host' = host
      PROVE  GamesSound'
  BY <1>1, <1>2 DEF GamesSound, gameVars, KeptRooms
<1>3. ASSUME NEW s \in Server, Make(q, s), host' = [host EXCEPT ![NewID] = s]
      PROVE  GamesSound'
  <2> DEFINE t == request[q].now
  <2>1. rooms' = [KeptRooms(t) EXCEPT ![s] = @ \cup {NewID}] /\ made < NumIDs
    BY <1>3 DEF Make
  <2>2. NewID \in RoomID
    BY <2>1 DEF NewID, RoomID, MatcherInv, MatcherAssumption
  <2>3. \A v \in Server : \A r \in rooms'[v] :
          (r \in rooms[v] /\ r # NewID) \/ (v = s /\ r = NewID)
    <3>1. \A v \in Server : KeptRooms(t)[v] \subseteq rooms[v]
      BY DEF KeptRooms
    <3>2. \A v \in Server : \A r \in rooms[v] : r # NewID
      BY DEF NewID, MatcherInv, Sound, Typed, RoomID
    <3> QED
      BY <2>1, <3>1, <3>2 DEF KeptRooms
  <2>4. host'[NewID] = s /\ \A r \in RoomID \ {NewID} : host'[r] = host[r]
    BY <1>3, <2>2 DEF GamesSound
  <2>5. \A v \in Server : \A r \in rooms'[v] : host'[r] = v
    BY <2>3, <2>4 DEF GamesSound, MatcherInv, Sound, Typed
  <2>6. host' \in [RoomID -> Server \cup {None}]
    BY <1>3, <2>2 DEF GamesSound
  <2> QED
    BY <1>1, <2>5, <2>6 DEF GamesSound, gameVars
<1> QED
  BY <1>2, <1>3 DEF Serve, Reuse, Refuse, Join

\* The room of a join.
LEMMA JoinsThere ==
  ASSUME MatcherInv, JoinsTold, NEW q \in Request, Counts(q) \/ Arrives(q)
  PROVE  RoomOf(q) \in RoomID /\ PlayerOf(q) \in Player
BY ToldTypes DEF JoinsTold, Arrives

\* A game starts with the player that fills the room, and its starters stay what they
\* were while it is played and, in a room that nobody is left in, after it.
LEMMA AcceptKeepsGames ==
  ASSUME MatcherAssumption, MatcherInv, JoinsTold, GamesSound, NEW q \in Request,
         AcceptJoin(q)
  PROVE  GamesSound'
<1> DEFINE r == RoomOf(q)
           members == roster[r] \cup {PlayerOf(q)}
           full == Cardinality(members) = MaxPlayers
<1>1. r \in RoomID /\ PlayerOf(q) \in Player
  BY JoinsThere DEF AcceptJoin, Counts
<1>2. members \in SUBSET Player
  BY <1>1 DEF GamesSound
<1>3. /\ roster' = [roster EXCEPT ![r] = members]
      /\ phase[r] = "waiting"
      /\ phase' = [phase EXCEPT ![r] = IF full THEN "playing" ELSE @]
      /\ starters' = [starters EXCEPT ![r] = IF full THEN members ELSE @]
      /\ host' = host /\ rooms' = rooms
  BY DEF AcceptJoin, vars
<1>4. full <=> Cardinality(members) = MaxPlayers
  OBVIOUS
<1> HIDE DEF members, full, r
<1>5. /\ roster' \in [RoomID -> SUBSET Player]
      /\ phase' \in [RoomID -> {"none", "waiting", "playing", "over"}]
      /\ starters' \in [RoomID -> SUBSET Player]
  BY <1>1, <1>2, <1>3 DEF GamesSound
<1>6. \A u \in RoomID : phase'[u] \in {"playing", "over"} =>
        Cardinality(starters'[u]) = MaxPlayers
  BY <1>1, <1>3, <1>4 DEF GamesSound
<1> QED
  BY <1>3, <1>5, <1>6 DEF GamesSound

LEMMA GamesStep ==
  ASSUME MatcherAssumption, MatcherInv, JoinsTold, GamesSound,
         SystemNext \/ UNCHANGED systemVars
  PROVE  GamesSound'
<1>1. ASSUME UNCHANGED <<rooms, host, gameVars>>
      PROVE  GamesSound'
  BY <1>1 DEF GamesSound, gameVars
<1>2. CASE Elsewhere
  <2>1. \A s \in Server : rooms'[s] \subseteq rooms[s]
    BY <1>2 DEF Elsewhere, Advance, Restart
  <2> QED
    BY <1>2, <2>1 DEF Elsewhere, GamesSound, gameVars
<1>3. ASSUME NEW q \in Request, Ask(q) \/ Aside(q)
      PROVE  GamesSound'
  BY <1>1, <1>3, AsideKeeps DEF Ask, Begin, vars
<1>4. ASSUME NEW q \in Request, TakeSlot(q)
      PROVE  GamesSound'
  <2>1. RoomOf(q) \in RoomID
    BY <1>4, JoinsThere DEF TakeSlot, Admitted
  <2>2. /\ UNCHANGED <<rooms, host, roster, starters>>
        /\ phase' = [phase EXCEPT ![RoomOf(q)] = "waiting"]
    BY <1>4 DEF TakeSlot, vars
  <2> QED
    BY <2>1, <2>2 DEF GamesSound
<1>5. ASSUME NEW q \in Request, LeaveRoom(q)
      PROVE  GamesSound'
  <2>1. /\ UNCHANGED <<rooms, host, phase, starters>>
        /\ \/ roster' = roster
           \/ roster' = [roster EXCEPT ![RoomOf(q)] = roster[RoomOf(q)] \ {PlayerOf(q)}]
    BY <1>5 DEF LeaveRoom, vars
  <2> QED
    BY <2>1 DEF GamesSound
<1>6. ASSUME NEW r \in RoomID, FinishGame(r)
      PROVE  GamesSound'
  BY <1>6 DEF FinishGame, GamesSound, vars
<1>7. ASSUME NEW s \in Server, RoomServerRestart(s)
      PROVE  GamesSound'
  BY <1>7 DEF RoomServerRestart, GamesSound, vars
<1>8. UNCHANGED systemVars => UNCHANGED <<rooms, host, gameVars>>
  BY DEF systemVars, vars
<1> QED
  BY <1>1, <1>2, <1>3, <1>4, <1>5, <1>6, <1>7, <1>8, ServeKeepsGames, AcceptKeepsGames,
     MatcherAssumption DEF SystemNext, Aside

\* Nobody is in a room that is not there or is over, only rooms made have a host, and
\* whoever has an answer was given a room that has one.
HostsSound ==
  /\ \A r \in RoomID : phase[r] \in {"none", "over"} => roster[r] = {}
  /\ \A r \in RoomID : host[r] = None => phase[r] = "none"
  /\ \A r \in RoomID : host[r] # None => r <= made
  /\ \A q \in Request : request[q].at = "done" => host[RoomOf(q)] \in Server

\* A request that comes to a room server, or has.
LEMMA ArrivesThere ==
  ASSUME MatcherInv, JoinsTold, HostsSound, NEW q \in Request, Counts(q) \/ Arrives(q)
  PROVE  RoomOf(q) \in RoomID /\ PlayerOf(q) \in Player /\ host[RoomOf(q)] \in Server
BY JoinsThere DEF JoinsTold, Arrives, HostsSound

\* A server is not nil.
LEMMA ServerIsNotNone == ASSUME MatcherAssumption PROVE None \notin Server
BY DEF MatcherAssumption, Server

\* The seat of an answer is in the index when it is given.
LEMMA ServeTells ==
  ASSUME MatcherAssumption, MatcherInv, NEW q \in Request, Serve(q),
         NEW u \in Request, request'[u].at = "done"
  PROVE  \/ request'[u] = request[u]
         \/ /\ request'[u].key \in Key
            /\ reservations'[request'[u].key] = request'[u].seat
<1> DEFINE k == request[q].key
           t == request[q].now
<1>1. Locked(q) /\ k \in Key
  BY LockedTypes DEF Serve, Reuse, Refuse, Join, Make, NeedsSeat
<1>2. ASSUME NEW w, request' = [request EXCEPT ![q] = w]
      PROVE  request'[u] = request[u] \/ (u = q /\ request'[u] = w)
  BY <1>2 DEF MatcherInv
<1>3. CASE Reuse(q)
  <2> DEFINE w == Told(k, reservations[k])
  <2>1. request' = [request EXCEPT ![q] = w] /\ reservations'[k] = reservations[k]
    BY <1>1, <1>3 DEF Reuse, KeptReservations
  <2>2. w.key = k /\ w.seat = reservations[k]
    BY DEF Told
  <2> HIDE DEF w
  <2> QED
    BY <1>1, <1>2, <2>1, <2>2
<1>4. CASE Refuse(q) \/ SignFails(q)
  <2>1. PICK w \in {[at |-> "full"], [at |-> "error"]} :
          request' = [request EXCEPT ![q] = w]
    BY <1>4 DEF Refuse, SignFails
  <2>2. w.at # "done"
    BY <2>1
  <2> QED
    BY <1>2, <2>1, <2>2
<1>5. ASSUME NEW r, Reserve(q, r)
      PROVE  \/ request'[u] = request[u]
             \/ /\ request'[u].key \in Key
                /\ reservations'[request'[u].key] = request'[u].seat
  <2> DEFINE seat == [room |-> r, expireAt |-> t + Expire, exp |-> TokenExp]
             w == Told(k, seat)
  <2>1. request' = [request EXCEPT ![q] = w]
        /\ reservations' = [KeptReservations(t) EXCEPT ![k] = seat]
    BY <1>5 DEF Reserve
  <2>2. reservations'[k] = seat
    BY <1>1, <2>1 DEF KeptReservations
  <2>3. w.key = k /\ w.seat = seat
    BY DEF Told
  <2> HIDE DEF w, seat
  <2> QED
    BY <1>1, <1>2, <2>1, <2>2, <2>3
<1> QED
  BY <1>3, <1>4, <1>5 DEF Serve, Join, Make

\* What the index has a seat for is on the list of a server, and so has a host.
LEMMA ServeKeepsHosts ==
  ASSUME MatcherAssumption, MatcherInv, MatcherInv', GamesSound, GamesSound', HostsSound,
         NEW q \in Request, Serve(q)
  PROVE  HostsSound'
<1>1. UNCHANGED gameVars
  BY DEF Serve
<1>2. made \in Nat /\ made' \in Nat
  BY DEF MatcherInv
<1>3. \/ UNCHANGED <<host, made>>
      \/ \E s \in Server : /\ host' = [host EXCEPT ![NewID] = s]
                           /\ made' = made + 1 /\ made < NumIDs
  BY DEF Serve, Reuse, Refuse, Join, Make
<1>4. \A r \in RoomID : \/ host'[r] = host[r] /\ made <= made'
                        \/ r = made' /\ host'[r] \in Server
  BY <1>2, <1>3 DEF NewID, RoomID, GamesSound
<1>5. \A r \in RoomID : (host[r] \in Server => host'[r] \in Server)
                        /\ (host'[r] = None => host[r] = None)
  BY <1>4, ServerIsNotNone, MatcherAssumption DEF GamesSound
<1>6. \A r \in RoomID : host'[r] # None => r <= made'
  BY <1>2, <1>4 DEF HostsSound, RoomID
<1>7. ASSUME NEW u \in Request, request'[u].at = "done"
      PROVE  host'[RoomOf(u)'] \in Server
  <2>1. CASE request'[u] = request[u]
    <3>1. RoomOf(u)' = RoomOf(u) /\ request[u].at = "done"
      BY <1>7, <2>1 DEF RoomOf
    <3>2. RoomOf(u) \in RoomID /\ host[RoomOf(u)] \in Server
      BY <3>1, ToldTypes DEF HostsSound
    <3> QED
      BY <1>5, <3>1, <3>2
  <2>2. CASE /\ request'[u].key \in Key
             /\ reservations'[request'[u].key] = request'[u].seat
    <3> DEFINE k == request'[u].key
               r == request'[u].seat.room
    <3>1. request'[u].seat \in Seat
      BY <1>7 DEF MatcherInv, RequestSound
    <3>2. r \in RoomID /\ reservations'[k] # None /\ reservations'[k].room = r
      BY <2>2, <3>1, SeatIsNotNone, MatcherAssumption DEF Seat
    <3>3. k \in seats'[r]
      BY <2>2, <3>2 DEF MatcherInv, Sound, Agrees
    <3>4. PICK s \in Server : r \in rooms'[s]
      BY <3>2, <3>3 DEF MatcherInv, Sound, Agrees
    <3> QED
      BY <3>4 DEF GamesSound, RoomOf
  <2> QED
    BY <1>7, <2>1, <2>2, ServeTells, MatcherAssumption
<1> QED
  BY <1>1, <1>5, <1>6, <1>7 DEF HostsSound, gameVars

\* A room that has players has a host, and keeps it.
LEMMA HostsStep ==
  ASSUME MatcherAssumption, MatcherInv, MatcherInv', JoinsTold, GamesSound, GamesSound',
         HostsSound, SystemNext \/ UNCHANGED systemVars
  PROVE  HostsSound'
<1>1. ASSUME UNCHANGED <<host, made, request>>,
             \A r \in RoomID : /\ phase'[r] \in {"none", "over"} => roster'[r] = {}
                               /\ host[r] = None => phase'[r] = "none"
      PROVE  HostsSound'
  BY <1>1 DEF HostsSound, RoomOf
<1>2. ASSUME UNCHANGED <<host, gameVars, made>>,
             \A q \in Request : request'[q].at = "done" => request'[q] = request[q]
      PROVE  HostsSound'
  BY <1>2 DEF HostsSound, gameVars, RoomOf
<1>3. CASE Elsewhere \/ \E q \in Request : Ask(q)
  BY <1>2, <1>3 DEF Elsewhere, Advance, Restart, Ask, Begin, MatcherInv
<1>4. CASE UNCHANGED systemVars
  BY <1>2, <1>4 DEF systemVars, vars
<1>5. ASSUME NEW q \in Request, Aside(q)
      PROVE  HostsSound'
  BY <1>2, <1>5, AsideKeeps DEF vars
<1>6. ASSUME NEW q \in Request, TakeSlot(q) \/ AcceptJoin(q)
      PROVE  HostsSound'
  <2> DEFINE r == RoomOf(q)
  <2>1. r \in RoomID /\ host[r] # None
    BY <1>6, ArrivesThere, ServerIsNotNone, MatcherAssumption
       DEF TakeSlot, Admitted, AcceptJoin, Counts
  <2>2. UNCHANGED <<host, made, request>>
    BY <1>6 DEF TakeSlot, AcceptJoin, vars
  <2>3. phase'[r] \in {"playing", "waiting"}
    BY <1>6, <2>1 DEF TakeSlot, AcceptJoin, GamesSound
  <2>4. \A v \in RoomID \ {r} : phase'[v] = phase[v] /\ roster'[v] = roster[v]
    BY <1>6, <2>1 DEF TakeSlot, AcceptJoin, GamesSound
  <2> QED
    BY <1>1, <2>1, <2>2, <2>3, <2>4 DEF HostsSound
<1>7. ASSUME NEW q \in Request, LeaveRoom(q)
      PROVE  HostsSound'
  <2>1. UNCHANGED <<host, made, request, phase>>
    BY <1>7 DEF LeaveRoom, vars
  <2>2. \A v \in RoomID : roster'[v] \subseteq roster[v]
    BY <1>7 DEF LeaveRoom, GamesSound
  <2> QED
    BY <1>1, <2>1, <2>2 DEF HostsSound
<1>8. ASSUME NEW r \in RoomID, FinishGame(r)
      PROVE  HostsSound'
  <2>1. UNCHANGED <<host, made, request>> /\ phase[r] = "playing"
    BY <1>8 DEF FinishGame, vars
  <2>2. /\ roster'[r] = {}
        /\ \A v \in RoomID \ {r} : phase'[v] = phase[v] /\ roster'[v] = roster[v]
    BY <1>8 DEF FinishGame, GamesSound
  <2> QED
    BY <1>1, <2>1, <2>2 DEF HostsSound
<1>9. ASSUME NEW s \in Server, RoomServerRestart(s)
       PROVE  HostsSound'
  <2>1. UNCHANGED <<host, made, request>>
    BY <1>9 DEF RoomServerRestart, vars
  <2>2. \A v \in RoomID : \/ phase'[v] = "none" /\ roster'[v] = {}
                          \/ phase'[v] = phase[v] /\ roster'[v] = roster[v]
    BY <1>9 DEF RoomServerRestart
  <2> QED
    BY <1>1, <2>1, <2>2 DEF HostsSound
<1> QED
  BY <1>3, <1>4, <1>5, <1>6, <1>7, <1>8, <1>9, ServeKeepsHosts,
     MatcherAssumption DEF SystemNext, Aside

\* Whoever is seated in a room has a seat there, and all its seats are for its mode.
LEMMA SeatedHasSeat ==
  ASSUME MatcherInv, NEW p \in Player, NEW r \in RoomID, Seated(p, r)
  PROVE  <<p, mode[r]>> \in seats[r]
<1>1. PICK k \in Key : k[1] = p /\ reservations[k] # None /\ reservations[k].room = r
  BY DEF Seated
<1>2. k \in seats[r]
  BY <1>1 DEF MatcherInv, Sound, Agrees
<1>3. k[2] = mode[r]
  BY <1>2 DEF MatcherInv, Sound, Bounded
<1>4. k = <<p, mode[r]>>
  BY <1>1, <1>3 DEF Key
<1> QED
  BY <1>2, <1>4

\* No more players are seated in a room than it takes.
LEMMA SeatedFit ==
  ASSUME MatcherAssumption, MatcherInv, NEW r \in RoomID, NEW P \in SUBSET Player,
         \A p \in P : Seated(p, r)
  PROVE  IsFiniteSet(P) /\ Cardinality(P) <= MaxPlayers
<1> DEFINE f == [p \in P |-> <<p, mode[r]>>]
<1>1. IsFiniteSet(seats[r]) /\ Cardinality(seats[r]) <= MaxPlayers
  BY DEF MatcherInv, Sound, Bounded
<1>2. f \in Injection(P, seats[r])
  <2>1. f \in [P -> seats[r]]
    BY SeatedHasSeat
  <2>2. \A p, u \in P : f[p] = f[u] => p = u
    OBVIOUS
  <2> QED
    BY <2>1, <2>2 DEF Injection, IsInjective
<1> HIDE DEF f
<1>3. IsFiniteSet(P) /\ Cardinality(P) <= Cardinality(seats[r])
  BY <1>1, <1>2, FS_Injection
<1>4. Cardinality(seats[r]) \in Nat /\ Cardinality(P) \in Nat /\ MaxPlayers \in Nat
  BY <1>1, <1>3, FS_CardinalityType DEF MatcherAssumption
<1> QED
  BY <1>1, <1>3, <1>4

\* A room with somebody seated is on the list of its host.
LEMMA SeatedIsListed ==
  ASSUME MatcherInv, GamesSound, NEW p \in Player, NEW r \in RoomID, Seated(p, r)
  PROVE  host[r] \in Server /\ r \in rooms[host[r]]
<1>1. seats[r] # {}
  BY SeatedHasSeat
<1>2. PICK s \in Server : r \in rooms[s]
  BY <1>1 DEF MatcherInv, Sound, Agrees
<1>3. host[r] = s
  BY <1>2 DEF GamesSound
<1> QED
  BY <1>2, <1>3

-----------------------------------------------------------------------------
(* Slots.                                                                  *)

\* The slots of a room that waits are no more than its members and the joins that count.
RoomCounts(r) ==
  /\ IsFiniteSet(Pending(r))
  /\ phase[r] = "none" => slots[r] = 0
  /\ phase[r] = "waiting" => slots[r] <= Cardinality(roster[r]) + Cardinality(Pending(r))

SlotsSound ==
  /\ slots \in [RoomID -> Int]
  /\ \A q \in Request : Counts(q) => phase[RoomOf(q)] # "none"
  /\ \A r \in RoomID : RoomCounts(r)

\* A step that changes one room and the joins of that room.
LEMMA OneRoomCounts ==
  ASSUME SlotsSound, NEW r \in RoomID, slots' \in [RoomID -> Int],
         \A v \in RoomID \ {r} :
           phase'[v] = phase[v] /\ roster'[v] = roster[v] /\ slots'[v] = slots[v],
         \A u \in Request : RoomOf(u)' = RoomOf(u) \/ ~(Counts(u) \/ Counts(u)'),
         \A u \in Request : RoomOf(u) = r \/ (Counts(u)' <=> Counts(u)),
         RoomCounts(r)',
         phase'[r] # "none" \/ Pending(r)' = {},
         \A u \in Request : Counts(u)' => RoomOf(u)' \in RoomID
  PROVE  SlotsSound'
<1>1. ASSUME NEW v \in RoomID \ {r}
      PROVE  RoomCounts(v)'
  <2>1. Pending(v)' = Pending(v)
    BY DEF Pending, Counts
  <2> QED
    BY <2>1 DEF SlotsSound, RoomCounts
<1>2. ASSUME NEW u \in Request, Counts(u)'
      PROVE  phase'[RoomOf(u)'] # "none"
  <2>1. CASE RoomOf(u)' = r
    <3>1. u \in Pending(r)'
      BY <1>2, <2>1 DEF Pending, Counts
    <3> QED
      BY <2>1, <3>1
  <2>2. CASE RoomOf(u)' # r
    <3>1. RoomOf(u)' = RoomOf(u) /\ Counts(u) /\ RoomOf(u) \in RoomID \ {r}
      BY <1>2, <2>2
    <3> QED
      BY <3>1 DEF SlotsSound
  <2> QED
    BY <2>1, <2>2
<1> QED
  BY <1>1, <1>2 DEF SlotsSound

\* What a step of one request makes of the joins of its room.
LEMMA PendingMoves ==
  ASSUME NEW q \in Request, ClientsTyped,
         NEW c \in {"joining", "undo", "in", "refused", "out"},
         client' = [client EXCEPT ![q] = c], UNCHANGED request, NEW r, r = RoomOf(q)
  PROVE  /\ \A u \in Request : RoomOf(u)' = RoomOf(u)
         /\ \A u \in Request \ {q} : Counts(u)' <=> Counts(u)
         /\ c \in {"joining", "undo"} => Pending(r)' = Pending(r) \cup {q}
         /\ c \notin {"joining", "undo"} => Pending(r)' = Pending(r) \ {q}
<1>1. \A u \in Request : RoomOf(u)' = RoomOf(u)
  BY DEF RoomOf
<1>2. client'[q] = c /\ \A u \in Request \ {q} : client'[u] = client[u]
  BY DEF ClientsTyped
<1> QED
  BY <1>1, <1>2 DEF Counts, Pending

\* A join takes a slot, and gives it back when it is refused or fails.
LEMMA TakeKeepsSlots ==
  ASSUME MatcherAssumption, MatcherInv, ClientsTyped, JoinsTold, JoinsTold', MatcherInv',
         GamesSound, SlotsSound, NEW q \in Request, TakeSlot(q)
  PROVE  SlotsSound'
<1>1. PICK r \in RoomID : r = RoomOf(q)
  BY JoinsThere DEF TakeSlot, Admitted
<1>2. /\ phase[r] \in {"none", "waiting"}
      /\ phase' = [phase EXCEPT ![r] = "waiting"]
      /\ slots' = [slots EXCEPT ![r] = slots[r] + 1]
      /\ UNCHANGED roster /\ UNCHANGED request
      /\ client[q] = "waits"
  BY <1>1 DEF TakeSlot, Admitted, Arrives, vars
<1>3. PICK c \in {"joining", "undo"} : client' = [client EXCEPT ![q] = c]
  BY DEF TakeSlot
<1>4. /\ \A u \in Request : RoomOf(u)' = RoomOf(u)
      /\ \A u \in Request \ {q} : Counts(u)' <=> Counts(u)
      /\ Pending(r)' = Pending(r) \cup {q}
  BY <1>1, <1>2, <1>3, PendingMoves
<1>5. /\ phase'[r] = "waiting" /\ slots'[r] = slots[r] + 1 /\ roster'[r] = roster[r]
      /\ \A v \in RoomID \ {r} :
           phase'[v] = phase[v] /\ roster'[v] = roster[v] /\ slots'[v] = slots[v]
      /\ slots' \in [RoomID -> Int] /\ slots[r] \in Int
  BY <1>2 DEF GamesSound, SlotsSound
<1>6. RoomCounts(r)'
  <2>1. IsFiniteSet(Pending(r)) /\ q \notin Pending(r)
    BY <1>2 DEF SlotsSound, RoomCounts, Pending
  <2>2. IsFiniteSet(Pending(r)') /\ Cardinality(Pending(r)') = Cardinality(Pending(r)) + 1
    BY <1>4, <2>1, FS_AddElement
  <2>3. Cardinality(Pending(r)) \in Nat /\ Cardinality(roster[r]) \in Nat
    <3>1. IsFiniteSet(roster[r])
      BY FS_Subset DEF GamesSound, MatcherAssumption
    <3> QED
      BY <2>1, <3>1, FS_CardinalityType
  <2>4. slots[r] <= Cardinality(roster[r]) + Cardinality(Pending(r))
    BY <1>2, <1>5, <2>3 DEF SlotsSound, RoomCounts
  <2> QED
    BY <1>5, <2>2, <2>3, <2>4 DEF RoomCounts
<1>7. \A u \in Request : Counts(u)' => RoomOf(u)' \in RoomID
  BY <1>1, <1>4, JoinsThere
<1> QED
  BY <1>1, <1>4, <1>5, <1>6, <1>7, OneRoomCounts

LEMMA ReturnKeepsSlots ==
  ASSUME MatcherAssumption, MatcherInv, ClientsTyped, JoinsTold, GamesSound, SlotsSound,
         NEW q \in Request, ReturnSlot(q) \/ JoinFails(q) \/ RefuseJoin(q)
  PROVE  SlotsSound'
<1>1. Counts(q)
  BY DEF ReturnSlot, JoinFails, RefuseJoin, Counts
<1>2. PICK r \in RoomID : r = RoomOf(q)
  BY <1>1, JoinsThere
<1>3. UNCHANGED phase /\ UNCHANGED roster /\ UNCHANGED request
  BY AsideKeeps DEF Aside, gameVars, vars
<1>4. slots[r] \in Int /\ slots \in [RoomID -> Int]
  BY DEF SlotsSound
<1>5. PICK n \in {slots[r] - 1, IF slots[r] > 0 THEN slots[r] - 1 ELSE slots[r]} :
        slots' = [slots EXCEPT ![r] = n]
  <2>1. \/ slots' = [slots EXCEPT ![r] = slots[r] - 1]
        \/ slots' = slots /\ slots[r] <= 0
    BY <1>2 DEF ReturnSlot, JoinFails, RefuseJoin, Released
  <2>2. slots = [slots EXCEPT ![r] = slots[r]]
    BY <1>4
  <2> QED
    BY <1>4, <2>1, <2>2
<1>6. n \in Int /\ (n <= slots[r] - 1 \/ (n <= 0 /\ n = slots[r]))
  BY <1>4, <1>5
<1>7. PICK c \in {"refused", "out"} : client' = [client EXCEPT ![q] = c]
  BY DEF ReturnSlot, JoinFails, RefuseJoin
<1>8. /\ \A u \in Request : RoomOf(u)' = RoomOf(u)
      /\ \A u \in Request \ {q} : Counts(u)' <=> Counts(u)
      /\ Pending(r)' = Pending(r) \ {q}
  BY <1>2, <1>3, <1>7, PendingMoves
<1>9. phase[r] # "none"
  BY <1>1, <1>2 DEF SlotsSound
<1>10. RoomCounts(r)'
  <2>1. IsFiniteSet(Pending(r)) /\ q \in Pending(r)
    BY <1>1, <1>2 DEF SlotsSound, RoomCounts, Pending, Counts
  <2>2. IsFiniteSet(Pending(r)') /\ Cardinality(Pending(r)') = Cardinality(Pending(r)) - 1
    BY <1>8, <2>1, FS_RemoveElement
  <2>3. /\ Cardinality(Pending(r)) \in Nat /\ Cardinality(Pending(r)') \in Nat
        /\ Cardinality(roster[r]) \in Nat
    <3>1. IsFiniteSet(roster[r])
      BY FS_Subset DEF GamesSound, MatcherAssumption
    <3> QED
      BY <2>1, <2>2, <3>1, FS_CardinalityType
  <2>4. phase[r] = "waiting" => slots[r] <= Cardinality(roster[r]) + Cardinality(Pending(r))
    BY DEF SlotsSound, RoomCounts
  <2>5. slots'[r] = n
    BY <1>4, <1>5
  <2>6. phase[r] = "waiting" => n <= Cardinality(roster[r]) + Cardinality(Pending(r)')
    BY <1>4, <1>6, <2>2, <2>3, <2>4
  <2> QED
    BY <1>3, <1>9, <2>2, <2>5, <2>6 DEF RoomCounts
<1>11. /\ \A v \in RoomID \ {r} :
            phase'[v] = phase[v] /\ roster'[v] = roster[v] /\ slots'[v] = slots[v]
       /\ slots' \in [RoomID -> Int]
  BY <1>3, <1>4, <1>5, <1>6
<1>12. \A u \in Request : Counts(u)' => RoomOf(u)' \in RoomID
  <2>1. ~Counts(q)'
    BY <1>7 DEF Counts, ClientsTyped
  <2> QED
    BY <1>8, <2>1, JoinsThere
<1> QED
  BY <1>2, <1>3, <1>8, <1>9, <1>10, <1>11, <1>12, OneRoomCounts

\* A member takes its slot with it into the roster.
LEMMA AcceptKeepsSlots ==
  ASSUME MatcherAssumption, MatcherInv, ClientsTyped, JoinsTold, GamesSound, SlotsSound,
         NEW q \in Request, AcceptJoin(q)
  PROVE  SlotsSound'
<1>1. Counts(q)
  BY DEF AcceptJoin, Counts
<1>2. PICK r \in RoomID : r = RoomOf(q)
  BY <1>1, JoinsThere
<1>3. PICK p \in Player : p = PlayerOf(q)
  BY <1>1, JoinsThere
<1> DEFINE members == roster[r] \cup {p}
           full == Cardinality(members) = MaxPlayers
<1>4. /\ phase[r] = "waiting" /\ p \notin roster[r]
      /\ roster' = [roster EXCEPT ![r] = members]
      /\ phase' = [phase EXCEPT ![r] = IF full THEN "playing" ELSE phase[r]]
      /\ slots' = [slots EXCEPT ![r] = IF full THEN MaxPlayers ELSE slots[r]]
      /\ client' = [client EXCEPT ![q] = "in"]
      /\ UNCHANGED request
  BY <1>2, <1>3 DEF AcceptJoin, vars
<1> HIDE DEF full
<1>5. /\ \A u \in Request : RoomOf(u)' = RoomOf(u)
      /\ \A u \in Request \ {q} : Counts(u)' <=> Counts(u)
      /\ Pending(r)' = Pending(r) \ {q}
  BY <1>2, <1>4, PendingMoves
<1>6. /\ roster'[r] = members
      /\ phase'[r] = IF full THEN "playing" ELSE "waiting"
      /\ ~full => slots'[r] = slots[r]
      /\ \A v \in RoomID \ {r} :
           phase'[v] = phase[v] /\ roster'[v] = roster[v] /\ slots'[v] = slots[v]
  BY <1>4 DEF GamesSound, SlotsSound
<1>7. slots' \in [RoomID -> Int] /\ slots[r] \in Int
  <2>1. MaxPlayers \in Int
    BY DEF MatcherAssumption
  <2> QED
    BY <1>4, <2>1 DEF SlotsSound
<1>8. RoomCounts(r)'
  <2>1. IsFiniteSet(Pending(r)) /\ q \in Pending(r) /\ IsFiniteSet(roster[r])
    <3>1. IsFiniteSet(roster[r])
      BY FS_Subset DEF GamesSound, MatcherAssumption
    <3> QED
      BY <1>1, <1>2, <3>1 DEF SlotsSound, RoomCounts, Pending, Counts
  <2>2. IsFiniteSet(Pending(r)') /\ Cardinality(Pending(r)') = Cardinality(Pending(r)) - 1
    BY <1>5, <2>1, FS_RemoveElement
  <2>3. Cardinality(members) = Cardinality(roster[r]) + 1
    BY <1>4, <2>1, FS_AddElement
  <2>4. Cardinality(Pending(r)) \in Nat /\ Cardinality(roster[r]) \in Nat
    BY <2>1, FS_CardinalityType
  <2>5. slots[r] <= Cardinality(roster[r]) + Cardinality(Pending(r))
    BY <1>4 DEF SlotsSound, RoomCounts
  <2>6. slots[r] <= Cardinality(members) + Cardinality(Pending(r)')
    BY <1>7, <2>2, <2>3, <2>4, <2>5
  <2> QED
    BY <1>6, <2>2, <2>6 DEF RoomCounts
<1>9. \A u \in Request : Counts(u)' => RoomOf(u)' \in RoomID
  <2>1. ~Counts(q)'
    BY <1>4 DEF Counts, ClientsTyped
  <2> QED
    BY <1>5, <2>1, JoinsThere
<1> QED
  BY <1>2, <1>5, <1>6, <1>7, <1>8, <1>9, OneRoomCounts

\* A member that leaves sets the slots to the members that stay.
LEMMA LeaveKeepsSlots ==
  ASSUME MatcherAssumption, MatcherInv, ClientsTyped, JoinsTold, GamesSound, HostsSound,
         SlotsSound, NEW q \in Request, LeaveRoom(q), ~UNCHANGED <<roster, slots>>
  PROVE  SlotsSound'
<1>1. PICK r \in RoomID : r = RoomOf(q)
  BY DEF LeaveRoom, GamesSound, SlotsSound
<1> DEFINE left == roster[r] \ {PlayerOf(q)}
<1>2. /\ client[q] \in {"in", "refused"}
      /\ client' = [client EXCEPT ![q] = "out"]
      /\ UNCHANGED request /\ UNCHANGED phase
      /\ PlayerOf(q) \in roster[r]
      /\ roster' = [roster EXCEPT ![r] = left]
      /\ slots' = [slots EXCEPT ![r] = Cardinality(left)]
  BY <1>1 DEF LeaveRoom, vars
<1>3. phase[r] # "none"
  BY <1>2 DEF HostsSound
<1>4. IsFiniteSet(left) /\ Cardinality(left) \in Nat
  <2>1. IsFiniteSet(left)
    BY FS_Subset DEF GamesSound, MatcherAssumption
  <2> QED
    BY <2>1, FS_CardinalityType
<1> HIDE DEF left
<1>5. /\ \A u \in Request : RoomOf(u)' = RoomOf(u)
      /\ \A u \in Request \ {q} : Counts(u)' <=> Counts(u)
      /\ Pending(r)' = Pending(r) \ {q}
  BY <1>1, <1>2, PendingMoves
<1>6. ~Counts(q) /\ ~Counts(q)' /\ q \notin Pending(r)
  BY <1>2 DEF Counts, Pending, ClientsTyped
<1>7. RoomCounts(r)'
  <2>1. Pending(r)' = Pending(r) /\ IsFiniteSet(Pending(r))
    BY <1>5, <1>6 DEF SlotsSound, RoomCounts
  <2>2. Cardinality(Pending(r)) \in Nat
    BY <2>1, FS_CardinalityType
  <2>3. slots'[r] = Cardinality(left) /\ roster'[r] = left
    BY <1>2 DEF SlotsSound, GamesSound
  <2> QED
    BY <1>2, <1>3, <1>4, <2>1, <2>2, <2>3 DEF RoomCounts
<1>8. /\ \A v \in RoomID \ {r} :
           phase'[v] = phase[v] /\ roster'[v] = roster[v] /\ slots'[v] = slots[v]
      /\ slots' \in [RoomID -> Int]
  BY <1>2, <1>4 DEF SlotsSound, GamesSound
<1>9. \A u \in Request : Counts(u)' => RoomOf(u)' \in RoomID
  BY <1>5, <1>6, JoinsThere
<1> QED
  BY <1>1, <1>2, <1>3, <1>5, <1>6, <1>7, <1>8, <1>9, OneRoomCounts

\* The joins of a room that is gone do not count in the next one of its id.
LEMMA FinishKeepsSlots ==
  ASSUME MatcherAssumption, MatcherInv, ClientsTyped, JoinsTold, GamesSound, SlotsSound,
         NEW r \in RoomID, FinishGame(r)
  PROVE  SlotsSound'
<1>1. UNCHANGED request /\ client' = Unhandled({r}) /\ phase[r] = "playing"
  BY DEF FinishGame, vars
<1>2. \A u \in Request : RoomOf(u)' = RoomOf(u)
  BY <1>1 DEF RoomOf
<1>3. \A u \in Request : IF Counts(u) /\ RoomOf(u) = r
                         THEN ~Counts(u)' ELSE Counts(u)' <=> Counts(u)
  BY <1>1 DEF Unhandled, Counts
<1>4. Pending(r)' = {}
  BY <1>2, <1>3 DEF Pending, Counts
<1>5. /\ phase'[r] = "over" \/ (phase'[r] = "none" /\ slots'[r] = 0)
      /\ \A v \in RoomID \ {r} :
           phase'[v] = phase[v] /\ roster'[v] = roster[v] /\ slots'[v] = slots[v]
      /\ slots' \in [RoomID -> Int]
  BY DEF FinishGame, GamesSound, SlotsSound
<1>6. RoomCounts(r)'
  BY <1>4, <1>5, FS_EmptySet DEF RoomCounts
<1>7. \A u \in Request : Counts(u)' => RoomOf(u)' \in RoomID
  BY <1>2, <1>3, JoinsThere
<1> QED
  BY <1>2, <1>3, <1>4, <1>5, <1>6, <1>7, OneRoomCounts

LEMMA RestartKeepsSlots ==
  ASSUME MatcherInv, ClientsTyped, JoinsTold, GamesSound, SlotsSound,
         NEW s \in Server, RoomServerRestart(s)
  PROVE  SlotsSound'
<1>1. /\ \A v \in RoomID : IF host[v] = s
           THEN phase'[v] = "none" /\ slots'[v] = 0
           ELSE phase'[v] = phase[v] /\ roster'[v] = roster[v] /\ slots'[v] = slots[v]
      /\ slots' \in [RoomID -> Int]
      /\ UNCHANGED request
  BY DEF RoomServerRestart, vars, SlotsSound
<1>2. \A u \in Request : RoomOf(u)' = RoomOf(u)
  BY <1>1 DEF RoomOf
<1>3. \A u \in Request : Counts(u)' <=> Counts(u) /\ host[RoomOf(u)] # s
  BY DEF RoomServerRestart, Counts
<1>4. ASSUME NEW v \in RoomID
      PROVE  RoomCounts(v)'
  <2>1. CASE host[v] = s
    <3>1. Pending(v)' = {}
      BY <1>2, <1>3, <2>1 DEF Pending, Counts
    <3> QED
      BY <1>1, <2>1, <3>1, FS_EmptySet DEF RoomCounts
  <2>2. CASE host[v] # s
    <3>1. Pending(v)' = Pending(v)
      BY <1>2, <1>3, <2>2 DEF Pending, Counts
    <3> QED
      BY <1>1, <2>2, <3>1 DEF RoomCounts, SlotsSound
  <2> QED
    BY <2>1, <2>2
<1>5. ASSUME NEW u \in Request, Counts(u)'
      PROVE  phase'[RoomOf(u)'] # "none"
  <2>1. Counts(u) /\ host[RoomOf(u)] # s /\ RoomOf(u) \in RoomID
    BY <1>3, <1>5, JoinsThere
  <2> QED
    BY <1>1, <1>2, <2>1 DEF SlotsSound
<1> QED
  BY <1>1, <1>4, <1>5 DEF SlotsSound

LEMMA SlotsStep ==
  ASSUME MatcherAssumption, MatcherInv, MatcherInv', ClientsTyped, JoinsTold, JoinsTold',
         GamesSound, HostsSound, SlotsSound, SystemNext \/ UNCHANGED systemVars
  PROVE  SlotsSound'
<1>1. ASSUME UNCHANGED <<phase, roster, slots>>,
             \A u \in Request : Counts(u)' <=> Counts(u)
      PROVE  SlotsSound'
  <2>1. \A u \in Request : Counts(u) => RoomOf(u)' = RoomOf(u)
    BY ToldStays, SystemStepsMatcher DEF JoinsTold, RoomOf
  <2>2. \A r \in RoomID : Pending(r)' = Pending(r)
    BY <1>1, <2>1 DEF Pending, Counts
  <2> QED
    BY <1>1, <2>1, <2>2 DEF SlotsSound, RoomCounts
<1>2. ASSUME NEW q \in Request, NEW c, client' = [client EXCEPT ![q] = c],
             ~Counts(q), c \notin {"joining", "undo"}
      PROVE  \A u \in Request : Counts(u)' <=> Counts(u)
  BY <1>2 DEF Counts, ClientsTyped
<1>3. CASE Elsewhere \/ UNCHANGED systemVars \/ \E q \in Request : Ask(q) \/ Serve(q)
  <2>1. UNCHANGED <<phase, roster, slots>> /\ UNCHANGED client
    BY <1>3 DEF Elsewhere, Ask, Serve, systemVars, gameVars
  <2> QED
    BY <1>1, <2>1 DEF Counts
<1>4. ASSUME NEW q \in Request,
             Lose(q) \/ TokenExpired(q) \/ EntryFails(q) \/ TurnAway(q)
      PROVE  SlotsSound'
  <2>1. UNCHANGED <<phase, roster, slots>>
    BY <1>4 DEF Lose, TokenExpired, EntryFails, TurnAway, gameVars
  <2>2. /\ client[q] = "waits"
        /\ \E c \in {"refused", "out"} : client' = [client EXCEPT ![q] = c]
    BY <1>4 DEF Lose, TokenExpired, EntryFails, TurnAway, Admitted, Arrives
  <2> QED
    BY <1>1, <1>2, <2>1, <2>2 DEF Counts
<1>5. ASSUME NEW q \in Request, LeaveRoom(q)
      PROVE  SlotsSound'
  <2>1. CASE UNCHANGED <<roster, slots>>
    <3>1. /\ client[q] \in {"in", "refused"} /\ UNCHANGED phase
          /\ \E c \in {"refused", "out"} : client' = [client EXCEPT ![q] = c]
      BY <1>5 DEF LeaveRoom
    <3>2. \A u \in Request : Counts(u)' <=> Counts(u)
      BY <1>2, <3>1 DEF Counts
    <3> QED
      BY <1>1, <2>1, <3>1, <3>2
  <2>2. CASE ~UNCHANGED <<roster, slots>>
    BY <1>5, <2>2, LeaveKeepsSlots, MatcherAssumption
  <2> QED
    BY <2>1, <2>2
<1> QED
  BY <1>3, <1>4, <1>5, TakeKeepsSlots, ReturnKeepsSlots, AcceptKeepsSlots, FinishKeepsSlots,
     RestartKeepsSlots, MatcherAssumption DEF SystemNext

-----------------------------------------------------------------------------
(* Refusals.                                                               *)

\* A game starts with as many players as the room has seats: a seat besides is one that
\* a starter has lost.
LEMMA StartedExcuses ==
  ASSUME MatcherAssumption, MatcherInv, GamesSound, NEW r \in RoomID, NEW x \in Player,
         Seated(x, r), phase[r] \in {"playing", "over"}
  PROVE  x \in starters[r] \/ \E p \in starters[r] : ~Seated(p, r)
<1>1. starters[r] \in SUBSET Player /\ Cardinality(starters[r]) = MaxPlayers
  BY DEF GamesSound
<1>2. SUFFICES ASSUME x \notin starters[r], \A p \in starters[r] : Seated(p, r)
               PROVE  FALSE
  OBVIOUS
<1> DEFINE P == starters[r] \cup {x}
<1>3. P \in SUBSET Player /\ \A p \in P : Seated(p, r)
  BY <1>1, <1>2
<1>4. Cardinality(P) <= MaxPlayers
  BY <1>3, SeatedFit, MatcherAssumption
<1>5. IsFiniteSet(starters[r])
  BY <1>1, FS_Subset DEF MatcherAssumption
<1>6. Cardinality(P) = MaxPlayers + 1
  BY <1>1, <1>2, <1>5, FS_AddElement
<1>7. MaxPlayers \in Nat
  BY DEF MatcherAssumption
<1> HIDE DEF P
<1> QED
  BY <1>4, <1>6, <1>7

\* A room that is seated is on the list of its server, which has no more rooms than the
\* room server takes: one that is there instead has been pruned.
LEMMA FullServerExcuses ==
  ASSUME MatcherAssumption, MatcherInv, GamesSound, NEW r \in RoomID, NEW x \in Player,
         Seated(x, r), phase[r] = "none", ~(Cardinality(Indexed(host[r])) < MaxRooms)
  PROVE  \E u \in Indexed(host[r]) : \A p \in Player : ~Seated(p, u)
<1> DEFINE s == host[r]
<1>1. SUFFICES ASSUME \A u \in Indexed(s) : \E p \in Player : Seated(p, u)
               PROVE  FALSE
  OBVIOUS
<1>2. s \in Server /\ r \in rooms[s]
  BY SeatedIsListed
<1>3. ASSUME NEW u \in Indexed(s)
      PROVE  u \in rooms[s]
  <2>1. u \in RoomID /\ host[u] = s
    BY DEF Indexed
  <2>2. PICK p \in Player : Seated(p, u)
    BY <1>1
  <2> QED
    BY <2>1, <2>2, SeatedIsListed
<1>4. Indexed(s) \cup {r} \subseteq rooms[s] /\ r \notin Indexed(s)
  BY <1>2, <1>3 DEF Indexed
<1>5. IsFiniteSet(rooms[s]) /\ Cardinality(rooms[s]) <= MaxRooms
  BY <1>2 DEF MatcherInv, Sound, Bounded
<1>6. IsFiniteSet(Indexed(s)) /\ Cardinality(Indexed(s) \cup {r}) <= Cardinality(rooms[s])
  BY <1>4, <1>5, FS_Subset
<1>7. Cardinality(Indexed(s) \cup {r}) = Cardinality(Indexed(s)) + 1
  BY <1>4, <1>6, FS_AddElement
<1>8. Cardinality(Indexed(s)) \in Nat /\ Cardinality(rooms[s]) \in Nat
  BY <1>5, <1>6, FS_CardinalityType
<1>9. MaxRooms \in Nat
  BY DEF MatcherAssumption
<1> QED
  BY <1>5, <1>6, <1>7, <1>8, <1>9

\* Members and joins of a room that are all seated and all different fit in it.
LEMMA SeatedJoinsFit ==
  ASSUME MatcherAssumption, MatcherInv, JoinsTold, GamesSound, SlotsSound,
         NEW q \in Request, Arrives(q), NEW r \in RoomID, r = RoomOf(q),
         ~Counts(q), ~Doubled(Pending(r) \cup {q}, r),
         \A p \in roster[r] : Seated(p, r),
         \A u \in Pending(r) \cup {q} : Seated(PlayerOf(u), r)
  PROVE  Cardinality(roster[r]) + Cardinality(Pending(r)) + 1 <= MaxPlayers
<1> DEFINE J == Pending(r) \cup {q}
           f == [u \in J |-> PlayerOf(u)]
           P == {PlayerOf(u) : u \in J}
<1>1. IsFiniteSet(Pending(r)) /\ q \notin Pending(r)
  BY DEF SlotsSound, RoomCounts, Pending, Counts
<1>2. IsFiniteSet(J) /\ Cardinality(J) = Cardinality(Pending(r)) + 1
  BY <1>1, FS_AddElement
<1>3. P \in SUBSET Player
  <2>1. \A u \in J : Counts(u) \/ Arrives(u)
    BY DEF Pending, Counts
  <2>2. J \subseteq Request
    BY DEF Pending
  <2> QED
    BY <2>1, <2>2, JoinsThere
<1>4. roster[r] \in SUBSET Player /\ roster[r] \cap P = {}
  BY DEF GamesSound, Doubled
<1>5. f \in Injection(J, P)
  <2>1. f \in [J -> P]
    OBVIOUS
  <2>2. \A u, v \in J : f[u] = f[v] => u = v
    BY DEF Doubled
  <2> HIDE DEF f, P
  <2> QED
    BY <2>1, <2>2 DEF Injection, IsInjective
<1>6. \A p \in roster[r] \cup P : Seated(p, r)
  OBVIOUS
<1> HIDE DEF J, P, f
<1>7. IsFiniteSet(P) /\ IsFiniteSet(roster[r])
  BY <1>3, <1>4, FS_Subset DEF MatcherAssumption
<1>8. Cardinality(J) <= Cardinality(P)
  BY <1>5, <1>7, FS_Injection
<1>9. Cardinality(roster[r] \cup P) = Cardinality(roster[r]) + Cardinality(P)
  <2>1. Cardinality(roster[r] \cap P) = 0
    BY <1>4, FS_EmptySet
  <2>2. Cardinality(roster[r]) \in Nat /\ Cardinality(P) \in Nat
    BY <1>7, FS_CardinalityType
  <2>3. Cardinality(roster[r] \cup P) =
          Cardinality(roster[r]) + Cardinality(P) - Cardinality(roster[r] \cap P)
    BY <1>7, FS_Union
  <2> QED
    BY <2>1, <2>2, <2>3
<1>10. Cardinality(roster[r] \cup P) <= MaxPlayers
  BY <1>3, <1>4, <1>6, SeatedFit, MatcherAssumption
<1>11. /\ Cardinality(roster[r]) \in Nat /\ Cardinality(P) \in Nat
       /\ Cardinality(J) \in Nat /\ Cardinality(Pending(r)) \in Nat /\ MaxPlayers \in Nat
  BY <1>1, <1>2, <1>7, FS_CardinalityType DEF MatcherAssumption
<1> QED
  BY <1>2, <1>8, <1>9, <1>10, <1>11

\* TurnAway: the room has started or its server has no place for it.
LEMMA TurnAwayExcused ==
  ASSUME MatcherAssumption, MatcherInv, JoinsTold, GamesSound, NEW q \in Request,
         TurnAway(q), Seated(PlayerOf(q), RoomOf(q))
  PROVE  Excused(q)
<1>1. RoomOf(q) \in RoomID /\ PlayerOf(q) \in Player
  BY JoinsThere DEF TurnAway, Admitted
<1>2. CASE phase[RoomOf(q)] \in {"playing", "over"}
  BY <1>1, <1>2, StartedExcuses, MatcherAssumption DEF Excused
<1>3. CASE ~HasRoom(q)
  <2>1. /\ phase[RoomOf(q)] = "none"
        /\ ~(Cardinality(Indexed(host[RoomOf(q)])) < MaxRooms)
    BY <1>3 DEF HasRoom
  <2> QED
    BY <1>1, <2>1, FullServerExcuses, MatcherAssumption DEF Excused
<1> QED
  BY <1>2, <1>3 DEF TurnAway

\* TakeSlot: the slots are members and joins, and a room that is not there has none taken.
LEMMA TakeSlotExcused ==
  ASSUME MatcherAssumption, MatcherInv, JoinsTold, GamesSound, SlotsSound,
         NEW q \in Request, TakeSlot(q), slots[RoomOf(q)] + 1 > MaxPlayers,
         Seated(PlayerOf(q), RoomOf(q))
  PROVE  Excused(q)
<1>1. PICK r \in RoomID : r = RoomOf(q)
  BY JoinsThere DEF TakeSlot, Admitted
<1>2. phase[r] \in {"none", "waiting"} /\ Arrives(q) /\ ~Counts(q)
  BY <1>1 DEF TakeSlot, Admitted, Arrives, Counts
<1>3. phase[r] = "waiting"
  <2>1. phase[r] = "none" => slots[r] = 0
    BY DEF SlotsSound, RoomCounts
  <2>2. slots[r] + 1 > MaxPlayers /\ MaxPlayers \in Nat \ {0}
    BY <1>1 DEF MatcherAssumption
  <2>3. slots[r] # 0
    BY <2>2
  <2> QED
    BY <1>2, <2>1, <2>3
<1>4. SUFFICES ASSUME ~Doubled(Pending(r) \cup {q}, r),
                      \A p \in roster[r] : Seated(p, r),
                      \A u \in Pending(r) \cup {q} : Seated(PlayerOf(u), r)
               PROVE  FALSE
  BY <1>1, <1>3 DEF Excused
<1>5. Cardinality(roster[r]) + Cardinality(Pending(r)) + 1 <= MaxPlayers
  BY <1>1, <1>2, <1>4, SeatedJoinsFit, MatcherAssumption
<1>6. slots[r] <= Cardinality(roster[r]) + Cardinality(Pending(r))
  BY <1>3 DEF SlotsSound, RoomCounts
<1>7. /\ Cardinality(roster[r]) \in Nat /\ Cardinality(Pending(r)) \in Nat
      /\ slots[r] \in Int /\ MaxPlayers \in Nat
  <2>1. IsFiniteSet(roster[r]) /\ IsFiniteSet(Pending(r))
    BY FS_Subset DEF GamesSound, SlotsSound, RoomCounts, MatcherAssumption
  <2> QED
    BY <2>1, FS_CardinalityType DEF SlotsSound, MatcherAssumption
<1> QED
  BY <1>1, <1>5, <1>6, <1>7

\* RefuseJoin: the game has started, or the player is there already.
LEMMA RefuseJoinExcused ==
  ASSUME MatcherAssumption, MatcherInv, JoinsTold, GamesSound, HostsSound,
         NEW q \in Request, RefuseJoin(q), Seated(PlayerOf(q), RoomOf(q))
  PROVE  Excused(q)
<1>1. RoomOf(q) \in RoomID /\ PlayerOf(q) \in Player
  BY JoinsThere DEF RefuseJoin, Counts
<1>2. CASE phase[RoomOf(q)] = "playing"
  BY <1>1, <1>2, StartedExcuses, MatcherAssumption DEF Excused
<1>3. CASE PlayerOf(q) \in roster[RoomOf(q)] /\ phase[RoomOf(q)] # "playing"
  <2>1. phase[RoomOf(q)] = "waiting"
    BY <1>1, <1>3 DEF HostsSound, GamesSound
  <2>2. Doubled(Pending(RoomOf(q)) \cup {q}, RoomOf(q))
    BY <1>3 DEF Doubled
  <2> QED
    BY <2>1, <2>2 DEF Excused
<1> QED
  BY <1>2, <1>3 DEF RefuseJoin

\* Nothing else refuses a client that waits or has joined.
LEMMA OnlyTheseRefuse ==
  ASSUME ClientsTyped, SystemNext \/ UNCHANGED systemVars, NEW q \in Request,
         client[q] \in {"waits", "joining"}, client'[q] \in {"undo", "refused"}
  PROVE  \/ TurnAway(q) \/ RefuseJoin(q)
         \/ TakeSlot(q) /\ slots[RoomOf(q)] + 1 > MaxPlayers
<1>1. ASSUME UNCHANGED client
      PROVE  FALSE
  BY <1>1
<1>2. ASSUME NEW u \in Request, NEW c, client' = [client EXCEPT ![u] = c],
             c \notin {"undo", "refused"}
      PROVE  FALSE
  BY <1>2 DEF ClientsTyped
<1>3. ASSUME NEW u \in Request, NEW c, client' = [client EXCEPT ![u] = c]
      PROVE  u = q
  BY <1>3 DEF ClientsTyped
<1>4. ASSUME NEW u \in Request,
             \/ Lose(u) \/ TokenExpired(u) \/ EntryFails(u) \/ JoinFails(u) \/ AcceptJoin(u)
             \/ LeaveRoom(u)
      PROVE  FALSE
  <2>1. client' = [client EXCEPT ![u] = "in"] \/ client' = [client EXCEPT ![u] = "out"]
    BY <1>4 DEF Lose, TokenExpired, EntryFails, JoinFails, AcceptJoin, LeaveRoom
  <2> QED
    BY <1>2, <2>1
<1>5. ASSUME NEW u \in Request, TurnAway(u) \/ RefuseJoin(u) \/ ReturnSlot(u)
      PROVE  TurnAway(q) \/ RefuseJoin(q)
  <2>1. client' = [client EXCEPT ![u] = "refused"]
    BY <1>5 DEF TurnAway, RefuseJoin, ReturnSlot
  <2>2. u = q
    BY <1>3, <2>1
  <2> QED
    BY <1>5, <2>2 DEF ReturnSlot
<1>6. ASSUME NEW u \in Request, TakeSlot(u)
      PROVE  TakeSlot(q) /\ slots[RoomOf(q)] + 1 > MaxPlayers
  <2>1. client' = [client EXCEPT ![u] = IF slots[RoomOf(u)] + 1 > MaxPlayers
                                        THEN "undo" ELSE "joining"]
    BY <1>6 DEF TakeSlot
  <2>2. u = q
    BY <1>3, <2>1
  <2>3. client'[q] # "joining"
    OBVIOUS
  <2> QED
    BY <1>6, <2>1, <2>2, <2>3 DEF ClientsTyped
<1>7. ASSUME \/ Elsewhere \/ UNCHANGED systemVars
             \/ \E u \in Request : Ask(u) \/ Serve(u)
      PROVE  UNCHANGED client
  BY <1>7 DEF Elsewhere, Ask, Serve, systemVars
<1>8. ASSUME (\E r \in RoomID : FinishGame(r)) \/ (\E s \in Server : RoomServerRestart(s))
      PROVE  FALSE
  BY <1>8 DEF FinishGame, Unhandled, RoomServerRestart
<1> QED
  BY <1>1, <1>4, <1>5, <1>6, <1>7, <1>8 DEF SystemNext

\* What holds of clients, games, hosts and slots together.
SystemInv == ClientsTyped /\ JoinsTold /\ GamesSound /\ HostsSound /\ SlotsSound

LEMMA SystemInvInit == SystemInit => SystemInv
<1> SUFFICES ASSUME SystemInit PROVE SystemInv
  OBVIOUS
<1>1. ClientsTyped /\ JoinsTold
  BY DEF SystemInit, ClientsTyped, JoinsTold, Counts
<1>2. GamesSound /\ HostsSound
  BY DEF SystemInit, Init, GamesSound, HostsSound
<1>3. \A r \in RoomID : Pending(r) = {}
  BY DEF SystemInit, Pending
<1>4. SlotsSound
  BY <1>3, FS_EmptySet DEF SystemInit, SlotsSound, RoomCounts, Counts
<1> QED
  BY <1>1, <1>2, <1>4 DEF SystemInv

LEMMA SystemInvStep ==
  MatcherInv /\ MatcherInv' /\ SystemInv /\ [SystemNext]_systemVars => SystemInv'
<1> SUFFICES ASSUME MatcherInv, MatcherInv', SystemInv, SystemNext \/ UNCHANGED systemVars
             PROVE  SystemInv'
  OBVIOUS
<1>1. ClientsTyped' /\ JoinsTold'
  BY ClientsStep, JoinsToldStep DEF SystemInv
<1>2. GamesSound'
  BY GamesStep, MatcherAssumption DEF SystemInv
<1>3. HostsSound'
  BY <1>2, HostsStep, MatcherAssumption DEF SystemInv
<1>4. SlotsSound'
  BY <1>1, SlotsStep, MatcherAssumption DEF SystemInv
<1> QED
  BY <1>1, <1>2, <1>3, <1>4 DEF SystemInv

LEMMA SystemAlwaysSound == SystemSpec => []SystemInv
BY SystemInvInit, SystemInvStep, MatcherAlwaysSound, PTL DEF SystemSpec

\* For any servers, rooms, seats, joins and restarts: the join of a player whose seat the
\* match server holds is refused, by the counter of slots or by the room, only where a
\* seat has lapsed, a game has started with the player in it, or somebody joins twice
\* (findAvailableRoom, createRoom, Join, handleJoinEvent, getOrCreateRoom).
THEOREM RefusalsHaveReasons == SystemSpec => RefusalExplained
<1> DEFINE Explained ==
             \A q \in Request :
               /\ client[q] \in {"waits", "joining"}
               /\ client'[q] \in {"undo", "refused"}
               /\ Seated(PlayerOf(q), RoomOf(q))
               => Excused(q)
<1>1. MatcherInv /\ SystemInv /\ [SystemNext]_systemVars => [Explained]_systemVars
  <2>1. ASSUME MatcherInv, SystemInv, SystemNext \/ UNCHANGED systemVars
        PROVE  Explained
    BY <2>1, OnlyTheseRefuse, TurnAwayExcused, TakeSlotExcused, RefuseJoinExcused,
       MatcherAssumption DEF SystemInv
  <2> QED
    BY <2>1
<1> QED
  BY <1>1, MatcherAlwaysSound, SystemAlwaysSound, PTL DEF SystemSpec, RefusalExplained

-----------------------------------------------------------------------------
(* The room servers are Lobbies.                                           *)

-----------------------------------------------------------------------------
\* What the servers see of a step that changes one room at most.
LEMMA OthersSee ==
  ASSUME NEW r \in RoomID, UNCHANGED host,
         \A v \in RoomID \ {r} : phase'[v] = phase[v] /\ roster'[v] = roster[v],
         NEW s \in Server, host[r] # s
  PROVE  PhasesAt(s)' = PhasesAt(s) /\ RostersAt(s)' = RostersAt(s)
BY DEF PhasesAt, RostersAt

\* And what the server of the room sees of it.
LEMMA HostSees ==
  ASSUME NEW r \in RoomID, UNCHANGED host,
         \A v \in RoomID \ {r} : phase'[v] = phase[v] /\ roster'[v] = roster[v],
         NEW s \in Server, host[r] = s
  PROVE  /\ PhasesAt(s)[r] = phase[r] /\ RostersAt(s)[r] = roster[r]
         /\ PhasesAt(s)' = [PhasesAt(s) EXCEPT ![r] = phase'[r]]
         /\ RostersAt(s)' = [RostersAt(s) EXCEPT ![r] = roster'[r]]
BY DEF PhasesAt, RostersAt

\* getOrCreateRoom finds a place when the Lobby has one.
LEMMA PlaceAt ==
  ASSUME NEW s \in Server
  PROVE  LobbyAt(s)!Place <=> Cardinality(Indexed(s)) < MaxRooms
<1>1. {i \in RoomID : PhasesAt(s)[i] # "none"} = Indexed(s)
  BY DEF PhasesAt, Indexed
<1>2. \A S : LobbyAt(s)!Cardinality(S) = Cardinality(S)
  BY Zenon DEF LobbyAt!Cardinality, Cardinality, LobbyAt!IsFiniteSet, IsFiniteSet
<1> QED
  BY <1>1, <1>2 DEF LobbyAt!Place

\* So a step in room r is a stutter for every server but the one of the room.
LEMMA OneServerSees ==
  ASSUME NEW r \in RoomID, UNCHANGED host,
         \A v \in RoomID \ {r} : phase'[v] = phase[v] /\ roster'[v] = roster[v],
         NEW h \in Server, host[r] = h, LobbyAt(h)!Next
  PROVE  \A s \in Server :
           UNCHANGED <<PhasesAt(s), RostersAt(s)>> \/ LobbyAt(s)!Next
<1> SUFFICES ASSUME NEW s \in Server, s # h
             PROVE  UNCHANGED <<PhasesAt(s), RostersAt(s)>>
  OBVIOUS
<1> QED
  BY OthersSee

\* Who comes into a room enters it, in the Lobby of its server.
LEMMA AcceptIsSeen ==
  ASSUME MatcherInv, JoinsTold, GamesSound, HostsSound, NEW q \in Request, AcceptJoin(q)
  PROVE  \A s \in Server :
           UNCHANGED <<PhasesAt(s), RostersAt(s)>> \/ LobbyAt(s)!Next
<1>1. RoomOf(q) \in RoomID /\ PlayerOf(q) \in Player /\ host[RoomOf(q)] \in Server
  BY ArrivesThere DEF AcceptJoin, Counts
<1>2. PICK r \in RoomID, p \in Player, h \in Server :
        r = RoomOf(q) /\ p = PlayerOf(q) /\ h = host[RoomOf(q)]
  BY <1>1
<1> DEFINE full == Cardinality(roster[r] \cup {p}) = MaxPlayers
<1>3. /\ phase[r] = "waiting"
      /\ p \notin roster[r]
      /\ roster' = [roster EXCEPT ![r] = roster[r] \cup {p}]
      /\ phase' = [phase EXCEPT ![r] = IF full THEN "playing" ELSE phase[r]]
      /\ UNCHANGED host
  BY <1>2 DEF AcceptJoin
<1>4. full <=> LobbyAt(h)!Cardinality(roster[r] \cup {p}) = MaxPlayers
  BY Zenon DEF LobbyAt!Cardinality, Cardinality, LobbyAt!IsFiniteSet, IsFiniteSet
<1> HIDE DEF full
<1>5. /\ \A v \in RoomID \ {r} : phase'[v] = phase[v] /\ roster'[v] = roster[v]
      /\ phase'[r] = (IF full THEN "playing" ELSE "waiting")
      /\ roster'[r] = roster[r] \cup {p}
  BY <1>3 DEF GamesSound
<1>6. /\ PhasesAt(h)[r] = phase[r] /\ RostersAt(h)[r] = roster[r]
      /\ PhasesAt(h)' = [PhasesAt(h) EXCEPT ![r] = phase'[r]]
      /\ RostersAt(h)' = [RostersAt(h) EXCEPT ![r] = roster'[r]]
  BY <1>2, <1>3, <1>5, HostSees
<1>7. LobbyAt(h)!Enter(r, p)
  BY <1>3, <1>4, <1>5, <1>6 DEF LobbyAt!Enter
<1>8. LobbyAt(h)!Next
  BY <1>7 DEF LobbyAt!Next
<1> QED
  BY <1>2, <1>3, <1>5, <1>8, OneServerSees

\* The first join of a room opens it, where there is a place; the next take a slot only.
LEMMA TakeIsSeen ==
  ASSUME MatcherInv, JoinsTold, GamesSound, HostsSound, NEW q \in Request, TakeSlot(q)
  PROVE  \A s \in Server :
           UNCHANGED <<PhasesAt(s), RostersAt(s)>> \/ LobbyAt(s)!Next
<1>1. RoomOf(q) \in RoomID /\ host[RoomOf(q)] \in Server
  BY ArrivesThere DEF TakeSlot, Admitted
<1>2. PICK r \in RoomID, h \in Server : r = RoomOf(q) /\ h = host[RoomOf(q)]
  BY <1>1
<1>3. /\ phase[r] = "waiting" \/ (phase[r] = "none" /\ Cardinality(Indexed(h)) < MaxRooms)
      /\ phase' = [phase EXCEPT ![r] = "waiting"]
      /\ UNCHANGED host /\ UNCHANGED roster
  BY <1>2 DEF TakeSlot, HasRoom
<1>4. CASE phase[r] = "waiting"
  <2>1. phase' = phase
    BY <1>3, <1>4 DEF GamesSound
  <2> QED
    BY <1>3, <2>1 DEF PhasesAt, RostersAt
<1>5. CASE phase[r] = "none"
  <2>1. /\ \A v \in RoomID \ {r} : phase'[v] = phase[v] /\ roster'[v] = roster[v]
        /\ phase'[r] = "waiting"
    BY <1>3 DEF GamesSound
  <2>2. /\ PhasesAt(h)[r] = phase[r]
        /\ PhasesAt(h)' = [PhasesAt(h) EXCEPT ![r] = phase'[r]]
    BY <1>2, <1>3, <2>1, HostSees
  <2>3. RostersAt(h)' = RostersAt(h)
    BY <1>3 DEF RostersAt
  <2>4. LobbyAt(h)!Open(r)
    BY <1>3, <1>5, <2>1, <2>2, <2>3, PlaceAt DEF LobbyAt!Open
  <2>5. LobbyAt(h)!Next
    BY <2>4 DEF LobbyAt!Next
  <2> QED
    BY <1>2, <1>3, <2>1, <2>5, OneServerSees
<1> QED
  BY <1>3, <1>4, <1>5

\* A player who was not in the room, or stays in it, has left nothing.
LEMMA LeaveIsSeen ==
  ASSUME MatcherAssumption, MatcherInv, GamesSound, HostsSound,
         NEW q \in Request, LeaveRoom(q)
  PROVE  \A s \in Server :
           UNCHANGED <<PhasesAt(s), RostersAt(s)>> \/ LobbyAt(s)!Next
<1>1. UNCHANGED <<host, phase>>
  BY DEF LeaveRoom
<1>2. CASE UNCHANGED roster
  BY <1>1, <1>2 DEF PhasesAt, RostersAt
<1>3. CASE /\ roster' = [roster EXCEPT ![RoomOf(q)] = roster[RoomOf(q)] \ {PlayerOf(q)}]
           /\ roster' # roster
  <2>1. PICK r \in RoomID : r = RoomOf(q) /\ PlayerOf(q) \in roster[r]
    BY <1>3 DEF GamesSound
  <2>2. PlayerOf(q) \in Player /\ phase[r] \in {"waiting", "playing"}
    BY <2>1 DEF GamesSound, HostsSound
  <2>3. host[r] \in Server
    BY <2>2 DEF GamesSound, HostsSound
  <2>4. PICK p \in Player, h \in Server : p = PlayerOf(q) /\ h = host[r]
    BY <2>2, <2>3
  <2>5. /\ \A v \in RoomID \ {r} : phase'[v] = phase[v] /\ roster'[v] = roster[v]
        /\ roster'[r] = roster[r] \ {p}
    BY <1>1, <1>3, <2>1, <2>4 DEF GamesSound
  <2>6. /\ PhasesAt(h)[r] = phase[r] /\ RostersAt(h)[r] = roster[r]
        /\ RostersAt(h)' = [RostersAt(h) EXCEPT ![r] = roster'[r]]
    BY <1>1, <2>4, <2>5, HostSees
  <2>7. PhasesAt(h)' = PhasesAt(h)
    BY <1>1 DEF PhasesAt
  <2>8. LobbyAt(h)!Quit(r, p)
    BY <2>1, <2>2, <2>4, <2>5, <2>6, <2>7 DEF LobbyAt!Quit
  <2>9. LobbyAt(h)!Next
    BY <2>8 DEF LobbyAt!Next
  <2> QED
    BY <1>1, <2>4, <2>5, <2>9, OneServerSees
<1> QED
  BY <1>2, <1>3 DEF LeaveRoom

\* A game that ends.
LEMMA FinishIsSeen ==
  ASSUME MatcherAssumption, GamesSound, HostsSound, NEW r \in RoomID, FinishGame(r)
  PROVE  \A s \in Server :
           UNCHANGED <<PhasesAt(s), RostersAt(s)>> \/ LobbyAt(s)!Next
<1>1. phase[r] = "playing" /\ UNCHANGED host
  BY DEF FinishGame
<1>2. host[r] \in Server
  BY <1>1 DEF GamesSound, HostsSound
<1>3. PICK h \in Server : h = host[r]
  BY <1>2
<1>4. /\ \A v \in RoomID \ {r} : phase'[v] = phase[v] /\ roster'[v] = roster[v]
      /\ phase'[r] = (IF roster[r] = {} THEN "over" ELSE "none")
      /\ roster'[r] = {}
  BY DEF FinishGame, GamesSound
<1>5. /\ PhasesAt(h)[r] = phase[r] /\ RostersAt(h)[r] = roster[r]
      /\ PhasesAt(h)' = [PhasesAt(h) EXCEPT ![r] = phase'[r]]
      /\ RostersAt(h)' = [RostersAt(h) EXCEPT ![r] = roster'[r]]
  BY <1>1, <1>3, <1>4, HostSees
<1>6. LobbyAt(h)!Finish(r)
  BY <1>1, <1>4, <1>5 DEF LobbyAt!Finish
<1>7. LobbyAt(h)!Next
  BY <1>6 DEF LobbyAt!Next
<1> QED
  BY <1>1, <1>3, <1>4, <1>7, OneServerSees

\* A restart is one for its server, and the others do not see it.
LEMMA RestartIsSeen ==
  ASSUME NEW u \in Server, RoomServerRestart(u), NEW s \in Server
  PROVE  UNCHANGED <<PhasesAt(s), RostersAt(s)>> \/ LobbyAt(s)!Next
<1>1. /\ phase' = [r \in RoomID |-> IF host[r] = u THEN "none" ELSE phase[r]]
      /\ roster' = [r \in RoomID |-> IF host[r] = u THEN {} ELSE roster[r]]
      /\ UNCHANGED host
  BY DEF RoomServerRestart
<1>2. CASE s = u
  <2>1. LobbyAt(s)!Restart
    BY <1>1, <1>2 DEF LobbyAt!Restart, PhasesAt, RostersAt
  <2> QED
    BY <2>1 DEF LobbyAt!Next
<1>3. CASE s # u
  BY <1>1, <1>3 DEF PhasesAt, RostersAt
<1> QED
  BY <1>2, <1>3

\* The room of an id that is new has no host, and then one that does not have it yet.
LEMMA ServeIsNotSeen ==
  ASSUME MatcherAssumption, MatcherInv, GamesSound, HostsSound,
         NEW q \in Request, Serve(q), NEW s \in Server
  PROVE  UNCHANGED <<PhasesAt(s), RostersAt(s)>>
<1>1. UNCHANGED <<phase, roster>>
  BY DEF Serve, gameVars
<1>2. CASE UNCHANGED host
  BY <1>1, <1>2 DEF PhasesAt, RostersAt
<1>3. ASSUME NEW u \in Server, host' = [host EXCEPT ![NewID] = u], made < NumIDs
      PROVE  UNCHANGED <<PhasesAt(s), RostersAt(s)>>
  <2>1. made \in Nat
    BY DEF MatcherInv
  <2>2. PICK r \in RoomID : r = NewID /\ ~(r <= made)
    BY <1>3, <2>1, MatcherAssumption DEF NewID, RoomID, MatcherAssumption
  <2>3. host[r] = None /\ phase[r] = "none" /\ roster[r] = {}
    BY <2>2 DEF HostsSound
  <2>4. host[r] # s
    BY <2>3, ServerIsNotNone, MatcherAssumption
  <2>5. \A v \in RoomID \ {r} : host'[v] = host[v]
    BY <1>3, <2>2 DEF GamesSound
  <2> QED
    BY <1>1, <2>3, <2>4, <2>5 DEF PhasesAt, RostersAt
<1> QED
  BY <1>2, <1>3 DEF Serve, Make

\* Every room server keeps the promises of a Lobby, whoever comes to it with a token and
\* whichever server restarts (getOrCreateRoom, handleJoinEvent, handleLeaveEvent,
\* finishRoom).  RoomServer keeps them too (ServerIsLobby).
THEOREM ServersAreLobbies == SystemSpec => ImplementLobbies
<1> DEFINE Seen == \/ UNCHANGED <<host, phase, roster>>
                   \/ \A s \in Server : \/ UNCHANGED <<PhasesAt(s), RostersAt(s)>>
                                        \/ LobbyAt(s)!Next
<1>1. SystemInit => \A s \in Server : LobbyAt(s)!Init
  BY DEF SystemInit, LobbyAt!Init, PhasesAt, RostersAt
<1>2. ASSUME MatcherInv, SystemInv, [SystemNext]_systemVars
      PROVE  Seen
  <2> USE DEF SystemInv
  <2>1. CASE UNCHANGED <<host, phase, roster>>
    BY <2>1
  <2>2. ASSUME NEW q \in Request, Serve(q)
        PROVE  Seen
    BY <1>2, <2>2, ServeIsNotSeen, MatcherAssumption
  <2>3. ASSUME NEW q \in Request, AcceptJoin(q) \/ TakeSlot(q) \/ LeaveRoom(q)
        PROVE  Seen
    BY <1>2, <2>3, AcceptIsSeen, TakeIsSeen, LeaveIsSeen, MatcherAssumption
  <2>4. ASSUME NEW r \in RoomID, FinishGame(r)
        PROVE  Seen
    BY <1>2, <2>4, FinishIsSeen, MatcherAssumption
  <2>5. ASSUME NEW s \in Server, RoomServerRestart(s)
        PROVE  Seen
    BY <2>5, RestartIsSeen
  <2>6. ASSUME NEW q \in Request, Ask(q) \/ Aside(q)
        PROVE  UNCHANGED <<host, phase, roster>>
    BY <2>6, AsideKeeps DEF Ask, gameVars
  <2>7. Elsewhere \/ UNCHANGED systemVars => UNCHANGED <<host, phase, roster>>
    BY DEF Elsewhere, systemVars, gameVars
  <2> HIDE DEF Seen
  <2> QED
    BY <1>2, <2>1, <2>2, <2>3, <2>4, <2>5, <2>6, <2>7 DEF SystemNext, Seen, Aside
<1>3. MatcherInv /\ SystemInv /\ [SystemNext]_systemVars => [Seen]_systemVars
  BY <1>2
<1>4. [][Seen]_systemVars /\ (\A s \in Server : LobbyAt(s)!Init) => ImplementLobbies
  BY PTL DEF ImplementLobbies
<1> HIDE DEF Seen
<1> QED
  BY <1>1, <1>3, <1>4, MatcherAlwaysSound, SystemAlwaysSound, PTL DEF SystemSpec

-----------------------------------------------------------------------------
(* Types.                                                                  *)

\* What a request may be at.
Asked ==
  [at : {"new", "full", "error"}]
    \cup [at : {"begun"}, key : Key, now : 0..MaxTime]
    \cup [at : {"done"}, key : Key, seat : Reservation, life : 0..MaxLives]

\* What TypeOK says beyond the invariants above.
Counted == clock \in 0..MaxTime /\ made \in 0..NumIDs /\ life \in 0..MaxLives
Kept ==
  /\ mode \in [RoomID -> Mode \cup {None}]
  /\ reservations \in [Key -> Reservation \cup {None}]
  /\ request \in [Request -> Asked]

\* The answers there are.
LEMMA RequestIsAsked ==
  /\ [at |-> "error"] \in Asked /\ [at |-> "full"] \in Asked
  /\ \A k \in Key, t \in 0..MaxTime : [at |-> "begun", key |-> k, now |-> t] \in Asked
  /\ \A k \in Key, s \in Reservation, l \in 0..MaxLives :
       [at |-> "done", key |-> k, seat |-> s, life |-> l] \in Asked
BY DEF Asked

\* What a request brings to the lock.
LEMMA LockedNow ==
  ASSUME Kept, NEW q \in Request, Locked(q)
  PROVE  request[q].key \in Key /\ request[q].key[2] \in Mode /\ request[q].now \in 0..MaxTime
<1>1. request[q] \in Asked /\ request[q].at = "begun"
  BY DEF Kept, Locked
<1>2. request[q] \in [at : {"begun"}, key : Key, now : 0..MaxTime]
  BY <1>1 DEF Asked
<1> QED
  BY <1>2 DEF Key

\* The seat of a player, given at any reading of the clock.
LEMMA SeatTyped ==
  ASSUME MatcherAssumption, Counted, NEW t \in 0..MaxTime, NEW r \in RoomID
  PROVE  [room |-> r, expireAt |-> t + Expire, exp |-> TokenExp] \in Reservation
<1>1. /\ Expire \in Nat \ {0} /\ Second \in Nat \ {0} /\ MaxTime \in Nat
      /\ clock \in 0..MaxTime
  BY DEF MatcherAssumption, Counted
<1> DEFINE a == clock + Expire
           x == a \div Second
<1>2. a \in Nat /\ a <= MaxTime + Expire
  BY <1>1
<1> HIDE DEF a
<1>3. x \in Int /\ Second * x <= a /\ a < Second * x + Second
  BY <1>1, <1>2
<1> HIDE DEF x
<1>4. x \in Nat
  <2>1. CASE x < 0
    <3>1. Second * x + Second = Second * (x + 1) /\ x + 1 <= 0
      BY <1>1, <1>3, <2>1
    <3>2. Second * (x + 1) <= 0
      BY <1>1, <1>3, <3>1
    <3> QED
      BY <1>1, <1>2, <1>3, <3>1, <3>2
  <2> QED
    BY <1>3, <2>1
<1>5. x <= Second * x
  BY <1>1, <1>4
<1>6. x \in 0..(MaxTime + Expire)
  BY <1>1, <1>2, <1>3, <1>4, <1>5
<1>7. t + Expire \in Expire..(MaxTime + Expire)
  BY <1>1
<1> QED
  BY <1>6, <1>7 DEF Reservation, TokenExp, x, a

\* The critical section puts its seats in the index and tells them, or an error.
LEMMA GivenTyped ==
  ASSUME MatcherAssumption, Counted, Kept, NEW q \in Request, NeedsSeat(q),
         NEW r \in RoomID, Reserve(q, r) \/ SignFails(q)
  PROVE  /\ reservations' \in [Key -> Reservation \cup {None}]
         /\ request' \in [Request -> Asked]
<1> DEFINE k == request[q].key
           t == request[q].now
           seat == [room |-> r, expireAt |-> t + Expire, exp |-> TokenExp]
<1>1. k \in Key /\ t \in 0..MaxTime
  BY LockedNow DEF NeedsSeat
<1>2. seat \in Reservation
  BY <1>1, SeatTyped, MatcherAssumption
<1>3. /\ KeptReservations(t) \in [Key -> Reservation \cup {None}]
      /\ request \in [Request -> Asked]
  BY DEF KeptReservations, Kept
<1>4. [at |-> "error"] \in Asked /\ Told(k, seat) \in Asked
  BY <1>1, <1>2, RequestIsAsked DEF Told, Counted
<1> HIDE DEF seat, k, t
<1>5. CASE Reserve(q, r)
  <2>1. /\ reservations' = [KeptReservations(t) EXCEPT ![k] = seat]
        /\ request' = [request EXCEPT ![q] = Told(k, seat)]
    BY <1>5 DEF Reserve, k, t, seat
  <2> QED
    BY <1>2, <1>3, <1>4, <2>1
<1>6. CASE SignFails(q)
  <2>1. /\ reservations' = KeptReservations(t)
        /\ request' = [request EXCEPT ![q] = [at |-> "error"]]
    BY <1>6 DEF SignFails, t
  <2> QED
    BY <1>3, <1>4, <2>1
<1> QED
  BY <1>5, <1>6

\* Every step of the match server keeps its index, its answers and its counts typed.
LEMMA KeptStep ==
  ASSUME MatcherAssumption, MatcherInv, Counted, Kept, [Next]_vars
  PROVE  Counted' /\ Kept'
<1>1. /\ MaxTime \in Nat /\ NumIDs \in Nat /\ MaxLives \in Nat
      /\ clock \in 0..MaxTime /\ made \in 0..NumIDs /\ life \in 0..MaxLives
      /\ mode \in [RoomID -> Mode \cup {None}]
      /\ reservations \in [Key -> Reservation \cup {None}]
      /\ request \in [Request -> Asked]
  BY DEF MatcherAssumption, Counted, Kept
<1>2. ASSUME Counted',
             mode' \in [RoomID -> Mode \cup {None}],
             reservations' \in [Key -> Reservation \cup {None}],
             request' \in [Request -> Asked]
      PROVE  Counted' /\ Kept'
  <2>1. UNCHANGED <<RoomID, Key, Reservation, Asked>>
    BY DEF RoomID, Key, Reservation, Asked
  <2> QED
    BY <1>2, <2>1 DEF Kept
<1>3. CASE UNCHANGED vars
  BY <1>1, <1>2, <1>3 DEF vars, Counted
<1>4. CASE Advance
  BY <1>1, <1>2, <1>4 DEF Advance, Counted
<1>5. ASSUME NEW q \in Request, NEW k \in Key, Begin(q, k)
      PROVE  Counted' /\ Kept'
  BY <1>1, <1>2, <1>5, RequestIsAsked DEF Begin, Counted
<1>6. CASE Restart
  BY <1>1, <1>2, <1>6, RequestIsAsked DEF Restart, Counted
<1>7. ASSUME NEW q \in Request, Reuse(q)
      PROVE  Counted' /\ Kept'
  <2> DEFINE k == request[q].key
             t == request[q].now
  <2>1. k \in Key
    BY <1>7, LockedNow DEF Reuse
  <2>2. /\ KeptReservations(t)[k] # None /\ reservations' = KeptReservations(t)
        /\ request' = [request EXCEPT ![q] = Told(k, reservations[k])]
        /\ UNCHANGED <<clock, mode, made, life>>
    BY <1>7 DEF Reuse
  <2>3. reservations[k] \in Reservation
    BY <1>1, <2>1, <2>2 DEF KeptReservations
  <2>4. Told(k, reservations[k]) \in Asked
    BY <1>1, <2>1, <2>3, RequestIsAsked DEF Told
  <2>5. KeptReservations(t) \in [Key -> Reservation \cup {None}]
    BY <1>1 DEF KeptReservations
  <2> HIDE DEF k, t
  <2> QED
    BY <1>1, <1>2, <2>2, <2>4, <2>5 DEF Counted
<1>8. ASSUME NEW q \in Request, Refuse(q)
      PROVE  Counted' /\ Kept'
  <2>1. KeptReservations(request[q].now) \in [Key -> Reservation \cup {None}]
    BY <1>1 DEF KeptReservations
  <2>2. PICK w \in {[at |-> "full"], [at |-> "error"]} :
          request' = [request EXCEPT ![q] = w]
    BY <1>8 DEF Refuse
  <2>3. w \in Asked
    BY <2>2, RequestIsAsked
  <2>4. reservations' = KeptReservations(request[q].now) /\ UNCHANGED <<clock, mode, made, life>>
    BY <1>8 DEF Refuse
  <2> QED
    BY <1>1, <1>2, <2>1, <2>2, <2>3, <2>4 DEF Counted
<1>9. ASSUME NEW q \in Request, NEW s \in Server, Join(q, s)
      PROVE  Counted' /\ Kept'
  <2> DEFINE t == request[q].now
  <2>1. PICK r \in Available(s, request[q].key[2], t) : Reserve(q, r) \/ SignFails(q)
    BY <1>9 DEF Join
  <2>2. r \in RoomID
    BY <2>1 DEF Available, KeptRooms, MatcherInv, Sound, Typed
  <2>3. NeedsSeat(q) /\ UNCHANGED <<clock, mode, made, life>>
    BY <1>9 DEF Join
  <2>4. /\ reservations' \in [Key -> Reservation \cup {None}]
        /\ request' \in [Request -> Asked]
    BY <2>1, <2>2, <2>3, GivenTyped, MatcherAssumption
  <2> QED
    BY <1>1, <1>2, <2>3, <2>4 DEF Counted
<1>10. ASSUME NEW q \in Request, NEW s \in Server, Make(q, s)
       PROVE  Counted' /\ Kept'
  <2>1. /\ NeedsSeat(q) /\ made < NumIDs /\ made' = made + 1
        /\ Reserve(q, made + 1) \/ SignFails(q)
        /\ mode' = [mode EXCEPT ![made + 1] = request[q].key[2]]
        /\ UNCHANGED <<clock, life>>
    BY <1>10 DEF Make, NewID
  <2>2. made + 1 \in RoomID /\ request[q].key[2] \in Mode
    BY <1>1, <2>1, LockedNow DEF NeedsSeat, RoomID
  <2>3. /\ reservations' \in [Key -> Reservation \cup {None}]
        /\ request' \in [Request -> Asked]
    BY <2>1, <2>2, GivenTyped, MatcherAssumption
  <2>4. Counted'
    BY <1>1, <2>1 DEF Counted
  <2> QED
    BY <1>1, <1>2, <2>1, <2>2, <2>3, <2>4
<1> QED
  BY <1>3, <1>4, <1>5, <1>6, <1>7, <1>8, <1>9, <1>10 DEF Next

\* For any number of servers, modes, players and seats, and whatever reading of the clock
\* a request comes to the lock with: it is answered with an error or with a seat of the
\* index's own kind, and hosts, rooms, rosters and clients stay of theirs (AllocateRoom,
\* toAllocateResult, handleJoinRoom).
THEOREM SystemTyped == SystemSpec => []SystemTypeOK
<1>1. SystemInit => Counted /\ Kept
  <2>1. MaxTime \in Nat /\ NumIDs \in Nat /\ MaxLives \in Nat
    BY MatcherAssumption DEF MatcherAssumption
  <2>2. SystemInit => Counted
    BY <2>1 DEF SystemInit, Init, Counted
  <2>3. SystemInit => Kept
    BY DEF SystemInit, Init, Kept, Asked
  <2> QED
    BY <2>2, <2>3
<1>2. MatcherInv /\ Counted /\ Kept /\ [SystemNext]_systemVars => Counted' /\ Kept'
  BY SystemStepsMatcher, KeptStep, MatcherAssumption
<1>3. MatcherInv /\ SystemInv /\ Counted /\ Kept => SystemTypeOK
  BY DEF MatcherInv, Sound, Typed, SystemInv, GamesSound, SlotsSound, Counted, Kept, Asked,
         ClientsTyped, SystemTypeOK, TypeOK
<1> QED
  BY <1>1, <1>2, <1>3, MatcherAlwaysSound, SystemAlwaysSound, PTL DEF SystemSpec
=============================================================================
