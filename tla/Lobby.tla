-------------------------------- MODULE Lobby --------------------------------
(***************************************************************************)
(* What a room server promises of its rooms together, with no session,      *)
(* index, goroutine or token in it: an id names one room at a time, which   *)
(* is made while there are fewer than MaxRooms, gathers players, is played  *)
(* from the moment it is full and with nobody new, and is gone after its    *)
(* game, so that the next room of the id starts with nobody in it.  A game   *)
(* that everybody has left still counts against MaxRooms when it is over.   *)
(***************************************************************************)
EXTENDS Naturals, FiniteSets

CONSTANTS RoomID, Player, MaxPlayers, MaxRooms

VARIABLES phase,   \* "none", "waiting", "playing" or "over", of the room of each id
          roster   \* the players in it

vars == <<phase, roster>>

Init ==
  /\ phase = [i \in RoomID |-> "none"]
  /\ roster = [i \in RoomID |-> {}]

Place == Cardinality({i \in RoomID : phase[i] # "none"}) < MaxRooms

\* A room is made before anybody is in it.
Open(i) ==
  /\ phase[i] = "none"
  /\ Place
  /\ phase' = [phase EXCEPT ![i] = "waiting"]
  /\ UNCHANGED roster

\* A player comes in.
Enter(i, p) ==
  /\ phase[i] = "waiting"
  /\ p \notin roster[i]
  /\ roster' = [roster EXCEPT ![i] = @ \cup {p}]
  /\ phase' = [phase EXCEPT ![i] =
       IF Cardinality(roster[i] \cup {p}) = MaxPlayers THEN "playing" ELSE "waiting"]

Quit(i, p) ==
  /\ phase[i] \in {"waiting", "playing"}
  /\ p \in roster[i]
  /\ roster' = [roster EXCEPT ![i] = @ \ {p}]
  /\ UNCHANGED phase

Finish(i) ==
  /\ phase[i] = "playing"
  /\ phase' = [phase EXCEPT ![i] = IF roster[i] = {} THEN "over" ELSE "none"]
  /\ roster' = [roster EXCEPT ![i] = {}]

\* The server restarts.
Restart ==
  /\ phase' = [i \in RoomID |-> "none"]
  /\ roster' = [i \in RoomID |-> {}]

Next ==
  \/ \E i \in RoomID : Open(i) \/ Finish(i)
  \/ \E i \in RoomID, p \in Player : Enter(i, p) \/ Quit(i, p)
  \/ Restart

Spec == Init /\ [][Next]_vars
=============================================================================
