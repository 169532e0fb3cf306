------------------------------ MODULE RoomGame ------------------------------
(***************************************************************************)
(* A room implements a Game: its phase is read off the room's flags and the *)
(* state of its goroutine.                                                  *)
(***************************************************************************)
EXTENDS Room

Phase(r) ==
  CASE gameEnded[r]       -> "over"
    [] loop[r] = "exited" /\ ~gameEnded[r] -> "aborted"
    [] loop[r] # "exited" /\ gameStarted[r] /\ ~gameEnded[r] -> "playing"
    [] OTHER              -> "waiting"

Life(r) == INSTANCE Game WITH phase <- Phase(r), roster <- players[r]

\* Every step of a room (handleJoinEvent, handleLeave, update, loop) is a step
\* of its Game or leaves phase and roster alone: the game starts exactly when
\* the roster fills, and never with one player more or fewer.
ImplementsGame ==
  /\ \A r \in Room : Life(r)!Init
  /\ [][\A r \in Room : Life(r)!Next \/ UNCHANGED <<Phase(r), players[r]>>]_vars

\* With the fairness of the room's loop, a room also does what Game promises
\* to do: a game being played ends.  (TLC takes one room at a time.)
SomeRoom == CHOOSE r \in Room : TRUE
OneLife == INSTANCE Game
             WITH phase <- Phase(SomeRoom), roster <- players[SomeRoom]
ImplementsFairGame == OneLife!FairSpec
=============================================================================
