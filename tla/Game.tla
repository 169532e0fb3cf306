-------------------------------- MODULE Game --------------------------------
(***************************************************************************)
(* What a room promises its players, with no goroutine, channel or counter  *)
(* in it: players gather until the room is full, the game starts at that    *)
(* moment and with exactly those players, nobody comes in later, and the    *)
(* game ends by its time limit unless the server stops the room first.      *)
(***************************************************************************)
EXTENDS Naturals, FiniteSets

CONSTANTS Player, MaxPlayers

VARIABLES phase,   \* "waiting", "playing", "over" or "aborted"
          roster   \* the players in the room

vars == <<phase, roster>>

Init == phase = "waiting" /\ roster = {}

Enter(p) ==
  /\ phase = "waiting"
  /\ p \notin roster
  /\ roster' = roster \cup {p}
  /\ phase' = IF Cardinality(roster \cup {p}) = MaxPlayers
              THEN "playing" ELSE "waiting"

Quit(p) ==
  /\ phase \in {"waiting", "playing"}
  /\ p \in roster
  /\ roster' = roster \ {p}
  /\ UNCHANGED phase

TimeUp ==
  /\ phase = "playing"
  /\ phase' = "over"
  /\ UNCHANGED roster

Abort ==
  /\ phase \in {"waiting", "playing"}
  /\ phase' = "aborted"
  /\ UNCHANGED roster

Next ==
  \/ \E p \in Player : Enter(p) \/ Quit(p)
  \/ TimeUp \/ Abort

Spec == Init /\ [][Next]_vars

\* A game that is being played does not go on for ever.
Conclude == phase = "playing" /\ (TimeUp \/ Abort)

FairSpec == Spec /\ WF_vars(Conclude)
=============================================================================
