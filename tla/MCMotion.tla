------------------------------- MODULE MCMotion -------------------------------
(* Motion for TLC, at a tick rate of 40: the stick takes two ticks to come    *)
(* back, and a unit of speed is 1/200 of a unit of length per second.  The   *)
(* map is a ledge under a roof that a jump reaches, over a pit.              *)
EXTENDS Motion

Ledge == [ground |-> 0, ceiling |-> 1600]
Pit == [ground |-> -1200, ceiling |-> 9000]
MCPlace == {Ledge, Pit}
=============================================================================
