------------------------------- MODULE MCRoom -------------------------------
\* Instances of Room for TLC.
EXTENDS RoomGame, TLC

\* Players and callers are interchangeable (used by safety runs only).
Interchangeable == Permutations(Player) \cup Permutations(Caller)
=============================================================================
