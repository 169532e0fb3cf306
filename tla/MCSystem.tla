------------------------------ MODULE MCSystem ------------------------------
\* Instances of System for TLC.
EXTENDS System, TLC

\* Requests, players and modes are interchangeable.
Interchangeable == Permutations(Request) \cup Permutations(Player) \cup Permutations(Mode)
=============================================================================
