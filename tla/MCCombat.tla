------------------------------ MODULE MCCombat ------------------------------
\* Instances of Combat for TLC.
EXTENDS Combat, TLC

\* Players are interchangeable.
Interchangeable == Permutations(Player)
=============================================================================
