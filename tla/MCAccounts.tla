------------------------------ MODULE MCAccounts ------------------------------
(* Accounts for TLC: the level table of the code and interchangeable          *)
(* callers, emails and games.                                              *)
EXTENDS Accounts

MCLevel == <<0, 500, 1500, 3000, 5000>>
Interchangeable ==
  Permutations(Settlers) \cup Permutations(Email) \cup Permutations(Game)
=============================================================================
