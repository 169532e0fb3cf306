------------------------------- MODULE MCLogins -------------------------------
(* Logins for TLC: two devices of one user.                                 *)
EXTENDS Logins, TLC

CONSTANTS d1, d2, u1

TwoDevices == d1 :> u1 @@ d2 :> u1

Interchangeable == Permutations({d1, d2})
=============================================================================
