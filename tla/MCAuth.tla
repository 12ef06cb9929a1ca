------------------------------- MODULE MCAuth -------------------------------
(* Instances of AuthService for TLC. *)
EXTENDS AuthService, TLC

Symmetry == Permutations(Requests)
=============================================================================
