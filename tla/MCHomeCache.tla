---------------------------- MODULE MCHomeCache ----------------------------
(* Instances of HomeCache for TLC. *)
EXTENDS HomeCache, TLC

Symmetric == Permutations(Users) \cup Permutations(Tokens) \cup Permutations(Roles)
=============================================================================
