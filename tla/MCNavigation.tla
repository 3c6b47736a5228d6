---------------------------- MODULE MCNavigation ----------------------------
(* Instances of Navigation for TLC. *)
EXTENDS Navigation, TLC

Symmetric == Permutations(Groups) \cup Permutations(Items) \cup Permutations(Reqs)
=============================================================================
