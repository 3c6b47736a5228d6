----------------------------- MODULE MCHomePage -----------------------------
(* Instances of HomePage for TLC. *)
EXTENDS HomePage, TLC

Symmetric == Permutations(Items) \cup Permutations(Groups)
=============================================================================
