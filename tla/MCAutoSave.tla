----------------------------- MODULE MCAutoSave -----------------------------
(* Instances of AutoSave for TLC. *)
EXTENDS AutoSave, TLC

Symmetric == Permutations(Forms)
=============================================================================
