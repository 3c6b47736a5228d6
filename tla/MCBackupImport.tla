--------------------------- MODULE MCBackupImport ---------------------------
(* Instances of BackupImport for TLC. *)
EXTENDS BackupImport, TLC

Symmetric == Permutations(Files)
=============================================================================
