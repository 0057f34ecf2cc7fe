----------------------------- MODULE MCBackups -----------------------------
(* Backups on a small instance for TLC *)
EXTENDS Backups, TLC

\* A nightly backup
BackupJob == {[on |-> TRUE, type |-> "backup", trigger |-> TRUE]}

Symmetry == Permutations(Workers)
============================================================================
