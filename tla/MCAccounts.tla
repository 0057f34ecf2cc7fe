----------------------------- MODULE MCAccounts -----------------------------
(* Accounts on small instances for TLC *)
EXTENDS Accounts, TLC

Symmetry == Permutations(Procs)
=============================================================================
