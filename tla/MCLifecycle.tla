---------------------------- MODULE MCLifecycle ----------------------------
(* The lifecycle on a small instance. *)
EXTENDS CertLifecycle, TLC
Symmetry == Permutations(Workers)
============================================================================
