---------------------------- MODULE MCDiscovery ----------------------------
(* Instances of discovery for TLC.  Certificate a is in two CT logs. *)
EXTENDS Discovery, TLC
CONSTANTS a, b, a1, a2, b1, p, q

FpOfEntry == (a1 :> a) @@ (a2 :> a) @@ (b1 :> b)

\* A scan sees both entries of one certificate, or one entry twice from two places.
Repeated == {{<<p, a1>>, <<p, a2>>}, {<<p, b1>>, <<q, b1>>}}

\* Scans that overlap in certificate a
Overlapping == {{<<p, a1>>, <<p, b1>>}, {<<p, a2>>}}

Symmetry == Permutations(Workers)
============================================================================
