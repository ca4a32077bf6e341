--------------------------- MODULE MCJwksProvider ---------------------------
(* Instances of JwksProvider for TLC. *)
EXTENDS JwksProvider, TLC

CONSTANTS l1, l2, l3, l4, k1, k2

Symmetry == Permutations(Lookups) \cup Permutations(Kids)
=============================================================================
