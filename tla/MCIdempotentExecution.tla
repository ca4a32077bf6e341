------------------------ MODULE MCIdempotentExecution ------------------------
(* Small instances of IdempotentExecution for TLC. *)
EXTENDS IdempotentExecution, TLC

CONSTANT f2
MCOneVersion == [f \in Fingerprints |-> 1]
\* A rolling upgrade: one fingerprint was computed under another version.
MCTwoVersions == [f \in Fingerprints |-> IF f = f2 THEN 2 ELSE 1]
\* Faulty and reliable calls are interchangeable among themselves.
Symmetry ==
  Permutations(Faulty) \cup Permutations(Calls \ Faulty) \cup Permutations(Fingerprints)
=============================================================================
