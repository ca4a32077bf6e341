---------------------------- MODULE MCSalesMemory ----------------------------
EXTENDS SalesMemory, TLC

CONSTANTS c1, c2, n1, n2

Symmetry == Permutations({c1, c2}) \cup Permutations({n1, n2})

=============================================================================
