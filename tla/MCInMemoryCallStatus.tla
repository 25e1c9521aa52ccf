------------------------ MODULE MCInMemoryCallStatus ------------------------
\* Instances of InMemoryCallStatus for TLC.
EXTENDS InMemoryCallStatus, TLC

CONSTANTS d1, d2, d3, k1, k2

Symmetry == Permutations(Deliveries) \cup Permutations(Keys)
=============================================================================
