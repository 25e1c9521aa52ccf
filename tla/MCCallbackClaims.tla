-------------------------- MODULE MCCallbackClaims --------------------------
\* An instance of CallbackClaims for TLC.
EXTENDS CallbackClaims, TLC

CONSTANTS d1, d2, d3, keypad, dial

Symmetry == Permutations(Deliveries)
=============================================================================
