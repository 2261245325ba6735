---------------------------- MODULE MCConflicts ----------------------------
\* Conflicts for TLC: two calls at a time on one fingerprint.
EXTENDS Conflicts, TLC

CONSTANTS c1, c2, i1, i2

Symmetry == Permutations(Calls) \cup Permutations(Ids)
=============================================================================
