--------------------------- MODULE MCCheckpoints ---------------------------
\* Checkpoints for TLC: two calls at a time on one session.
EXTENDS Checkpoints, TLC

CONSTANTS c1, c2, fallback, x, y

Symmetry == Permutations(Calls) \cup Permutations({x, y})
=============================================================================
