------------------------------ MODULE MCForget ------------------------------
\* Forget for TLC: a memory with two pins is forgotten twice, or by two calls at once.
EXTENDS Forget, TLC

CONSTANTS f1, f2, p1, p2, t1, t2, n1, n2

Symmetry == Permutations(Forgetters) \cup Permutations(Pins) \cup Permutations(Wordings)
            \cup Permutations(Neighbours)
=============================================================================
