-------------------------- MODULE MCBeliefHistory --------------------------
\* BeliefHistory for TLC: two writers revise one belief, three times in all.
EXTENDS BeliefHistory, TLC

CONSTANTS w1, w2, t1, t2

Symmetry == Permutations(Writers) \cup Permutations(Texts)
=============================================================================
