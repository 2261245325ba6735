---------------------------- MODULE MCReconcile ----------------------------
\* Reconcile for TLC: one run and one undo of the documents of one scope.
EXTENDS Reconcile, TLC

CONSTANTS a, b, f1, f2

Symmetry == Permutations(Texts)
=============================================================================
