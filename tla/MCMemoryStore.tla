--------------------------- MODULE MCMemoryStore ---------------------------
\* MemoryStore for TLC: three calls of two processes, single or batch, on two memories.
EXTENDS MemoryStore, TLC

CONSTANTS a, b, t1, t2, c1, c2

MCStamps == 0..MaxStamp

Symmetry == Permutations(Clients) \cup Permutations(Texts) \cup Permutations(Ids)
=============================================================================
