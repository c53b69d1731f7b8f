----------------------------- MODULE MCReclaim ------------------------------
EXTENDS Reclaim, TLC

Symmetry == Permutations(Thread) \cup Permutations(Reader)
AnyKey == Word
=============================================================================
