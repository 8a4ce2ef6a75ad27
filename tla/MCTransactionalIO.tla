------------------------- MODULE MCTransactionalIO -------------------------
EXTENDS TransactionalIO, TLC
Symmetry == Permutations(Contexts)
=============================================================================
