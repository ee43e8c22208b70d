------------------------- MODULE MCMemoryLifecycle -------------------------
EXTENDS MemoryLifecycle, TLC

Symmetry == Permutations(Call)
=============================================================================
