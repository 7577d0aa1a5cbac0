------------------------- MODULE MCRuntimeSingleton -------------------------
EXTENDS RuntimeSingleton, TLC

Symmetry == Permutations(Instance)
=============================================================================
