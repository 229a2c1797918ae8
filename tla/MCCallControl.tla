--------------------------- MODULE MCCallControl ----------------------------
EXTENDS CallControl, TLC
Symmetry == Permutations(Peers)
=============================================================================
