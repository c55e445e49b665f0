------------------------------ MODULE MCStream ------------------------------
EXTENDS UvcStream, TLC
Symmetry == Permutations(Transfers)
=============================================================================
