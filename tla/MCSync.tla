------------------------------- MODULE MCSync --------------------------------
EXTENDS Sync, TLC

Symmetry == Permutations(Workers)
=============================================================================
