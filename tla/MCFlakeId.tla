------------------------------ MODULE MCFlakeId -------------------------------
EXTENDS FlakeId, TLC

Symmetry == Permutations(Callers)
=============================================================================
