---------------------------- MODULE MCUlog2queue -----------------------------
EXTENDS Ulog2queue, TLC

Symmetry == Permutations(Line) \cup Permutations(Workers)
            \cup Permutations(Primaries)
=============================================================================
