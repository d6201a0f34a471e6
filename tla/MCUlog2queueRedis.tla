-------------------------- MODULE MCUlog2queueRedis --------------------------
EXTENDS Ulog2queueRedis, TLC

Symmetry == Permutations(Line) \cup Permutations(Workers)
=============================================================================
