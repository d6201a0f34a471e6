SPECIFICATION Spec
SYMMETRY Symmetry
CHECK_DEADLOCK FALSE
CONSTANTS
  MaxSequence = 1
  Callers = {c1, c2}
  Clock = {0, 1, 3}
  MaxIds = 2
INVARIANTS
  DocIdsUnique
