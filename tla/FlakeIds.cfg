SPECIFICATION Spec
SYMMETRY Symmetry
CHECK_DEADLOCK FALSE
CONSTANTS
  MaxSequence = 1
  Callers = {c1}
  Clock = {0, 1, 3}
  MaxIds = 5
INVARIANTS
  TypeOK
  IdsGrow
  DocIdsUnique
