\* Six lines: a heap of three levels, where a removed slot may have to be
\* repaired upwards in another branch.
SPECIFICATION PQSpec
CONSTANTS
  Items = {x1, x2, x3, x4, x5, x6}
  MaxPri = 2
  NONE = NONE
SYMMETRY Symmetry
INVARIANTS PositionsExact HeapOrder
PROPERTIES ImplementsVictimQueue
