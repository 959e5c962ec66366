SPECIFICATION Spec
CONSTANTS
  Objects = {o1, o2}
  Null = Null
  Capacity = 1
  MaxRoots = 3
  MaxLocals = 4
  MaxScopes = 2
  MaxMoves = 2
INVARIANTS Denotes FreeSlots
PROPERTY FreesTheRest
