SPECIFICATION Spec
CONSTANTS
  x = x
  y = y
  Names = {x, y}
  Arguments = Arguments
  Decls <- Parameters
  MaxUses = 2
  MaxParts = 4
SYMMETRY Renamings
INVARIANT LiftChain
CHECK_DEADLOCK FALSE
