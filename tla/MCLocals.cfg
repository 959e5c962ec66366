SPECIFICATION Spec
CONSTANTS
  x = x
  y = y
  Names = {x, y}
  Arguments = Arguments
  Decls <- Declarations
  MaxUses = 2
  MaxParts = 4
SYMMETRY Renamings
INVARIANTS NoAlias ThickChain Optimised Denotes
CHECK_DEADLOCK FALSE
