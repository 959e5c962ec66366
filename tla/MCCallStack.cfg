SPECIFICATION Spec
CONSTANTS
  main = main  inc = inc  map = map  bnd = bnd
  Undefined = Undefined  Global = Global  Fresh = Fresh
  Functions = {main, inc, map, bnd}
  Constructors = {main, inc, bnd}
  Loads = {inc, map, bnd}
  Kind <- MCKind
  Params <- MCParams
  Locals <- MCLocals
  Target <- MCTarget
  Passed <- MCPassed
  Strict = {inc}
  Main = main
  Modes = {TRUE, FALSE}
  StackSize = 10
CHECK_DEADLOCK FALSE
PROPERTY Calling CallersKept
