SPECIFICATION Spec
CONSTANTS
  Functions <- MCFunctions
  Families = {{"try_c", "try_f", "try_cf", "catch", "catch_f", "finally", "c_finally", "e_finally", "with", "while", "forin"}}
  Depth = 2
  LongLeaves = TRUE
  BusyFinally = FALSE
  BlockBreak = FALSE
  MaxGo = 1
INVARIANT AsSpecified
