SPECIFICATION Spec
CONSTANTS
  Functions <- MCFunctions
  Families = {{"try_c", "try_f", "try_cf", "catch", "catch_f", "finally", "c_finally", "e_finally", "with", "while", "forin"},
              {"label", "if", "else", "whilea", "do", "for", "for_ever", "switch", "default", "forin", "try_cf"}}
  Depth = 3
  LongLeaves = FALSE
  BusyFinally = FALSE
  BlockBreak = FALSE
  MaxGo = 1
INVARIANT AsSpecified
PROPERTY Ends
