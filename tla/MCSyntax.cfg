SPECIFICATION Spec
CONSTANTS
  Programs <- MCPrograms
  Castings <- MCCastings
  Evals <- MCEvals
  Outcome <- MCOutcome
  Keys = {"0", "1", "9", ".", "e", "-", "x", "a", "I"}
  MaxDigits = 5
INVARIANTS
  ParsedAsWritten
  NewLineEnds
  NumbersAsWritten
CHECK_DEADLOCK FALSE
