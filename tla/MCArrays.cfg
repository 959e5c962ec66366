SPECIFICATION ArraysSpec
CONSTANTS
  Indexes = {0, 2, 3, 9, 13}
  CHUNK_SIZE = 2
  INITIAL_VALUE_SIZE = 3
  INITIAL_CHUNK_COUNT = 3
  MAX_ARRAY_SIZE = 5
  MaxWrites = 5
  Missing = Missing
  Collects = FALSE
  Names = {0, 1, 3, 7, 8, 17}
  InitialSize = 3
  MixedCount = 2
  Inherited <- MCInherited
  Values = {1, 2}
  Undefined = Undefined
  None = None
  MaxLength = 3
  MaxLoop = 3
  MaxChanges = 1
INVARIANTS Represented EachKeyOnce LoopVisits LoopResult
PROPERTIES NeverBack ReadsWhatWasWritten CallsAsSpecified
CHECK_DEADLOCK FALSE
