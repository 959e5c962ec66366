CONSTANTS
  c1 = c1
  c2 = c2
  string = string
  store = store
  Cells <- MCCells
  Types <- MCTypes
  PayloadSize <- MCPayloadSize
  PtrWords <- MCPtrWords
  HeaderSize = 2
  PageSize = 4
  InitialHeap = 12
  InitGc = 95
  SlowGrowth = 150
  FastGrowth = 300
  MaxIds = 3
SPECIFICATION FairSpec
INVARIANTS
  TypeOK
  NoDangling
  NoOverrun
  FinalizedGone
  CopiedOnce
PROPERTIES
  GraphPreserved
  AllocationEnds
CHECK_DEADLOCK FALSE
