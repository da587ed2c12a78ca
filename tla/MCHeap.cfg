SPECIFICATION FairSpec
CONSTANTS
  HeaderSize <- MCHeaderSize
  MinSplit <- MCMinSplit
  Alignment <- MCAlignment
  PageSize <- MCPageSize
  HeapStart <- MCHeapStart
  InitialPages <- MCInitialPages
  WordMod <- MCWordMod
  Frames <- MCFrames
  Requests <- MCRequests
INVARIANTS
  TypeOK BlocksDisjoint WellLinked NoAdjacentFree LiveBlocks
  HeapTiled
PROPERTIES
  HeldBlocksStay ImplementsContract CallsReturn
