SPECIFICATION SpaceSpec
CONSTANTS
  Entries = 5
  HeapSlot = 2
  InitialPages = 2
  Frame <- MCFrame
  Ram <- MCRam
  GrowSizes = {1, 2}
  Touched <- MCTouched
  Absent = Absent
  Junk = Junk
CHECK_DEADLOCK FALSE
INVARIANTS SpaceTypeOK KernelMapIntact TlbCoherent NoSharedFrame
PROPERTIES HeapStays AccessEnds
