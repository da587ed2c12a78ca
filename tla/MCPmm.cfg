SPECIFICATION PmmSpec
CONSTANTS
  ByteBits <- MCByteBits
  Bytes <- MCBytes
INVARIANTS
  PmmTypeOK Accounted
PROPERTIES
  LowestFirst ImplementsAllocator
