SPECIFICATION BootSpec
CONSTANTS
  PageSize <- MCPageSize
  ByteBits <- MCByteBits
  WordMod <- MCWordMod
  KernelStart <- MCKernelStart
  KernelEnd <- MCKernelEnd
  StackBase <- MCStackBase
  StackSize <- MCStackSize
  MemoryMaps <- MCAllMaps
INVARIANTS BootTypeOK OnlyRamFree KernelReserved
PROPERTIES BootReachesRun
CHECK_DEADLOCK FALSE
