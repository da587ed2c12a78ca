SPECIFICATION BootSpec
CONSTANTS
  PageSize <- MCPageSize
  ByteBits <- MCByteBits
  WordMod <- MCWordMod
  KernelStart <- MCKernelStart
  KernelEnd <- MCKernelEnd
  StackBase <- MCStackBase
  StackSize <- MCStackSize
  MemoryMaps <- MCRaggedMaps
INVARIANTS RamRepresented

