SPECIFICATION MCSpec
CONSTANTS
  AddrSpace = 32
  Base = 7
  MemSize = 6
  Sizes = {2}
  MaxSlots = 6
INVARIANT FoundIsAllocatable
