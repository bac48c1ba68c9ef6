SPECIFICATION MCSpec
CONSTANTS
  AddrSpace = 13
  Base = 7
  MemSize = 6
  Sizes = {1, 2, 3}
  MaxSlots = 4
INVARIANTS TypeOK Partition FreeMemoryExact
PROPERTY ImplementsArena
