SPECIFICATION MCSpec
CONSTANTS
  AddrSpace = 32
  Cols = 2
  Rows = 2
  MemTiles <- OneMemTile
  MemBase <- OneBase
  MemSize = 6
  RegBlock = 2
  RegCount = 4
  Word = 4
  Leftovers = {0, 1}
  Values = {1}
  k1 = k1
  k2 = k2
  b1 = b1
  b2 = b2
  b3 = b3
  e1 = e1
  e2 = e2
  e3 = e3
  Kernels = {k1, k2}
  Buffers = {b1, b2}
  Events = {e1, e2, e3}
  BufferKernel <- OneKernel
  BufferEvent <- EventOf
  BufferSize <- SizeOf
  MaxSlots = 3
  ChecksExitCodes = TRUE
  DrainsEvents = FALSE
INVARIANT NeverAborts
