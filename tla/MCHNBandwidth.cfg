CONSTANTS
  Cols = 3
  Rows = 2
  Capacity <- MCCapacity
  Garbage = {3}
  Largest = 2
  Amounts = {1, 2}
  Single <- MCSingle
  Pairs <- MCPairs
  Rectangles <- MCAreas
  Clients = {u1, u2}
SPECIFICATION BandwidthSpec
INVARIANTS BandwidthTypeOK BandwidthExact
PROPERTIES ImplementsLedger
