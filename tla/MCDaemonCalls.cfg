SPECIFICATION Spec
CONSTANTS
  c1 = c1
  c2 = c2
  c3 = c3
  Conns = {c1, c2}
  MaxConnections = 1
  Room = 2
  NoSocket = NoSocket
  NoOp = NoOp
  Ops <- EachOp
  OpsOf <- Everything
PROPERTIES CallsReturn EntriesFreed
CHECK_DEADLOCK FALSE
