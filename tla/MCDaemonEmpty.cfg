SPECIFICATION Spec
CONSTANTS
  c1 = c1
  c2 = c2
  c3 = c3
  Conns = {c1}
  MaxConnections = 1
  Room = 2
  NoSocket = NoSocket
  NoOp = NoOp
  Ops <- EmptyRead
  OpsOf <- Everything
PROPERTY QueuedIsSent
CHECK_DEADLOCK FALSE
