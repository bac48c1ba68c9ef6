SPECIFICATION Spec
CONSTANTS
  c1 = c1
  c2 = c2
  c3 = c3
  Conns = {c1, c2, c3}
  MaxConnections = 2
  Room = 2
  NoSocket = NoSocket
  NoOp = NoOp
  Ops <- EachOp
  OpsOf <- Shares
INVARIANTS TypeOK CleanBetweenCalls
PROPERTIES ImplementsRemoteCalls
CHECK_DEADLOCK FALSE
