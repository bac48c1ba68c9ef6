SPECIFICATION Spec
CONSTANTS
  Cols = 3
  Rows = 3
  MemTiles <- DenseMemTiles
  Users = {u1, u2, u3, u4, u5, u6}
  SetSizes = {1}
INVARIANTS TypeOK HeldDisjoint AreasExact RoutesExact
