SPECIFICATION Spec
CONSTANTS
  Cols = 4
  Rows = 2
  MemTiles <- ShippedMemTiles
  Users = {u1, u2, u3}
  SetSizes = {1, 3}
INVARIANT HeldDisjoint
