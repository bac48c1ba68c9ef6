SPECIFICATION Spec
CONSTANTS
  Workers = {w1, w2}
  Tasks = {k1, k2}
  doNothing = doNothing
PROPERTY MapsReadAlone
CHECK_DEADLOCK FALSE
