SPECIFICATION Spec
CONSTANTS
  Workers = {w1, w2}
  Tasks = {k1, k2}
  doNothing = doNothing
INVARIANTS TypeOK LaunchAccounted LaunchesValid NothingLeft
PROPERTIES TerminationReported ShutdownEnds
CHECK_DEADLOCK FALSE
