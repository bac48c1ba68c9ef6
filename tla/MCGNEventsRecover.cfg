CONSTANTS
  Host = "host"
  Apps <- MCApps
  Frames <- MCFrames
  Word = 8
  MaxCrashes = 2
  MaxSpare = 1
SPECIFICATION Spec
INVARIANT RegistersAtomic
CHECK_DEADLOCK FALSE
