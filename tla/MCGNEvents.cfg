CONSTANTS
  Host = "host"
  Apps <- MCApps
  Frames <- MCFrames
  Word = 8
  MaxCrashes = 2
  MaxSpare = 1
SPECIFICATION Spec
INVARIANTS TypeOK AccessesAtomic NoDataRace ResultsRight SomeoneCanGoOn
PROPERTIES ValuesKeptApart
CHECK_DEADLOCK FALSE
