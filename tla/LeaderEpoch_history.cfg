SPECIFICATION Spec
CONSTANTS
  MaxEpoch = 2
  MaxOffset = 4
  Settings <- PlainAndEverything
INVARIANTS
  TypeOK
  AnchorsAscend
  ProbeKeepsSharedHistory
  ProbeCutsAboveFloor
  ElectionIsRecorded
CHECK_DEADLOCK FALSE
