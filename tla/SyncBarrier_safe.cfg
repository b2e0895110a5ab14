SPECIFICATION Spec
CONSTANTS
  c1 = c1
  c2 = c2
  Callers <- MCCallers
  MaxOffset = 2
  MaxFiles = 3
  MaxFailures = 1
  Settings <- PlainAndRaces
SYMMETRY CallerSymmetry
INVARIANTS
  TypeOK
  SyncKeepsItsPromise
  CleanMeansFlushed
CHECK_DEADLOCK FALSE
