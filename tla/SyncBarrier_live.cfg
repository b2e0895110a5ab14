SPECIFICATION FairSpec
CONSTANTS
  c1 = c1
  c2 = c2
  Callers <- MCCallers
  MaxOffset = 1
  MaxFiles = 2
  MaxFailures = 1
  Settings <- CutAndClosed
PROPERTY
  SyncReturns
CHECK_DEADLOCK FALSE
