SPECIFICATION FailingSpec
CONSTANTS
  Chunk = 2
  MaxOffset = 3
  MaxFailures = 1
  None = None
  Settings <- RenameFails
INVARIANT SeekFindsItsRecord
CHECK_DEADLOCK FALSE
