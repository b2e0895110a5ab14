SPECIFICATION Spec
CONSTANTS
  Chunk = 2
  MaxOffset = 4
  MaxFailures = 1
  None = None
  Settings <- BothLayouts
INVARIANTS
  TableDescribesTheFile
  EntriesAreBacked
  SegmentOpens
  TailIsTheFiles
  SeekFindsItsRecord
CHECK_DEADLOCK FALSE
