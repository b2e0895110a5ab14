SPECIFICATION Spec
CONSTANTS
    MaxOffset = 3
    MaxBatch = 2
    MaxFailures = 1
    Settings <- EverySetting
INVARIANTS
    TrimsLeaveNoHole
    LiveSurvives
    SyncedSurvives
    OpensAfterKill
    WatermarkIsBacked
CHECK_DEADLOCK FALSE
