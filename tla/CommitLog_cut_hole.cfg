SPECIFICATION Spec
CONSTANTS
    MaxOffset = 4
    MaxBatch = 1
    MaxFailures = 0
    Settings <- Cut
INVARIANTS
    HoleFree
CHECK_DEADLOCK FALSE
