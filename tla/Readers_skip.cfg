SPECIFICATION Spec
CONSTANTS
    r1 = r1
    Readers <- MCReader
    MaxOffset = 3
    MaxStart = 1
    Settings <- Rolls
INVARIANT
    UncommittedInOrder
CHECK_DEADLOCK FALSE
