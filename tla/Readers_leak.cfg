SPECIFICATION Spec
CONSTANTS
    r1 = r1
    Readers <- MCReader
    MaxOffset = 4
    MaxStart = 1
    Settings <- RewriteUnderAReader
INVARIANT
    ServesOnlyCommitted
CHECK_DEADLOCK FALSE
