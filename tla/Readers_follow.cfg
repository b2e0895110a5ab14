SPECIFICATION FairSpec
CONSTANTS
    r1 = r1
    Readers <- MCReader
    MaxOffset = 3
    MaxStart = 1
    Settings <- EverySetting
INVARIANTS
    CommittedInOrder
    ServesOnlyCommitted
    ParkedAtTail
PROPERTIES
    CommittedDelivered
    ReadonlyEnds
    UncommittedDelivered
    ClosedEnds
    BoundedEnds
    LEOWaiterWakes
CHECK_DEADLOCK FALSE
