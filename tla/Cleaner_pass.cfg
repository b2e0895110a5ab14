CONSTANTS
    NoKey = NoKey
    NoPid = NoPid
    None = None
    Gone = Gone
    k1 = k1
    p1 = p1
    Keys = {k1}
    MaxOffset = 5
    Settings <- Sets
SPECIFICATION FairSpec
INVARIANTS
    LookupsFindTheirRecord
    VerifiedFloorHolds
    LoadedDigestsAreCurrent
    OpenAcceptsTheFiles
PROPERTIES
    ImplementsKeyedLog
    DebtDrains
