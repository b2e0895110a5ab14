SPECIFICATION FairSpec
CONSTANTS
    near = near
    far = far
    Tiers <- TwoTiers
    Local = Local
    None = None
    ObjectKeys = {1, 2, 3, 4}
    Scanners = {r1}
    Owners = {o1}
    Peers = {p1, p2}
    CacheBudget = 1
    MaxOffset = 4
    Settings <- Sets
INVARIANTS
    RecoversEverything
    ServesLive
    ReadersKeepTheirObject
    CacheKeepsItsFiles
PROPERTIES
    ReadOnlyRespected
    ReclaimDrains
